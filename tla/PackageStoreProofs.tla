------------------------ MODULE PackageStoreProofs ------------------------
(***************************************************************************)
(* Proofs about PackageStore, for any number of versions, digests and      *)
(* programs and any number of directories to keep.                         *)
(*                                                                         *)
(* The invariant says that the modification times order the directories    *)
(* (Ordered), what the operation that holds pkgMu finds in its directories *)
(* at each of its steps (Installing, Collecting), and that what it still   *)
(* deletes exists and is pinned by no program it could have seen (Doomed,  *)
(* Spared).                                                                *)
(***************************************************************************)
EXTENDS PackageStore, FiniteSetTheorems, TLAPS

----------------------------------------------------------------------------
(* The inductive invariant *)

Existing == {d \in Dirs : Present(d)}

\* The modification times of the existing directories, of which there are
\* finitely many, are a strict total order.
Ordered ==
  /\ IsFiniteSet(Existing)
  /\ \A d \in Dirs : /\ ~Present(d) => newer[d] = {}
                     /\ newer[d] \subseteq Existing \ {d}
                     /\ \A e \in newer[d] : newer[e] \subseteq newer[d]
  /\ \A d, e \in Existing : d = e \/ d \in newer[e] \/ e \in newer[d]

\* Each directory still to be deleted exists and is listed once.
Doomed ==
  /\ \A i \in DOMAIN op.doomed : Present(op.doomed[i])
  /\ \A i, j \in DOMAIN op.doomed : op.doomed[i] = op.doomed[j] => i = j
  /\ op.pc \notin {"unpack", "swap", "return"} => op.doomed = <<>>

\* What InstallPackage finds at its steps.  The old directory is the only one
\* that is modified after the new one.
Installing ==
  LET v == op.version
      g == op.digest
  IN /\ op.pc \in {"download", "unpack", "mark", "swap", "gc"} => v \in Versions /\ g \in Digests
     /\ op.pc = "unpack" => op.doomed = IfPresent(Temp(v))
     /\ op.pc = "mark" => dir[Temp(v)] = [marker |-> None, entry |-> g]
     /\ op.pc = "swap" => /\ dir[Temp(v)] = [marker |-> g, entry |-> g]
                          /\ op.doomed = IfPresent(Place(v))
                          /\ newer[Temp(v)] \subseteq {Place(v)}
     /\ op.pc = "gc" => dir[Place(v)] = [marker |-> g, entry |-> g] /\ newer[Place(v)] = {}

\* The directories the garbage collection keeps.
Collecting ==
  op.fresh =>
    /\ op.pc \in {"gc", "return"}
    /\ op.version \in Versions /\ op.digest \in Digests
    /\ op.pc = "return" =>
         /\ dir[Place(op.version)] = [marker |-> op.digest, entry |-> op.digest]
         /\ Place(op.version) \notin Range(op.doomed)
         /\ Cardinality(Garbage(op.kept) \ Range(op.doomed)) <= KeepVersions

\* A program that pins what is being deleted was registered too late.
Spared ==
  op.pc = "return" =>
    \A d \in Range(op.doomed), p \in Programs : d[2] = "" /\ programs[p] = d[1] => p \in late

IInv == TypeOK /\ Ordered /\ NoMixedVersion /\ Doomed /\ Installing /\ Collecting /\ Spared

----------------------------------------------------------------------------
(* Sets and sequences *)

\* The elements of a sequence are of its type; a sequence of one has one.
LEMMA RangeType ==
  /\ \A S, q : q \in Seq(S) => Range(q) \subseteq S
  /\ \A t : Range(<<t>>) = {t}
<1>1. ASSUME NEW S, NEW q \in Seq(S) PROVE Range(q) \subseteq S
  <2>1. DOMAIN q = 1 .. Len(q) /\ q \in [1 .. Len(q) -> S]
    OBVIOUS
  <2> QED BY <2>1 DEF Range
<1>2. ASSUME NEW t PROVE Range(<<t>>) = {t}
  <2>1. DOMAIN <<t>> = {1} /\ <<t>>[1] = t
    OBVIOUS
  <2> QED BY <2>1 DEF Range
<1> QED BY <1>1, <1>2

\* The elements of a sequence without repetition are its head and, without the
\* head, those of its tail.
LEMMA HeadTail ==
  ASSUME NEW S, NEW q \in Seq(S), q # <<>>,
         \A i, j \in DOMAIN q : q[i] = q[j] => i = j
  PROVE  /\ Head(q) \in S /\ Tail(q) \in Seq(S) /\ Head(q) \in Range(q)
         /\ Range(Tail(q)) = Range(q) \ {Head(q)}
         /\ \A i, j \in DOMAIN Tail(q) : Tail(q)[i] = Tail(q)[j] => i = j
<1>1. Head(q) \in S /\ Tail(q) \in Seq(S) /\ Len(q) \in Nat /\ Len(q) > 0 /\ Len(Tail(q)) = Len(q) - 1
  OBVIOUS
<1>2. \A i \in 1 .. Len(q) - 1 : Tail(q)[i] = q[i + 1]
  OBVIOUS
<1>3. Head(q) = q[1] /\ DOMAIN q = 1 .. Len(q) /\ DOMAIN Tail(q) = 1 .. Len(q) - 1
  BY <1>1
<1>4. \A i, j \in DOMAIN Tail(q) : Tail(q)[i] = Tail(q)[j] => i = j
  <2> SUFFICES ASSUME NEW i \in 1 .. Len(q) - 1, NEW j \in 1 .. Len(q) - 1, q[i + 1] = q[j + 1]
               PROVE  i = j
    BY <1>2, <1>3
  <2>1. i + 1 \in DOMAIN q /\ j + 1 \in DOMAIN q
    BY <1>1, <1>3
  <2> QED BY <2>1
<1>5. ASSUME NEW x \in Range(q), x # Head(q) PROVE x \in Range(Tail(q))
  <2>1. PICK i \in 1 .. Len(q) : q[i] = x
    BY <1>3 DEF Range
  <2>2. i - 1 \in 1 .. Len(q) - 1 /\ (i - 1) + 1 = i
    BY <2>1, <1>1, <1>3, <1>5
  <2>3. Tail(q)[i - 1] = x
    BY <2>1, <2>2, <1>2
  <2> QED BY <2>2, <2>3, <1>3 DEF Range
<1>6. ASSUME NEW x \in Range(Tail(q)) PROVE x \in Range(q) /\ x # Head(q)
  <2>1. PICK i \in 1 .. Len(q) - 1 : q[i + 1] = x
    BY <1>2, <1>3 DEF Range
  <2>2. i + 1 \in DOMAIN q /\ 1 \in DOMAIN q /\ i + 1 # 1
    BY <1>1, <1>3
  <2> QED BY <2>1, <2>2, <1>3 DEF Range
<1>7. Head(q) \in Range(q)
  BY <1>1, <1>3 DEF Range
<1> QED BY <1>1, <1>4, <1>5, <1>6, <1>7

\* A listing of a finite set names each member once and nothing else.
LEMMA ListingOK ==
  ASSUME NEW ds, IsFiniteSet(ds), NEW s \in Listings(ds)
  PROVE  /\ s \in Seq(ds) /\ Range(s) = ds
         /\ \A i, j \in DOMAIN s : s[i] = s[j] => i = j
<1>1. Cardinality(ds) \in Nat
  BY FS_CardinalityType
<1>2. s \in [1 .. Cardinality(ds) -> ds] /\ \A d \in ds : \E i \in 1 .. Cardinality(ds) : s[i] = d
  BY DEF Listings, Bijection, Surjection
<1>3. \A i, j \in DOMAIN s : s[i] = s[j] => i = j
  BY DEF Listings, Bijection, Injection, IsInjective
<1>4. s \in Seq(ds)
  BY <1>1, <1>2
<1>5. Range(s) = ds
  BY <1>2 DEF Range
<1> QED BY <1>3, <1>4, <1>5

\* A directory that leaves room for at most k newer ones in a finite, totally
\* ordered set is one of at most k.
LEMMA NewestAreFew ==
  ASSUME NEW G, IsFiniteSet(G), NEW n, NEW k \in Nat,
         \A d \in G : d \notin n[d] /\ \A e \in G : e \in n[d] => n[e] \subseteq n[d],
         \A d, e \in G : d = e \/ d \in n[e] \/ e \in n[d]
  PROVE  Cardinality({d \in G : ~(Cardinality(n[d] \cap G) >= k)}) <= k
<1> DEFINE K    == {d \in G : ~(Cardinality(n[d] \cap G) >= k)}
           rank == [d \in K |-> Cardinality(n[d] \cap G)]
<1>1. ASSUME NEW d \in G PROVE IsFiniteSet(n[d] \cap G) /\ Cardinality(n[d] \cap G) \in Nat
  BY FS_Subset, FS_CardinalityType
<1>2. \A d \in K : rank[d] \in 0 .. k - 1
  BY <1>1
<1>3. ASSUME NEW d \in G, NEW e \in G, e \in n[d]
      PROVE  Cardinality(n[e] \cap G) # Cardinality(n[d] \cap G)
  <2>1. n[e] \cap G \in SUBSET (n[d] \cap G) /\ e \in n[d] \cap G /\ e \notin n[e] \cap G
    BY <1>3
  <2> QED BY <2>1, <1>1, FS_Subset
<1>4. ASSUME NEW d \in K, NEW e \in K, rank[d] = rank[e] PROVE d = e
  BY <1>3, <1>4
<1>5. rank \in Injection(K, 0 .. k - 1)
  BY <1>2, <1>4 DEF Injection, IsInjective
<1>6. IsFiniteSet(0 .. k - 1) /\ Cardinality(0 .. k - 1) = k
  BY FS_Interval, 0 \in Int, k - 1 \in Int
<1>7. Cardinality(K) <= Cardinality(0 .. k - 1)
  BY <1>5, <1>6, FS_Injection
<1> QED BY <1>6, <1>7

----------------------------------------------------------------------------
(* Directories and their order *)

\* A pair is made of its two halves.
LEMMA PairOK ==
  ASSUME NEW A, NEW B, NEW d \in A \X B
  PROVE  d = <<d[1], d[2]>> /\ d[1] \in A
<1>1. d = <<d[1], d[2]>>
  OBVIOUS
<1> QED BY <1>1

\* A version's directory and its temporary one are two directories.
LEMMA DirsOK ==
  /\ \A v \in Versions : Place(v) \in Dirs /\ Temp(v) \in Dirs
  /\ \A v, w \in Versions : Place(v) # Temp(w)
  /\ \A v \in Versions : Place(v)[1] = v /\ Place(v)[2] = "" /\ Temp(v)[2] # ""
  /\ \A d \in Dirs : d[2] = "" => d[1] \in Versions /\ d = Place(d[1])
<1>1. \A v \in Versions : Place(v) \in Dirs /\ Temp(v) \in Dirs
  BY DEF Dirs, Place, Temp
<1>2. \A v \in Versions : Place(v)[1] = v /\ Place(v)[2] = "" /\ Temp(v)[2] # ""
  BY DEF Place, Temp
<1>4. ASSUME NEW v \in Versions, NEW w \in Versions PROVE Place(v) # Temp(w)
  BY <1>2
<1>3. ASSUME NEW d \in Dirs, d[2] = "" PROVE d[1] \in Versions /\ d = Place(d[1])
  <2>1. d \in Versions \X {"", ".tmp"}
    BY DEF Dirs
  <2>2. d = <<d[1], d[2]>> /\ d[1] \in Versions
    BY <2>1, PairOK
  <2> QED BY <2>2, <1>3 DEF Place
<1> QED BY <1>1, <1>2, <1>3, <1>4

\* There is nothing to delete where there is no directory.
LEMMA IfPresentOK == \A d : IfPresent(d) = <<>> => ~Present(d)
<1>1. ASSUME NEW d PROVE <<d>> # <<>>
  <2>1. Len(<<d>>) = 1 /\ Len(<<>>) = 0
    OBVIOUS
  <2> QED BY <2>1
<1> QED BY <1>1 DEF IfPresent

\* Modifying or creating a directory makes it the newest one.
LEMMA TouchOrder ==
  ASSUME TypeOK, Ordered, NEW d \in Dirs, dir'[d] # None,
         \A e \in Dirs \ {d} : dir'[e] = dir[e],
         newer' = Touched(d)
  PROVE  Ordered' /\ newer' \in [Dirs -> SUBSET Dirs] /\ newer'[d] = {}
<1>0. Existing \subseteq Dirs /\ \A e \in Dirs : e \notin Existing => newer[e] = {}
  BY DEF Existing, Ordered
<1>1. Existing' = Existing \cup {d}
  BY DEF Existing, Present
<1>2. IsFiniteSet(Existing')
  BY <1>1, FS_AddElement DEF Ordered
<1>3. \A e \in Dirs : \A x : x \in newer'[e] <=> e # d /\ e \in Existing /\ (x \in newer[e] \/ x = d)
  BY DEF Touched, Existing
<1>4. newer' \in [Dirs -> SUBSET Dirs]
  BY DEF Touched, TypeOK
<1>5. ASSUME NEW e \in Dirs
      PROVE  /\ ~Present(e)' => newer'[e] = {}
             /\ newer'[e] \subseteq Existing' \ {e}
             /\ \A f \in newer'[e] : newer'[f] \subseteq newer'[e]
  <2>1. Present(e)' <=> e \in Existing'
    BY DEF Existing
  <2>2. \A f \in newer[e] : f \in Existing /\ f # e /\ newer[f] \subseteq newer[e]
    BY DEF Ordered
  <2>3. newer'[e] \subseteq Existing' \ {e}
    BY <1>0, <1>1, <1>3, <2>2
  <2>4. ~Present(e)' => newer'[e] = {}
    BY <1>0, <1>1, <1>3, <2>1
  <2>5. ASSUME NEW f \in newer'[e], NEW x \in newer'[f] PROVE x \in newer'[e]
    BY <1>0, <1>1, <1>3, <2>2, <2>3
  <2> QED BY <2>3, <2>4, <2>5
<1>6. ASSUME NEW e \in Existing', NEW f \in Existing'
      PROVE  e = f \/ e \in newer'[f] \/ f \in newer'[e]
  <2>1. e \in Existing /\ f \in Existing => e = f \/ e \in newer[f] \/ f \in newer[e]
    BY DEF Ordered
  <2> QED BY <1>0, <1>1, <1>3, <2>1
<1> QED BY <1>2, <1>3, <1>4, <1>5, <1>6 DEF Ordered

\* Deleting a directory leaves the order of the others.
LEMMA ForgetOrder ==
  ASSUME TypeOK, Ordered, NEW d \in Dirs, dir'[d] = None,
         \A e \in Dirs \ {d} : dir'[e] = dir[e],
         newer' = Forgotten(d)
  PROVE  Ordered' /\ newer' \in [Dirs -> SUBSET Dirs]
<1>0. Existing \subseteq Dirs /\ \A e \in Dirs : e \notin Existing => newer[e] = {}
  BY DEF Existing, Ordered
<1>1. Existing' = Existing \ {d}
  BY DEF Existing, Present
<1>2. IsFiniteSet(Existing')
  BY <1>1, FS_RemoveElement DEF Ordered
<1>3. \A e \in Dirs : \A x : x \in newer'[e] <=> e # d /\ x \in newer[e] /\ x # d
  BY DEF Forgotten
<1>4. newer' \in [Dirs -> SUBSET Dirs]
  BY DEF Forgotten, TypeOK
<1>5. ASSUME NEW e \in Dirs
      PROVE  /\ ~Present(e)' => newer'[e] = {}
             /\ newer'[e] \subseteq Existing' \ {e}
             /\ \A f \in newer'[e] : newer'[f] \subseteq newer'[e]
  <2>1. Present(e)' <=> e \in Existing'
    BY DEF Existing
  <2>2. \A f \in newer[e] : f \in Existing /\ f # e /\ newer[f] \subseteq newer[e]
    BY DEF Ordered
  <2>3. newer'[e] \subseteq Existing' \ {e}
    BY <1>0, <1>1, <1>3, <2>2
  <2>4. ~Present(e)' => newer'[e] = {}
    BY <1>0, <1>1, <1>3, <2>1
  <2>5. ASSUME NEW f \in newer'[e], NEW x \in newer'[f] PROVE x \in newer'[e]
    BY <1>0, <1>1, <1>3, <2>2, <2>3
  <2> QED BY <2>3, <2>4, <2>5
<1>6. ASSUME NEW e \in Existing', NEW f \in Existing'
      PROVE  e = f \/ e \in newer'[f] \/ f \in newer'[e]
  <2>1. e \in Existing /\ f \in Existing => e = f \/ e \in newer[f] \/ f \in newer[e]
    BY DEF Ordered
  <2> QED BY <1>0, <1>1, <1>3, <2>1
<1> QED BY <1>2, <1>4, <1>5, <1>6 DEF Ordered

\* A directory that takes the name of a deleted one keeps its place in the
\* order.
LEMMA RenameOrder ==
  ASSUME TypeOK, Ordered, NEW t \in Dirs, NEW d \in Dirs, t # d, Present(t), ~Present(d),
         dir'[t] = None, dir'[d] = dir[t],
         \A e \in Dirs \ {t, d} : dir'[e] = dir[e],
         newer' = Renamed(t, d)
  PROVE  /\ Ordered' /\ newer' \in [Dirs -> SUBSET Dirs]
         /\ newer[t] = {} => newer'[d] = {}
<1> DEFINE Old(e) == IF e = d THEN t ELSE e
<1>1. Existing' = (Existing \ {t}) \cup {d}
  BY DEF Existing, Present
<1>2. IsFiniteSet(Existing')
  <2>1. IsFiniteSet(Existing \ {t})
    BY FS_RemoveElement DEF Ordered
  <2> QED BY <2>1, <1>1, FS_AddElement
<1>3. ASSUME NEW e \in Dirs, e # t, NEW x PROVE x \in newer'[e] <=> x # t /\ Old(x) \in newer[Old(e)]
  <2>1. newer'[e] = {IF y = t THEN d ELSE y : y \in newer[Old(e)]}
    BY <1>3 DEF Renamed
  <2>2. newer[Old(e)] \subseteq Existing /\ d \notin Existing
    BY DEF Ordered, Existing
  <2> QED BY <2>1, <2>2
<1>4. newer'[t] = {}
  BY DEF Renamed
<1>5. newer' \in [Dirs -> SUBSET Dirs]
  BY DEF Renamed, TypeOK
<1>6. ASSUME NEW e \in Dirs
      PROVE  /\ ~Present(e)' => newer'[e] = {}
             /\ newer'[e] \subseteq Existing' \ {e}
             /\ \A f \in newer'[e] : newer'[f] \subseteq newer'[e]
  <2>1. CASE e = t
    BY <2>1, <1>4
  <2>2. CASE e # t
    <3>1. \A x : x \in newer'[e] => x \in Existing' \ {e}
      BY <2>2, <1>1, <1>3 DEF Ordered, Existing
    <3>2. ~Present(e)' => newer'[e] = {}
      <4> SUFFICES ASSUME ~Present(e)' PROVE newer'[e] = {}
        OBVIOUS
      <4>1. e # d /\ ~Present(e)
        BY <2>2 DEF Present
      <4> QED BY <2>2, <4>1, <1>3 DEF Ordered
    <3>3. ASSUME NEW f \in newer'[e], NEW x \in newer'[f] PROVE x \in newer'[e]
      <4>1. f \in Dirs /\ f # t
        BY <3>1, <1>1 DEF Existing
      <4>2. Old(f) \in newer[Old(e)] /\ Old(x) \in newer[Old(f)] /\ x # t
        BY <2>2, <4>1, <1>3
      <4>3. Old(x) \in newer[Old(e)]
        BY <4>2 DEF Ordered
      <4> QED BY <2>2, <4>2, <4>3, <1>3
    <3> QED BY <3>1, <3>2, <3>3
  <2> QED BY <2>1, <2>2
<1>7. ASSUME NEW e \in Existing', NEW f \in Existing'
      PROVE  e = f \/ e \in newer'[f] \/ f \in newer'[e]
  <2>1. e \in Dirs /\ f \in Dirs /\ e # t /\ f # t /\ Old(e) \in Existing /\ Old(f) \in Existing
    BY <1>1 DEF Existing
  <2>2. Old(e) = Old(f) \/ Old(e) \in newer[Old(f)] \/ Old(f) \in newer[Old(e)]
    BY <2>1 DEF Ordered
  <2>3. Old(e) = Old(f) => e = f
    BY <2>1
  <2> QED BY <2>1, <2>2, <2>3, <1>3
<1>8. newer[t] = {} => newer'[d] = {}
  BY <1>3
<1> QED BY <1>2, <1>5, <1>6, <1>7, <1>8 DEF Ordered

----------------------------------------------------------------------------
(* Steps *)

\* What a step that leaves the directories and the operation alone preserves.
LEMMA SameStore ==
  ASSUME IInv, UNCHANGED <<dir, newer, op>>
  PROVE  Ordered' /\ NoMixedVersion' /\ Doomed' /\ Installing' /\ Collecting'
<1>1. Existing' = Existing /\ \A d : Present(d)' = Present(d)
  BY DEF Existing, Present
<1>2. Ordered'
  BY <1>1 DEF IInv, Ordered
<1>3. NoMixedVersion' /\ Doomed'
  BY <1>1 DEF IInv, NoMixedVersion, Doomed
<1>4. Installing'
  BY <1>1 DEF IInv, Installing, IfPresent
<1>5. Garbage(op.kept)' = Garbage(op.kept)
  BY <1>1 DEF Garbage
<1>6. Collecting'
  BY <1>5 DEF IInv, Collecting
<1> QED BY <1>2, <1>3, <1>4, <1>6

\* The steps of Manager.Install and Remove: whoever registers is late.
LEMMA ProgramsOK ==
  ASSUME IInv, NEW p \in Programs,
         \/ \E v \in Versions : CheckEntrypoint(p, v)
         \/ RegisterProgram(p) \/ RegisterRefused(p) \/ RemoveProgram(p)
  PROVE  IInv'
<1>1. UNCHANGED <<dir, newer, op>>
  BY DEF CheckEntrypoint, RegisterProgram, RegisterRefused, RemoveProgram
<1>2. TypeOK'
  BY DEF IInv, TypeOK, CheckEntrypoint, RegisterProgram, RegisterRefused, RemoveProgram
<1>3. \A q \in Programs : /\ programs'[q] \in {programs[q], None} \/ q \in late'
                          /\ q \in late => q \in late'
  BY DEF IInv, TypeOK, CheckEntrypoint, RegisterProgram, RegisterRefused, RemoveProgram
<1>4. Spared'
  <2> SUFFICES ASSUME op.pc = "return", NEW d \in Range(op.doomed), NEW q \in Programs,
                      d[2] = "", programs'[q] = d[1]
               PROVE  q \in late'
    BY <1>1 DEF Spared
  <2>1. op.doomed \in Seq(Dirs)
    BY DEF IInv, TypeOK, Op
  <2>2. d \in Dirs
    BY <2>1, RangeType
  <2>3. d[1] # None
    BY <2>2, DirsOK, StoreAssumptions
  <2> QED BY <2>3, <1>3 DEF IInv, Spared
<1> QED BY <1>1, <1>2, <1>4, SameStore DEF IInv

\* The state between two operations.
LEMMA NoOpOK ==
  NoOp \in Op /\ NoOp.pc = "idle" /\ NoOp.doomed = <<>> /\ NoOp.fresh = FALSE
<1>1. <<>> \in Seq(Dirs)
  OBVIOUS
<1> QED BY <1>1 DEF NoOp, Op, Pcs

\* An operation that ends, by returning, failing or dying.
LEMMA EndOK ==
  ASSUME IInv, op' = NoOp, UNCHANGED <<dir, newer, programs>>,
         installing' \in [Programs -> Versions \cup {None}], late' \subseteq Programs
  PROVE  IInv'
<1>1. Existing' = Existing /\ \A d : Present(d)' = Present(d)
  BY DEF Existing, Present
<1>2. Ordered' /\ NoMixedVersion'
  BY <1>1 DEF IInv, Ordered, NoMixedVersion
<1>3. op'.pc = "idle" /\ op'.doomed = <<>> /\ op'.fresh = FALSE
  BY DEF NoOp
<1>4. Doomed' /\ Installing' /\ Collecting' /\ Spared'
  BY <1>3 DEF Doomed, Installing, Collecting, Spared
<1>6. TypeOK'
  BY NoOpOK DEF IInv, TypeOK
<1> QED BY <1>2, <1>4, <1>6 DEF IInv

\* An operation that begins, or the download that ends, with no directory
\* changed.
LEMMA BeginOK ==
  ASSUME IInv,
         \/ \E v \in Versions, g \in Digests : InstallPackage(v, g)
         \/ \E v \in Versions : RemoveVersion(v)
         \/ RemoveAllVersions \/ Download \/ UnpackFails
  PROVE  IInv'
<1>1. UNCHANGED <<dir, newer, programs, installing, late>>
  BY DEF InstallPackage, RemoveVersion, RemoveAllVersions, Download, UnpackFails
<1>2. Existing' = Existing /\ \A d : Present(d)' = Present(d)
  BY <1>1 DEF Existing, Present
<1>3. Ordered' /\ NoMixedVersion'
  BY <1>1, <1>2 DEF IInv, Ordered, NoMixedVersion
<1>4. CASE \E v \in Versions, g \in Digests : InstallPackage(v, g)
  <2>1. PICK v \in Versions, g \in Digests : InstallPackage(v, g)
    BY <1>4
  <2>2. /\ op'.pc \in {"return", "download"} /\ op'.doomed = <<>> /\ op'.fresh = FALSE
        /\ op'.version = v /\ op'.digest = g /\ op' \in Op
    BY <2>1, NoOpOK DEF InstallPackage, Op, Pcs
  <2>3. Doomed' /\ Installing' /\ Collecting' /\ Spared'
    BY <2>2 DEF Doomed, Installing, Collecting, Spared, Range
  <2> QED BY <1>1, <1>3, <2>2, <2>3 DEF IInv, TypeOK
<1>5. CASE (\E v \in Versions : RemoveVersion(v)) \/ RemoveAllVersions
  <2>1. /\ op'.pc = "references" /\ op'.doomed = <<>> /\ op'.fresh = FALSE /\ op' \in Op
    BY <1>5, NoOpOK DEF RemoveVersion, RemoveAllVersions, Op, Pcs
  <2>2. Doomed' /\ Installing' /\ Collecting' /\ Spared'
    BY <2>1 DEF Doomed, Installing, Collecting, Spared
  <2> QED BY <1>1, <1>3, <2>1, <2>2 DEF IInv, TypeOK
<1>6. CASE Download
  <2>1. op.pc = "download" /\ op \in Op /\ op.version \in Versions /\ op.digest \in Digests
    BY <1>6 DEF Download, IInv, TypeOK, Installing
  <2>2. op.fresh = FALSE
    BY <2>1 DEF IInv, Collecting, Op
  <2> DEFINE t == Temp(op.version)
  <2>3. t \in Dirs
    BY <2>1, DirsOK
  <2> HIDE DEF t
  <2>4. IfPresent(t) \in Seq(Dirs) /\ (IfPresent(t) = <<>> \/ (IfPresent(t) = <<t>> /\ Present(t)))
    BY <2>3 DEF IfPresent
  <2>5. /\ op'.pc = "unpack" /\ op'.doomed = IfPresent(t) /\ op'.fresh = FALSE
        /\ op'.version = op.version /\ op'.digest = op.digest /\ op' \in Op
    BY <1>6, <2>1, <2>2, <2>4 DEF Download, Op, Pcs, t
  <2>6. Doomed'
    BY <2>4, <2>5, <1>2 DEF Doomed
  <2>7. IfPresent(t)' = IfPresent(t)
    BY <1>2, <2>5 DEF IfPresent, t
  <2>8. Installing'
    BY <2>1, <2>5, <2>7 DEF Installing, t
  <2>9. Collecting' /\ Spared'
    BY <2>5 DEF Collecting, Spared
  <2> QED BY <1>1, <1>3, <2>5, <2>6, <2>8, <2>9 DEF IInv, TypeOK
<1>7. CASE UnpackFails
  <2>1. op.pc = "mark" /\ op.version \in Versions /\ op.digest \in Digests
        /\ dir[Temp(op.version)] = [marker |-> None, entry |-> op.digest]
    BY <1>7 DEF UnpackFails, IInv, Installing
  <2> DEFINE t == Temp(op.version)
  <2>2. t \in Dirs
    BY <2>1, DirsOK
  <2>7. t[2] # ""
    BY <2>1, DirsOK
  <2>3. Present(t)
    BY <2>1, NoneAssumption DEF Present, Content
  <2> HIDE DEF t
  <2>4. op'.pc = "return" /\ op'.doomed = <<t>> /\ op'.fresh = FALSE /\ op' \in Op
    <3>1. <<t>> \in Seq(Dirs)
      BY <2>2
    <3> QED BY <3>1, <1>7, NoOpOK DEF UnpackFails, Op, Pcs, t
  <2>5. Doomed' /\ Installing' /\ Collecting'
    BY <2>3, <2>4, <1>2 DEF Doomed, Installing, Collecting
  <2>6. Spared'
    <3>1. Range(op.doomed)' = {t}
      BY <2>4, RangeType
    <3> QED BY <3>1, <2>7 DEF Spared
  <2> QED BY <1>1, <1>3, <2>4, <2>5, <2>6 DEF IInv, TypeOK
<1> QED BY <1>4, <1>5, <1>6, <1>7

\* What holds of the directory os.RemoveAll is at.
LEMMA HeadOK ==
  ASSUME IInv, op.doomed # <<>>
  PROVE  /\ op.pc \in {"unpack", "swap", "return"}
         /\ Head(op.doomed) \in Dirs /\ Present(Head(op.doomed)) /\ dir[Head(op.doomed)] \in Content
         /\ Head(op.doomed) \in Range(op.doomed)
         /\ op.pc = "unpack" => Head(op.doomed) = Temp(op.version)
         /\ op.pc = "swap" => Head(op.doomed) = Place(op.version)
<1>1. op.doomed \in Seq(Dirs)
  BY DEF IInv, TypeOK, Op
<1>2. op.pc \in {"unpack", "swap", "return"}
  BY DEF IInv, Doomed
<1>3. Head(op.doomed) \in Dirs /\ Head(op.doomed) \in Range(op.doomed)
  BY <1>1, HeadTail DEF IInv, Doomed
<1>4. Present(Head(op.doomed))
  BY <1>3 DEF IInv, Doomed, Range
<1>5. dir[Head(op.doomed)] \in Content
  BY <1>3, <1>4 DEF IInv, TypeOK, Present
<1>6. \A t : op.doomed = IfPresent(t) => Head(op.doomed) = t
  BY DEF IfPresent
<1>7. op.pc = "unpack" => Head(op.doomed) = Temp(op.version)
  BY <1>6 DEF IInv, Installing
<1>8. op.pc = "swap" => Head(op.doomed) = Place(op.version)
  BY <1>6 DEF IInv, Installing
<1> QED BY <1>2, <1>3, <1>4, <1>5, <1>7, <1>8

\* A file of a directory that is being deleted is unlinked.
LEMMA UnlinkOK ==
  ASSUME IInv, Unlink
  PROVE  IInv'
<1> DEFINE d == Head(op.doomed)
<1>1. /\ op.doomed # <<>> /\ newer' = Touched(d)
      /\ \/ dir' = [dir EXCEPT ![d].marker = None]
         \/ dir' = [dir EXCEPT ![d].entry = None]
      /\ UNCHANGED <<op, programs, installing, late>>
  BY DEF Unlink
<1>2. /\ op.pc \in {"unpack", "swap", "return"}
      /\ d \in Dirs /\ Present(d) /\ dir[d] \in Content /\ d \in Range(op.doomed)
      /\ op.pc = "unpack" => d = Temp(op.version)
      /\ op.pc = "swap" => d = Place(op.version)
  BY <1>1, HeadOK
<1> HIDE DEF d
<1>3. /\ dir'[d] \in Content /\ (dir'[d].marker = None \/ dir'[d].entry = None)
      /\ \A e \in Dirs \ {d} : dir'[e] = dir[e]
      /\ dir' \in [Dirs -> Content \cup {None}]
  <2>1. dir \in [Dirs -> Content \cup {None}]
    BY DEF IInv, TypeOK
  <2>2. dir[d] \in [marker : Digests \cup {None}, entry : Digests \cup {None}]
    BY <1>2 DEF Content
  <2>3. CASE dir' = [dir EXCEPT ![d].marker = None]
    BY <1>2, <2>1, <2>2, <2>3 DEF Content
  <2>4. CASE dir' = [dir EXCEPT ![d].entry = None]
    BY <1>2, <2>1, <2>2, <2>4 DEF Content
  <2> QED BY <1>1, <2>3, <2>4
<1>4. dir'[d] # None
  BY <1>3, NoneAssumption
<1>5. Ordered' /\ newer' \in [Dirs -> SUBSET Dirs]
  BY <1>1, <1>2, <1>3, <1>4, TouchOrder DEF IInv
<1>6. TypeOK'
  BY <1>1, <1>3, <1>5 DEF IInv, TypeOK
<1>7. \A e \in Dirs : Present(e)' = Present(e)
  BY <1>2, <1>3, <1>4 DEF Present
<1>8. NoMixedVersion'
  BY <1>3 DEF IInv, NoMixedVersion, Present
<1>9. Doomed' /\ Spared'
  <2>1. op.doomed \in Seq(Dirs)
    BY DEF IInv, TypeOK, Op
  <2>2. \A i \in DOMAIN op.doomed : op.doomed[i] \in Dirs
    BY <2>1
  <2> QED BY <1>1, <1>7, <2>2 DEF IInv, Doomed, Spared
<1>10. Installing'
  <2>1. op.pc = "return" \/ (op.version \in Versions /\ op.digest \in Digests)
    BY <1>2 DEF IInv, Installing
  <2>2. CASE op.pc = "return"
    BY <2>2, <1>1 DEF Installing
  <2>3. CASE op.pc # "return"
    <3>1. Temp(op.version) \in Dirs /\ Place(op.version) \in Dirs /\ Temp(op.version) # Place(op.version)
      BY <2>1, <2>3, DirsOK
    <3>2. UNCHANGED <<IfPresent(Temp(op.version)), IfPresent(Place(op.version))>>
      BY <3>1, <1>1, <1>7 DEF IfPresent
    <3>3. CASE op.pc = "unpack"
      BY <3>2, <3>3, <1>1 DEF IInv, Installing
    <3>4. CASE op.pc = "swap"
      <4>1. dir'[Temp(op.version)] = dir[Temp(op.version)]
        BY <3>1, <3>4, <1>2, <1>3
      <4>2. newer'[Temp(op.version)] \subseteq {Place(op.version)}
        BY <3>1, <3>4, <1>1, <1>2 DEF Touched, IInv, Installing
      <4> QED BY <4>1, <4>2, <3>2, <3>4, <1>1 DEF IInv, Installing
    <3> QED BY <2>3, <3>3, <3>4, <1>2
  <2> QED BY <2>2, <2>3
<1>11. Collecting'
  <2> SUFFICES ASSUME op.fresh PROVE Collecting'
    BY <1>1 DEF Collecting
  <2>1. op.pc = "return" /\ op.version \in Versions /\ d # Place(op.version)
    BY <1>2 DEF IInv, Collecting
  <2>2. dir'[Place(op.version)] = dir[Place(op.version)]
    BY <2>1, <1>3, DirsOK
  <2>3. Garbage(op.kept)' = Garbage(op.kept)
    BY <1>1, <1>7 DEF Garbage
  <2> QED BY <2>1, <2>2, <2>3, <1>1 DEF IInv, Collecting
<1> QED BY <1>5, <1>6, <1>8, <1>9, <1>10, <1>11 DEF IInv

\* An emptied directory goes, and with it the head of the list.
LEMMA RmdirOK ==
  ASSUME IInv, Rmdir
  PROVE  IInv'
<1> DEFINE d == Head(op.doomed)
           q == Tail(op.doomed)
<1>1. /\ op.doomed # <<>> /\ newer' = Forgotten(d)
      /\ dir' = [dir EXCEPT ![d] = None]
      /\ op' = [op EXCEPT !.doomed = q]
      /\ UNCHANGED <<programs, installing, late>>
  BY DEF Rmdir
<1>2. /\ op.pc \in {"unpack", "swap", "return"}
      /\ d \in Dirs /\ Present(d) /\ d \in Range(op.doomed)
      /\ op.pc = "unpack" => d = Temp(op.version)
      /\ op.pc = "swap" => d = Place(op.version)
  BY <1>1, HeadOK
<1>3. /\ op \in Op /\ q \in Seq(Dirs) /\ Range(q) = Range(op.doomed) \ {d}
      /\ \A i, j \in DOMAIN q : q[i] = q[j] => i = j
  <2>1. op \in Op /\ op.doomed \in Seq(Dirs)
    BY DEF IInv, TypeOK, Op
  <2> QED BY <2>1, <1>1, HeadTail DEF IInv, Doomed
<1>4. \A t : op.doomed = IfPresent(t) => q = <<>>
  BY <1>1 DEF IfPresent
<1> HIDE DEF d, q
<1>5. /\ op' \in Op /\ op'.doomed = q /\ op'.pc = op.pc /\ op'.version = op.version
      /\ op'.digest = op.digest /\ op'.fresh = op.fresh /\ op'.kept = op.kept
  BY <1>1, <1>3 DEF Op
<1>6. dir' \in [Dirs -> Content \cup {None}] /\ dir'[d] = None /\ \A e \in Dirs \ {d} : dir'[e] = dir[e]
  BY <1>1, <1>2 DEF IInv, TypeOK
<1>7. Ordered' /\ newer' \in [Dirs -> SUBSET Dirs]
  BY <1>1, <1>2, <1>6, ForgetOrder DEF IInv
<1>8. TypeOK'
  BY <1>1, <1>5, <1>6, <1>7 DEF IInv, TypeOK
<1>9. NoMixedVersion'
  BY <1>6 DEF IInv, NoMixedVersion, Present
<1>10. \A e \in Dirs : Present(e)' <=> Present(e) /\ e # d
  BY <1>6 DEF Present
<1>11. Doomed'
  <2>1. \A i \in DOMAIN q : q[i] \in Range(op.doomed) /\ q[i] # d
    BY <1>3 DEF Range
  <2>2. \A x \in Range(op.doomed) : Present(x) /\ x \in Dirs
    BY RangeType DEF IInv, Doomed, Range, TypeOK, Op
  <2>3. \A i \in DOMAIN q : dir'[q[i]] # None
    BY <2>1, <2>2, <1>10 DEF Present
  <2> QED BY <2>3, <1>2, <1>3, <1>5 DEF Doomed, Present
<1>12. Spared'
  BY <1>1, <1>3, <1>5 DEF IInv, Spared
<1>13. Installing'
  <2>1. op.pc = "return" \/ (op.version \in Versions /\ op.digest \in Digests)
    BY <1>2 DEF IInv, Installing
  <2>2. CASE op.pc = "return"
    BY <2>2, <1>5 DEF Installing
  <2>3. CASE op.pc # "return"
    <3>1. Temp(op.version) \in Dirs /\ Place(op.version) \in Dirs /\ Temp(op.version) # Place(op.version)
      BY <2>1, <2>3, DirsOK
    <3>2. CASE op.pc = "unpack"
      <4>1. q = <<>> /\ d = Temp(op.version)
        BY <3>2, <1>2, <1>4 DEF IInv, Installing
      <4>2. IfPresent(Temp(op.version))' = <<>>
        BY <4>1, <3>1, <1>5, <1>10 DEF IfPresent
      <4> QED BY <4>1, <4>2, <2>1, <3>2, <1>5 DEF Installing
    <3>3. CASE op.pc = "swap"
      <4>1. q = <<>> /\ d = Place(op.version)
        BY <3>3, <1>2, <1>4 DEF IInv, Installing
      <4>2. IfPresent(Place(op.version))' = <<>>
        BY <4>1, <3>1, <1>5, <1>10 DEF IfPresent
      <4>3. dir'[Temp(op.version)] = dir[Temp(op.version)]
        BY <4>1, <3>1, <1>6
      <4>4. newer'[Temp(op.version)] \subseteq newer[Temp(op.version)]
        BY <4>1, <3>1, <1>1 DEF Forgotten
      <4> QED BY <4>1, <4>2, <4>3, <4>4, <2>1, <3>3, <1>5 DEF IInv, Installing
    <3> QED BY <2>3, <3>2, <3>3, <1>2
  <2> QED BY <2>2, <2>3
<1>14. Collecting'
  <2> SUFFICES ASSUME op.fresh PROVE Collecting'
    BY <1>5 DEF Collecting
  <2>1. op.pc = "return" /\ op.version \in Versions /\ d # Place(op.version)
    BY <1>2 DEF IInv, Collecting
  <2>2. dir'[Place(op.version)] = dir[Place(op.version)]
    BY <2>1, <1>6, DirsOK
  <2>3. Garbage(op.kept)' = Garbage(op.kept) \ {d}
    BY <1>5, <1>10 DEF Garbage
  <2>4. Garbage(op.kept)' \ Range(q) = Garbage(op.kept) \ Range(op.doomed)
    BY <2>3, <1>2, <1>3
  <2> QED BY <2>1, <2>2, <2>4, <1>3, <1>5 DEF IInv, Collecting
<1> QED BY <1>7, <1>8, <1>9, <1>11, <1>12, <1>13, <1>14 DEF IInv

\* A step that changes the temporary directory of the version being installed.
LEMMA WriteOK ==
  ASSUME IInv, NEW v \in Versions, op.version = v, op.pc \in {"unpack", "mark"},
         dir' = [dir EXCEPT ![Temp(v)] = dir'[Temp(v)]], dir'[Temp(v)] \in Content,
         dir'[Temp(v)].marker \in {None, dir'[Temp(v)].entry},
         newer' = Touched(Temp(v))
  PROVE  /\ Ordered' /\ NoMixedVersion'
         /\ dir' \in [Dirs -> Content \cup {None}] /\ newer' \in [Dirs -> SUBSET Dirs]
         /\ newer'[Temp(v)] = {} /\ dir'[Place(v)] = dir[Place(v)]
<1>1. Temp(v) \in Dirs /\ Place(v) \in Dirs /\ Temp(v) # Place(v)
  BY DirsOK
<1>2. dir'[Temp(v)] # None
  BY NoneAssumption
<1>3. dir' \in [Dirs -> Content \cup {None}] /\ \A e \in Dirs \ {Temp(v)} : dir'[e] = dir[e]
  BY <1>1 DEF IInv, TypeOK
<1>4. Ordered' /\ newer' \in [Dirs -> SUBSET Dirs] /\ newer'[Temp(v)] = {}
  BY <1>1, <1>2, <1>3, TouchOrder DEF IInv
<1>5. NoMixedVersion'
  BY <1>1, <1>3 DEF IInv, NoMixedVersion, Present
<1> QED BY <1>1, <1>3, <1>4, <1>5

\* The archive is unpacked where nothing is left of an earlier one.
LEMMA UnpackOK ==
  ASSUME IInv, Unpack
  PROVE  IInv'
<1>1. op.pc = "unpack" /\ op.doomed = <<>> /\ op \in Op
      /\ op.version \in Versions /\ op.digest \in Digests /\ op.doomed = IfPresent(Temp(op.version))
  BY DEF Unpack, IInv, TypeOK, Installing
<1>2. PICK v \in Versions : v = op.version
  BY <1>1
<1>3. Temp(v) \in Dirs /\ dir[Temp(v)] = None
  BY <1>1, <1>2, DirsOK, IfPresentOK DEF Present
<1>4. /\ dir' = [dir EXCEPT ![Temp(v)] = [marker |-> None, entry |-> op.digest]]
      /\ newer' = Touched(Temp(v)) /\ UNCHANGED <<programs, installing, late>>
  BY <1>2, <1>3 DEF Unpack, IInv, TypeOK
<1>5. /\ op' \in Op /\ op'.pc = "mark" /\ op'.doomed = <<>> /\ op'.version = v
      /\ op'.digest = op.digest /\ op'.fresh = op.fresh
  BY <1>1, <1>2 DEF Unpack, Op, Pcs
<1>6. dir'[Temp(v)] = [marker |-> None, entry |-> op.digest] /\ dir'[Temp(v)] \in Content
  BY <1>1, <1>3, <1>4 DEF IInv, TypeOK, Content
<1>7. /\ Ordered' /\ NoMixedVersion'
      /\ dir' \in [Dirs -> Content \cup {None}] /\ newer' \in [Dirs -> SUBSET Dirs]
  <2>1. dir' = [dir EXCEPT ![Temp(v)] = dir'[Temp(v)]]
    BY <1>4, <1>6, Zenon
  <2>2. dir'[Temp(v)].marker = None
    BY <1>6
  <2> QED BY <1>1, <1>2, <1>4, <1>6, <2>1, <2>2, WriteOK
<1>8. TypeOK'
  BY <1>4, <1>5, <1>7 DEF IInv, TypeOK
<1>9. Doomed' /\ Installing' /\ Spared'
  BY <1>1, <1>5, <1>6 DEF Doomed, Installing, Spared
<1>10. Collecting'
  BY <1>1, <1>5 DEF IInv, Collecting
<1> QED BY <1>7, <1>8, <1>9, <1>10 DEF IInv

\* The marker of the archive that was unpacked; the old version is next.
LEMMA WriteMarkerOK ==
  ASSUME IInv, WriteMarker
  PROVE  IInv'
<1>1. op.pc = "mark" /\ op \in Op /\ op.version \in Versions /\ op.digest \in Digests
      /\ dir[Temp(op.version)] = [marker |-> None, entry |-> op.digest]
  BY DEF WriteMarker, IInv, TypeOK, Installing
<1>2. PICK v \in Versions : v = op.version
  BY <1>1
<1>3. Temp(v) \in Dirs /\ Place(v) \in Dirs /\ Temp(v) # Place(v)
  BY DirsOK
<1>4. /\ dir' = [dir EXCEPT ![Temp(v)].marker = op.digest]
      /\ newer' = Touched(Temp(v)) /\ UNCHANGED <<programs, installing, late>>
  BY <1>2 DEF WriteMarker
<1>5. dir'[Temp(v)] = [marker |-> op.digest, entry |-> op.digest] /\ dir'[Temp(v)] \in Content
  BY <1>1, <1>2, <1>3, <1>4 DEF IInv, TypeOK, Content
<1>6. dir' = [dir EXCEPT ![Temp(v)] = dir'[Temp(v)]]
  BY <1>3, <1>4 DEF IInv, TypeOK
<1>7. /\ Ordered' /\ NoMixedVersion'
      /\ dir' \in [Dirs -> Content \cup {None}] /\ newer' \in [Dirs -> SUBSET Dirs]
      /\ newer'[Temp(v)] = {} /\ dir'[Place(v)] = dir[Place(v)]
  <2>1. dir'[Temp(v)].marker = dir'[Temp(v)].entry
    BY <1>5
  <2> QED BY <1>1, <1>2, <1>4, <1>5, <1>6, <2>1, WriteOK
<1>8. IfPresent(Place(v)) \in Seq(Dirs)
  BY <1>3 DEF IfPresent
<1>9. /\ op' \in Op /\ op'.pc = "swap" /\ op'.doomed = IfPresent(Place(v)) /\ op'.version = v
      /\ op'.digest = op.digest /\ op'.fresh = op.fresh
  BY <1>1, <1>2, <1>8 DEF WriteMarker, Op, Pcs
<1>10. TypeOK'
  BY <1>4, <1>7, <1>9 DEF IInv, TypeOK
<1>11. IfPresent(Place(op.version))' = IfPresent(Place(v))
  BY <1>7, <1>9 DEF IfPresent, Present
<1>12. Doomed'
  <2>1. CASE Present(Place(v))
    BY <2>1, <1>7, <1>9 DEF Doomed, IfPresent, Present
  <2>2. CASE ~Present(Place(v))
    BY <2>2, <1>9 DEF Doomed, IfPresent
  <2> QED BY <2>1, <2>2
<1>13. Installing' /\ Spared'
  BY <1>1, <1>5, <1>7, <1>9, <1>11 DEF Installing, Spared
<1>14. Collecting'
  BY <1>1, <1>9 DEF IInv, Collecting
<1> QED BY <1>7, <1>10, <1>12, <1>13, <1>14 DEF IInv

\* The new directory takes the place of the old one and is the newest.
LEMMA RenameOK ==
  ASSUME IInv, Rename
  PROVE  IInv'
<1>1. /\ op.pc = "swap" /\ op.doomed = <<>> /\ op \in Op /\ op.version \in Versions /\ op.digest \in Digests
      /\ dir[Temp(op.version)] = [marker |-> op.digest, entry |-> op.digest]
      /\ op.doomed = IfPresent(Place(op.version)) /\ newer[Temp(op.version)] \subseteq {Place(op.version)}
  BY DEF Rename, IInv, TypeOK, Installing
<1>2. PICK v \in Versions : v = op.version
  BY <1>1
<1>3. Temp(v) \in Dirs /\ Place(v) \in Dirs /\ Temp(v) # Place(v)
  BY DirsOK
<1>4. dir[Temp(v)] \in Content /\ Present(Temp(v))
  BY <1>1, <1>2, <1>3, NoneAssumption DEF Present, Content
<1>5. ~Present(Place(v)) /\ newer[Temp(v)] = {}
  <2>1. ~Present(Place(v))
    BY <1>1, <1>2, IfPresentOK
  <2>2. newer[Temp(v)] \subseteq Existing /\ Place(v) \notin Existing
    BY <2>1, <1>3 DEF IInv, Ordered, Existing
  <2> QED BY <2>1, <2>2, <1>1, <1>2
<1>6. /\ dir' = [dir EXCEPT ![Place(v)] = dir[Temp(v)], ![Temp(v)] = None]
      /\ newer' = Renamed(Temp(v), Place(v)) /\ UNCHANGED <<programs, installing, late>>
  BY <1>2 DEF Rename
<1>7. /\ dir'[Temp(v)] = None /\ dir'[Place(v)] = dir[Temp(v)]
      /\ \A e \in Dirs \ {Temp(v), Place(v)} : dir'[e] = dir[e]
      /\ dir' \in [Dirs -> Content \cup {None}]
  BY <1>3, <1>4, <1>6 DEF IInv, TypeOK
<1>8. Ordered' /\ newer' \in [Dirs -> SUBSET Dirs] /\ newer'[Place(v)] = {}
  BY <1>3, <1>4, <1>5, <1>6, <1>7, RenameOrder DEF IInv
<1>9. /\ op' \in Op /\ op'.pc = "gc" /\ op'.doomed = <<>> /\ op'.version = v
      /\ op'.digest = op.digest
  BY <1>1, <1>2 DEF Rename, Op, Pcs
<1>10. TypeOK'
  BY <1>6, <1>7, <1>8, <1>9 DEF IInv, TypeOK
<1>11. NoMixedVersion'
  BY <1>3, <1>4, <1>7 DEF IInv, NoMixedVersion, Present
<1>12. Doomed' /\ Installing' /\ Collecting' /\ Spared'
  BY <1>1, <1>2, <1>7, <1>8, <1>9 DEF Doomed, Installing, Collecting, Spared
<1> QED BY <1>8, <1>10, <1>11, <1>12 DEF IInv

\* The references that are read are those of the programs registered so far:
\* what no reference names is spared or pinned only by a late program.
LEMMA ReadOK ==
  ASSUME IInv, NEW ds, ds \subseteq Garbage(Referenced), NEW s \in Listings(ds),
         op' = [op EXCEPT !.pc = "return", !.kept = Referenced, !.doomed = s],
         late' = {}, UNCHANGED <<dir, newer, programs, installing>>
  PROVE  /\ TypeOK' /\ Ordered' /\ NoMixedVersion' /\ Doomed' /\ Installing' /\ Spared'
         /\ Range(s) = ds /\ IsFiniteSet(Garbage(Referenced)) /\ op'.pc = "return" /\ op'.doomed = s
         /\ op'.kept = Referenced /\ op'.version = op.version /\ op'.digest = op.digest /\ op'.fresh = op.fresh
<1>1. op \in Op /\ programs \in [Programs -> Versions \cup {None}]
  BY DEF IInv, TypeOK
<1>2. Garbage(Referenced) \subseteq Existing
  BY DEF Garbage, Existing
<1>3. IsFiniteSet(Garbage(Referenced)) /\ IsFiniteSet(ds)
  BY <1>2, FS_Subset DEF IInv, Ordered
<1>4. s \in Seq(ds) /\ Range(s) = ds /\ \A i, j \in DOMAIN s : s[i] = s[j] => i = j
  BY <1>3, ListingOK
<1>5. ds \subseteq Dirs /\ \A d \in ds : Present(d)
  BY <1>2 DEF Existing
<1>6. s \in Seq(Dirs)
  BY <1>4, <1>5
<1>7. Referenced \subseteq Versions
  BY <1>1 DEF Referenced
<1>8. /\ op' \in Op /\ op'.pc = "return" /\ op'.doomed = s /\ op'.kept = Referenced
      /\ op'.version = op.version /\ op'.digest = op.digest /\ op'.fresh = op.fresh
  BY <1>1, <1>6, <1>7 DEF Op, Pcs
<1>9. TypeOK'
  BY <1>8 DEF IInv, TypeOK
<1>10. Ordered' /\ NoMixedVersion'
  BY DEF IInv, Ordered, Existing, NoMixedVersion, Present
<1>11. Doomed'
  <2>1. \A i \in DOMAIN s : dir'[s[i]] # None
    BY <1>4, <1>5 DEF Range, Present
  <2> QED BY <2>1, <1>4, <1>8 DEF Doomed, Present
<1>12. Installing'
  BY <1>8 DEF Installing
<1>13. Spared'
  <2> SUFFICES ASSUME NEW d \in ds, NEW p \in Programs, d[2] = "", programs[p] = d[1] PROVE FALSE
    BY <1>4, <1>8 DEF Spared
  <2>1. d[1] \notin Referenced
    BY DEF Garbage
  <2>2. d[1] # None
    BY <1>5, DirsOK, StoreAssumptions
  <2> QED BY <2>1, <2>2 DEF Referenced
<1> QED BY <1>3, <1>4, <1>8, <1>9, <1>10, <1>11, <1>12, <1>13

\* The collection keeps the newest garbage, which the fresh version is if it is
\* garbage at all.
LEMMA GcPackageOK ==
  ASSUME IInv, GcPackage
  PROVE  IInv'
<1> DEFINE G == Garbage(Referenced)
           E == Evicted(Referenced)
<1>1. op.pc = "gc" /\ late' = {} /\ UNCHANGED <<dir, newer, programs, installing>>
  BY DEF GcPackage
<1>2. PICK s \in Listings(E) : op' = [op EXCEPT !.pc = "return", !.kept = Referenced, !.doomed = s]
  BY DEF GcPackage
<1>3. E \subseteq G
  BY DEF Evicted
<1>4. /\ TypeOK' /\ Ordered' /\ NoMixedVersion' /\ Doomed' /\ Installing' /\ Spared'
      /\ Range(s) = E /\ IsFiniteSet(G) /\ op'.pc = "return" /\ op'.doomed = s
      /\ op'.kept = Referenced /\ op'.version = op.version /\ op'.digest = op.digest /\ op'.fresh = op.fresh
  BY <1>1, <1>2, <1>3, ReadOK
<1>5. /\ op.version \in Versions /\ op.digest \in Digests /\ newer[Place(op.version)] = {}
      /\ dir[Place(op.version)] = [marker |-> op.digest, entry |-> op.digest]
  BY <1>1 DEF IInv, Installing
<1>6. Place(op.version) \notin E
  <2>1. Cardinality(newer[Place(op.version)] \cap G) = 0
    BY <1>5, FS_EmptySet
  <2> QED BY <2>1, StoreAssumptions DEF Evicted
<1>7. Cardinality(G \ E) <= KeepVersions
  <2>1. G \subseteq Existing
    BY DEF Garbage, Existing
  <2>2. Existing \subseteq Dirs
    BY DEF Existing
  <2>3. \A d \in G : d \notin newer[d] /\ \A e \in G : e \in newer[d] => newer[e] \subseteq newer[d]
    BY <2>1, <2>2 DEF IInv, Ordered
  <2>4. \A d, e \in G : d = e \/ d \in newer[e] \/ e \in newer[d]
    BY <2>1 DEF IInv, Ordered
  <2>5. G \ E = {d \in G : ~(Cardinality(newer[d] \cap G) >= KeepVersions)}
    BY DEF Evicted
  <2> HIDE DEF G, E
  <2>6. Cardinality({d \in G : ~(Cardinality(newer[d] \cap G) >= KeepVersions)}) <= KeepVersions
    BY <1>4, <2>3, <2>4, StoreAssumptions, NewestAreFew
  <2> QED BY <2>5, <2>6
<1>8. Garbage(op.kept)' = G
  BY <1>1, <1>4 DEF Garbage, Present
<1> HIDE DEF G, E
<1>9. Collecting'
  BY <1>1, <1>4, <1>5, <1>6, <1>7, <1>8 DEF Collecting
<1> QED BY <1>4, <1>9 DEF IInv

\* RemovePackage deletes what it was asked for and no program pins.
LEMMA RemoveUnreferencedOK ==
  ASSUME IInv, RemoveUnreferenced
  PROVE  IInv'
<1>1. op.pc = "references" /\ late' = {} /\ UNCHANGED <<dir, newer, programs, installing>>
  BY DEF RemoveUnreferenced
<1> DEFINE asked == IF op.version = None THEN Dirs ELSE {Place(op.version)}
<1>2. PICK s \in ByName(asked \cap Garbage(Referenced)) :
        op' = [op EXCEPT !.pc = "return", !.kept = Referenced, !.doomed = s]
  BY DEF RemoveUnreferenced
<1>3. PICK ds : ds = asked \cap Garbage(Referenced)
  OBVIOUS
<1>4. ds \subseteq Garbage(Referenced) /\ s \in Listings(ds)
  BY <1>2, <1>3 DEF ByName
<1>5. /\ TypeOK' /\ Ordered' /\ NoMixedVersion' /\ Doomed' /\ Installing' /\ Spared'
      /\ op'.fresh = op.fresh
  BY <1>1, <1>2, <1>4, ReadOK
<1>6. Collecting'
  BY <1>1, <1>5 DEF IInv, Collecting
<1> QED BY <1>5, <1>6 DEF IInv

----------------------------------------------------------------------------
(* The invariant and what it gives *)

\* The store is empty when the agent first starts.
LEMMA InitOK == Init => IInv
<1> SUFFICES ASSUME Init PROVE IInv
  OBVIOUS
<1>1. TypeOK
  BY NoOpOK DEF Init, TypeOK
<1>2. Existing = {} /\ \A d \in Dirs : ~Present(d)
  BY DEF Init, Existing, Present
<1>3. Ordered
  BY <1>2, FS_EmptySet DEF Init, Ordered
<1>4. NoMixedVersion
  BY <1>2 DEF NoMixedVersion
<1>5. Doomed /\ Installing /\ Collecting /\ Spared
  BY NoOpOK DEF Init, Doomed, Installing, Collecting, Spared
<1> QED BY <1>1, <1>3, <1>4, <1>5 DEF IInv

\* Every step of the store, of the programs and every crash preserves IInv.
LEMMA StepOK == IInv /\ [Next]_vars => IInv'
<1> SUFFICES ASSUME IInv, [Next]_vars PROVE IInv'
  OBVIOUS
<1>1. CASE UNCHANGED vars
  <2>1. UNCHANGED <<dir, newer, op, programs, installing, late>>
    BY <1>1 DEF vars
  <2>2. TypeOK' /\ Spared'
    BY <2>1 DEF IInv, TypeOK, Spared
  <2> QED BY <2>1, <2>2, SameStore DEF IInv
<1>2. CASE DownloadFails \/ LinksFail \/ Return \/ Crash
  <2>1. /\ op' = NoOp /\ UNCHANGED <<dir, newer, programs>>
        /\ installing' \in [Programs -> Versions \cup {None}] /\ late' \subseteq Programs
    BY <1>2 DEF DownloadFails, LinksFail, Return, Crash, IInv, TypeOK
  <2> QED BY <2>1, EndOK
<1>3. CASE \/ \E p \in Programs, v \in Versions : CheckEntrypoint(p, v)
           \/ \E p \in Programs : RegisterProgram(p) \/ RegisterRefused(p) \/ RemoveProgram(p)
  BY <1>3, ProgramsOK
<1> QED BY <1>1, <1>2, <1>3, BeginOK, UnlinkOK, RmdirOK, UnpackOK, WriteMarkerOK, RenameOK,
           GcPackageOK, RemoveUnreferencedOK DEF Next

\* The inductive invariant holds throughout.
LEMMA Invariance == Spec => []IInv
BY InitOK, StepOK, PTL DEF Spec

(***************************************************************************)
(* No crash of InstallPackage, garbage collection or RemovePackage, at any *)
(* step and however often, leaves a directory with the marker of one       *)
(* archive and the entrypoint of another.                                  *)
(***************************************************************************)
THEOREM VersionsAreWhole == Spec => []NoMixedVersion
<1>1. IInv => NoMixedVersion
  BY DEF IInv
<1> QED BY <1>1, Invariance, PTL

(***************************************************************************)
(* An InstallPackage that succeeds leaves its version complete: it is the  *)
(* newest directory of the package when gcPackageLocked sorts them,        *)
(* whatever leftovers of earlier installs are sorted with it.              *)
(***************************************************************************)
THEOREM InstalledSurvives == Spec => []FreshInstallSurvives
<1>1. IInv => FreshInstallSurvives
  BY DEF IInv, Collecting, FreshInstallSurvives
<1> QED BY <1>1, Invariance, PTL

(***************************************************************************)
(* And no more than keepVersions directories are left that no program      *)
(* pinned when gcPackageLocked looked, for every value of keepVersions.    *)
(***************************************************************************)
THEOREM CollectionIsComplete == Spec => []GarbageIsBounded
<1>1. IInv => GarbageIsBounded
  <2> SUFFICES ASSUME IInv, op.pc = "return", op.fresh, op.doomed = <<>>
               PROVE  Cardinality(Garbage(op.kept)) <= KeepVersions
    BY DEF GarbageIsBounded
  <2>1. Range(op.doomed) = {}
    BY DEF Range
  <2>2. Garbage(op.kept) \ Range(op.doomed) = Garbage(op.kept)
    BY <2>1
  <2> QED BY <2>2 DEF IInv, Collecting
<1> QED BY <1>1, Invariance, PTL

(***************************************************************************)
(* A version that a program pins is deleted only by the install that       *)
(* replaces it, or after a collection or RemovePackage that had read the   *)
(* references before every program that pins it was registered.            *)
(***************************************************************************)
THEOREM PinnedIsSpared == Spec => RemovalSparesReferences
<1> DEFINE Excused(v) == op.pc = "swap" \/ \A p \in Programs : programs[p] = v => p \in late
<1>1. ASSUME IInv, [Next]_vars, NEW v \in Versions, LosesEntry(v) PROVE Excused(v)
  <2>1. dir'[Place(v)] # dir[Place(v)] /\ Place(v) \in Dirs /\ Present(Place(v))
        /\ dir[Place(v)].entry # None
    BY <1>1, DirsOK DEF LosesEntry, HasEntry, Present
  <2>2. CASE Unlink
    <3>1. op.doomed # <<>> /\ dir' \in {[dir EXCEPT ![Head(op.doomed)].marker = None],
                                        [dir EXCEPT ![Head(op.doomed)].entry = None]}
      BY <2>2 DEF Unlink
    <3>2. /\ op.pc \in {"unpack", "swap", "return"}
          /\ Head(op.doomed) \in Dirs /\ Head(op.doomed) \in Range(op.doomed)
          /\ op.pc = "unpack" => Head(op.doomed) = Temp(op.version) /\ op.version \in Versions
      BY <1>1, <3>1, HeadOK DEF IInv, Installing
    <3>3. Head(op.doomed) = Place(v)
      BY <1>1, <2>1, <3>1, <3>2 DEF IInv, TypeOK
    <3>4. op.pc # "unpack"
      BY <3>2, <3>3, DirsOK
    <3>5. CASE op.pc = "return"
      <4>1. Place(v)[1] = v /\ Place(v)[2] = "" /\ Place(v) \in Range(op.doomed)
        BY <3>2, <3>3, DirsOK
      <4> QED BY <1>1, <3>5, <4>1 DEF IInv, Spared
    <3> QED BY <3>2, <3>4, <3>5
  <2>3. CASE Rmdir
    <3>1. /\ op.doomed # <<>> /\ dir' = [dir EXCEPT ![Head(op.doomed)] = None]
          /\ dir[Head(op.doomed)].entry = None
      BY <2>3 DEF Rmdir
    <3> QED BY <1>1, <2>1, <3>1 DEF IInv, TypeOK
  <2>4. CASE Unpack \/ WriteMarker
    <3>1. op.version \in Versions /\ Temp(op.version) # Place(v) /\ Temp(op.version) \in Dirs
      <4>1. op.version \in Versions
        BY <1>1, <2>4 DEF Unpack, WriteMarker, IInv, Installing
      <4> QED BY <4>1, DirsOK
    <3>2. dir'[Place(v)] = dir[Place(v)]
      BY <1>1, <2>1, <2>4, <3>1 DEF Unpack, WriteMarker, IInv, TypeOK
    <3> QED BY <2>1, <3>2
  <2>5. CASE Rename
    BY <2>5 DEF Rename
  <2>6. CASE UNCHANGED dir
    BY <2>1, <2>6
  <2> QED BY <1>1, <2>2, <2>3, <2>4, <2>5, <2>6
          DEF Next, vars, InstallPackage, Download, DownloadFails, UnpackFails, LinksFail, GcPackage, Return,
              RemoveVersion, RemoveAllVersions, RemoveUnreferenced, CheckEntrypoint, RegisterProgram,
              RegisterRefused, RemoveProgram, Crash
<1> DEFINE Spares == \A v \in Versions : LosesEntry(v)
                       => \/ op.pc = "swap"
                          \/ \A p \in Programs : programs[p] = v => p \in late
<1>2. IInv /\ [Next]_vars => [Spares]_vars
  BY <1>1
<1> QED BY <1>2, Invariance, PTL DEF Spec, RemovalSparesReferences

=============================================================================
