------------------------- MODULE FabricScalingProofs -------------------------
(***************************************************************************)
(* Proofs about FabricBuilder and FabricScaling, for specs with any number *)
(* of pods, racks and servers and any sequence of scalings, rollbacks and  *)
(* failed applies.                                                         *)
(*                                                                         *)
(* First what the builder computes.  The sequences of nodes and links that *)
(* a spec gives contain the sets NodeSet and LinkSet (NodesRange,          *)
(* LinksRange), and whether two nodes are linked depends on these two      *)
(* alone (Linked, LinksAreLinked).  An allocation keeps what its owners    *)
(* hold and gives nothing out twice (Assigned).  So a topology stays Sound *)
(* when it is built anew (BuildIsSound), and Keeps what survives.          *)
(*                                                                         *)
(* Then the documents: FInv says that the desired topology and every saved *)
(* generation are sound, and that a plan that scales keeps what is         *)
(* deployed.                                                               *)
(*                                                                         *)
(* Last the runtime.  Each step of a deploy leaves it Physical; a deploy   *)
(* is a Run of six of them on the items it reached (DeployIs).  A runtime  *)
(* is Between two topologies when it has what both have and nothing that   *)
(* neither has: a run that stops leaves it there (PartialRun), one that    *)
(* ends takes it to its topology (FullRun).  RInv says so of every state,  *)
(* and just one topology to be between is a deploy from scratch            *)
(* (SettledIsFresh).                                                       *)
(***************************************************************************)
EXTENDS FabricScaling, FiniteSetTheorems, WellFoundedInduction, TLAPS

----------------------------------------------------------------------------
(* Sequences *)

\* Every nonempty set of naturals has a least element: induction over data is by
\* the least counterexample.
LEMMA LeastNatural ==
  ASSUME NEW T, T \subseteq Nat, T # {}
  PROVE  \E x \in T : \A y \in T : x <= y
<1>1. IsWellFoundedOn(OpToRel(<, Nat), Nat)
  BY NatLessThanWellFounded
<1> DEFINE R == OpToRel(<, Nat)
<1>2. \E x \in T : \A y \in T : ~ (<<y, x>> \in R)
  BY <1>1, WFMin
<1>3. \A x, y \in Nat : y < x => <<y, x>> \in R
  BY DEF OpToRel
<1> HIDE DEF R
<1>4. PICK x \in T : \A y \in T : ~ (<<y, x>> \in R)
  BY <1>2
<1>5. \A y \in T : x <= y
  <2> TAKE y \in T
  <2>1. ~(<<y, x>> \in R) /\ x \in Nat /\ y \in Nat
    BY <1>4
  <2>2. ~(y < x)
    BY <1>3, <2>1
  <2> QED BY <2>1, <2>2
<1> QED BY <1>5

\* The elements of a sequence.
LEMMA RangeOf ==
  ASSUME NEW S, NEW s \in Seq(S)
  PROVE  Range(s) = {s[k] : k \in 1 .. Len(s)} /\ Range(s) \subseteq S
BY DEF Range

\* Those of two in a row.
LEMMA RangeOfConcat ==
  ASSUME NEW S, NEW s \in Seq(S), NEW t \in Seq(S)
  PROVE  s \o t \in Seq(S) /\ Range(s \o t) = Range(s) \cup Range(t)
<1>1. s \o t \in Seq(S) /\ Len(s \o t) = Len(s) + Len(t) /\ Len(s) \in Nat /\ Len(t) \in Nat
  OBVIOUS
<1>2. \A k \in 1 .. Len(s) : (s \o t)[k] = s[k] /\ k \in 1 .. Len(s \o t)
  BY <1>1
<1>3. \A k \in 1 .. Len(t) : (s \o t)[Len(s) + k] = t[k] /\ Len(s) + k \in 1 .. Len(s \o t)
  BY <1>1
<1>4. \A k \in 1 .. Len(s \o t) : k \in 1 .. Len(s) \/ (k - Len(s) \in 1 .. Len(t) /\ k = Len(s) + (k - Len(s)))
  BY <1>1
<1>r. /\ Range(s \o t) = {(s \o t)[k] : k \in 1 .. Len(s \o t)}
      /\ Range(s) = {s[k] : k \in 1 .. Len(s)}
      /\ Range(t) = {t[k] : k \in 1 .. Len(t)}
  BY <1>1 DEF Range
<1>5. Range(s \o t) \subseteq Range(s) \cup Range(t)
  <2> SUFFICES ASSUME NEW k \in 1 .. Len(s \o t) PROVE (s \o t)[k] \in Range(s) \cup Range(t)
    BY <1>r
  <2>1. CASE k \in 1 .. Len(s)
    BY <2>1, <1>2, <1>r
  <2>2. CASE k - Len(s) \in 1 .. Len(t) /\ k = Len(s) + (k - Len(s))
    BY <2>2, <1>3, <1>r
  <2> QED BY <1>4, <2>1, <2>2
<1>6. Range(s) \subseteq Range(s \o t)
  BY <1>2, <1>r
<1>7. Range(t) \subseteq Range(s \o t)
  BY <1>3, <1>r
<1> QED BY <1>1, <1>5, <1>6, <1>7

\* The sequence of concatenations that FlattenSeq computes exists.
LEMMA FlatExists ==
  ASSUME NEW ss, NEW n \in Nat
  PROVE  \E f : f = [i \in 1 .. n |-> IF i = 1 THEN ss[i] ELSE f[i - 1] \o ss[i]]
<1> DEFINE G(m) == \E f : f = [i \in 1 .. m |-> IF i = 1 THEN ss[i] ELSE f[i - 1] \o ss[i]]
<1> DEFINE T == {m \in 0 .. n : ~G(m)}
<1>1. G(0)
  <2> DEFINE f == [i \in 1 .. 0 |-> 0]
  <2>1. f = [i \in 1 .. 0 |-> IF i = 1 THEN ss[i] ELSE f[i - 1] \o ss[i]]
    OBVIOUS
  <2> QED BY <2>1
<1>2. ASSUME NEW m \in 0 .. n - 1, G(m) PROVE G(m + 1)
  <2>1. PICK f : f = [i \in 1 .. m |-> IF i = 1 THEN ss[i] ELSE f[i - 1] \o ss[i]]
    BY <1>2
  <2> DEFINE last == IF m = 0 THEN ss[1] ELSE f[m] \o ss[m + 1]
  <2> DEFINE g == [i \in 1 .. m + 1 |-> IF i = m + 1 THEN last ELSE f[i]]
  <2>2. ASSUME NEW i \in 1 .. m + 1 PROVE g[i] = IF i = 1 THEN ss[i] ELSE g[i - 1] \o ss[i]
    <3>1. CASE i = m + 1
      <4>1. g[i] = last
        BY <3>1
      <4>2. CASE m = 0
        BY <4>1, <4>2, <3>1
      <4>3. CASE m # 0
        <5>1. i # 1 /\ i - 1 = m /\ m \in 1 .. m + 1 /\ m # m + 1
          BY <3>1, <4>3
        <5>2. g[i - 1] = f[m]
          BY <5>1
        <5>3. last = f[m] \o ss[i]
          BY <3>1, <4>3
        <5> QED BY <4>1, <5>1, <5>2, <5>3
      <4> QED BY <4>2, <4>3
    <3>2. CASE i # m + 1
      <4>1. i \in 1 .. m
        BY <3>2
      <4>2. f[i] = IF i = 1 THEN ss[i] ELSE f[i - 1] \o ss[i]
        BY <2>1, <4>1
      <4>3. i # 1 => i - 1 \in 1 .. m + 1 /\ i - 1 # m + 1
        BY <4>1
      <4> HIDE DEF last
      <4>4. i # 1 => g[i - 1] = f[i - 1]
        BY <4>3
      <4>5. g[i] = f[i]
        BY <3>2
      <4> QED BY <4>2, <4>4, <4>5
    <3> QED BY <3>1, <3>2
  <2>3. g = [i \in 1 .. m + 1 |-> IF i = 1 THEN ss[i] ELSE g[i - 1] \o ss[i]]
    <3>1. g = [i \in 1 .. m + 1 |-> g[i]]
      OBVIOUS
    <3> HIDE DEF g
    <3> QED BY <2>2, <3>1
  <2> HIDE DEF g
  <2> QED BY <2>3
<1>3. T = {}
  <2> SUFFICES ASSUME T # {} PROVE FALSE
    OBVIOUS
  <2>1. PICK x \in T : \A y \in T : x <= y
    <3>1. T \subseteq Nat
      <4> HIDE DEF G
      <4> QED OBVIOUS
    <3> HIDE DEF T
    <3> QED BY <3>1, LeastNatural
  <2>2. x # 0 /\ x \in 0 .. n /\ ~G(x)
    <3> HIDE DEF G
    <3> QED BY <1>1
  <2>3. x - 1 \in 0 .. n - 1 /\ (x - 1) + 1 = x
    BY <2>2
  <2>4. G(x - 1)
    <3> HIDE DEF G
    <3> QED BY <2>1, <2>3
  <2> HIDE DEF G
  <2> QED BY <1>2, <2>2, <2>3, <2>4
<1>4. G(n)
  <2> HIDE DEF G
  <2> QED BY <1>3
<1> QED BY <1>4

\* What is in a sequence of sequences laid end to end is in one of them.
LEMMA RangeOfFlat ==
  ASSUME NEW S, NEW ss \in Seq(Seq(S))
  PROVE  /\ FlattenSeq(ss) \in Seq(S)
         /\ Range(FlattenSeq(ss)) = UNION {Range(ss[k]) : k \in 1 .. Len(ss)}
<1> DEFINE n == Len(ss)
           flat == CHOOSE f : f = [i \in 1 .. n |-> IF i = 1 THEN ss[i] ELSE f[i - 1] \o ss[i]]
           Fine(i) == /\ flat[i] \in Seq(S)
                      /\ Range(flat[i]) = UNION {Range(ss[k]) : k \in 1 .. i}
<1>n. n \in Nat /\ \A k \in 1 .. n : ss[k] \in Seq(S)
  OBVIOUS
<1>1. CASE n = 0
  <2>1. ss = <<>> /\ FlattenSeq(ss) = ss
    BY <1>1 DEF FlattenSeq
  <2>2. 1 .. Len(ss) = {} /\ DOMAIN ss = {} /\ ss \in Seq(S)
    BY <1>1, <2>1
  <2>3. Range(ss) = {} /\ UNION {Range(ss[k]) : k \in 1 .. Len(ss)} = {}
    BY <2>2 DEF Range
  <2> QED BY <2>1, <2>2, <2>3
<1>2. CASE n # 0
  <2>1. FlattenSeq(ss) = flat[n]
    BY <1>2 DEF FlattenSeq
  <2>2. \A i \in 1 .. n : flat[i] = IF i = 1 THEN ss[i] ELSE flat[i - 1] \o ss[i]
    <3>1. \E f : f = [i \in 1 .. n |-> IF i = 1 THEN ss[i] ELSE f[i - 1] \o ss[i]]
      <4> HIDE DEF n
      <4> QED BY <1>n, FlatExists
    <3>2. flat = [i \in 1 .. n |-> IF i = 1 THEN ss[i] ELSE flat[i - 1] \o ss[i]]
      <4> HIDE DEF n
      <4> QED BY <3>1
    <3> HIDE DEF flat, n
    <3> QED BY <3>2, Zenon
  <2> HIDE DEF flat, n
  <2>3. Fine(1)
    <3>1. flat[1] = ss[1] /\ ss[1] \in Seq(S) /\ 1 .. 1 = {1}
      BY <1>n, <1>2, <2>2
    <3> QED BY <3>1
  <2>4. ASSUME NEW i \in 1 .. n, i # 1, Fine(i - 1) PROVE Fine(i)
    <3>1. flat[i] = flat[i - 1] \o ss[i] /\ ss[i] \in Seq(S)
      BY <1>n, <2>2, <2>4
    <3>2. flat[i] \in Seq(S) /\ Range(flat[i]) = Range(flat[i - 1]) \cup Range(ss[i])
      <4> DEFINE a == flat[i - 1] b == ss[i]
      <4>1. a \in Seq(S) /\ b \in Seq(S) /\ flat[i] = a \o b
        BY <3>1, <2>4
      <4> HIDE DEF a, b
      <4>2. flat[i] \in Seq(S) /\ Range(flat[i]) = Range(a) \cup Range(b)
        BY <4>1, RangeOfConcat
      <4> QED BY <4>2 DEF a, b
    <3>3. 1 .. i = (1 .. (i - 1)) \cup {i}
      BY <1>n, <2>4
    <3> DEFINE P(I) == {Range(ss[k]) : k \in I}
    <3>4. Range(flat[i]) = UNION {Range(ss[k]) : k \in 1 .. i}
      <4>1. Range(flat[i - 1]) = UNION {Range(ss[k]) : k \in 1 .. (i - 1)}
        BY <2>4
      <4> DEFINE R(k) == Range(ss[k]) A == 1 .. (i - 1) B == 1 .. i
      <4>2. B = A \cup {i} /\ Range(flat[i - 1]) = UNION {R(k) : k \in A} /\ Range(flat[i]) = Range(flat[i - 1]) \cup R(i)
        BY <3>2, <3>3, <4>1
      <4>3. Range(flat[i]) = UNION {R(k) : k \in B}
        <5> HIDE DEF R, A, B
        <5> QED BY <4>2
      <4> QED BY <4>3
    <3> QED BY <3>2, <3>4
  <2>5. \A i \in 1 .. n : Fine(i)
    <3> DEFINE T == {i \in 1 .. n : ~Fine(i)}
    <3> SUFFICES ASSUME T # {} PROVE FALSE
      OBVIOUS
    <3> HIDE DEF Fine
    <3>1. T \subseteq Nat
      BY <1>n
    <3>2. PICK x \in T : \A y \in T : x <= y
      <4> HIDE DEF T
      <4> QED BY <3>1, LeastNatural
    <3>3. x \in 1 .. n /\ ~Fine(x) /\ x # 1
      BY <2>3
    <3>4. x - 1 \in 1 .. n /\ ~(x <= x - 1)
      BY <1>n, <3>3
    <3>5. Fine(x - 1)
      BY <3>2, <3>4
    <3> QED BY <2>4, <3>3, <3>5
  <2>6. Fine(n)
    <3>1. n \in 1 .. n
      BY <1>n, <1>2
    <3> HIDE DEF Fine
    <3> QED BY <2>5, <3>1
  <2> QED BY <2>1, <2>6 DEF n
<1> QED BY <1>1, <1>2

----------------------------------------------------------------------------
(* The nodes of a spec *)

\* The nodes and pods of any fabric.
Roles == {"external", "dcedge", "superspine", "spine", "leaf", "server"}
Nodes == [role : Roles, pod : Nat, rack : Nat, i : Nat]
PodT == [name : Nat \ {0}, spines : Nat \ {0}, racks : Nat \ {0}, servers : Nat \ {0}]

\* The sets of nodes and of links that a build makes, without their order.
RowSet(role, pod, rack, n) == {Node(role, pod, rack, i) : i \in 1 .. n}
RackSet(pod, num) == RowSet("leaf", pod.name, num, 2) \cup RowSet("server", pod.name, num, pod.servers)
PodSet(pod, rack) ==
  RowSet("spine", pod.name, 0, pod.spines) \cup UNION {RackSet(pod, rack[<<pod.name, r>>]) : r \in 1 .. pod.racks}
NodeSet(s, rack) ==
  RowSet("external", 0, 0, s.externals) \cup RowSet("dcedge", 0, 0, s.edges)
  \cup RowSet("superspine", 0, 0, s.superspines) \cup UNION {PodSet(s.pods[p], rack) : p \in 1 .. Len(s.pods)}
SlotSet(s) == UNION {{<<s.pods[p].name, r>> : r \in 1 .. s.pods[p].racks} : p \in 1 .. Len(s.pods)}

\* What a spec is made of.
LEMMA SpecFacts ==
  ASSUME NEW s, IsSpec(s)
  PROVE  /\ s.externals \in Nat /\ s.edges \in Nat /\ s.superspines \in Nat
         /\ s.pods \in Seq(PodT) /\ Len(s.pods) \in Nat
         /\ \A p \in 1 .. Len(s.pods) :
              /\ s.pods[p] \in PodT
              /\ s.pods[p].name \in Nat /\ s.pods[p].name # 0
              /\ s.pods[p].spines \in Nat /\ s.pods[p].racks \in Nat /\ s.pods[p].servers \in Nat
         /\ \A p, q \in 1 .. Len(s.pods) : s.pods[p].name = s.pods[q].name => p = q
<1>1. s.pods \in Seq(PodT)
  BY DEF IsSpec, PodT
<1>2. \A p \in 1 .. Len(s.pods) : s.pods[p] \in PodT
  BY <1>1
<1>3. \A p \in PodT : p.name \in Nat /\ p.name # 0 /\ p.spines \in Nat /\ p.racks \in Nat /\ p.servers \in Nat
  BY DEF PodT
<1>4. s.externals \in Nat /\ s.edges \in Nat /\ s.superspines \in Nat
  BY DEF IsSpec
<1>5. \A p, q \in 1 .. Len(s.pods) : s.pods[p].name = s.pods[q].name => p = q
  BY DEF IsSpec
<1>6. Len(s.pods) \in Nat
  BY <1>1
<1> QED BY <1>1, <1>2, <1>3, <1>4, <1>5, <1>6

\* A row of nodes.
LEMMA RangeOfRow ==
  ASSUME NEW role \in Roles, NEW pod \in Nat, NEW rack \in Nat, NEW n \in Nat
  PROVE  /\ Row(role, pod, rack, n) \in Seq(Nodes)
         /\ Range(Row(role, pod, rack, n)) = RowSet(role, pod, rack, n)
<1>1. \A i \in 1 .. n : Node(role, pod, rack, i) \in Nodes
  BY DEF Node, Nodes
<1> QED BY <1>1 DEF Row, RowSet, Range

\* Its length and its nodes.
LEMMA RowAt ==
  ASSUME NEW role, NEW pod, NEW rack, NEW n \in Nat
  PROVE  Len(Row(role, pod, rack, n)) = n /\ \A i \in 1 .. n : Row(role, pod, rack, n)[i] = Node(role, pod, rack, i)
BY DEF Row

\* The nodes of a rack.
LEMMA RackRange ==
  ASSUME NEW pod \in PodT, NEW num \in Nat
  PROVE  RackNodes(pod, num) \in Seq(Nodes) /\ Range(RackNodes(pod, num)) = RackSet(pod, num)
<1>1. pod.name \in Nat /\ pod.servers \in Nat
  BY DEF PodT
<1>2. "leaf" \in Roles /\ "server" \in Roles /\ 2 \in Nat
  BY DEF Roles
<1>3. /\ LeafPair(pod.name, num) \in Seq(Nodes)
      /\ Range(LeafPair(pod.name, num)) = RowSet("leaf", pod.name, num, 2)
  <2>1. LeafPair(pod.name, num) = Row("leaf", pod.name, num, 2)
    BY DEF LeafPair
  <2>2. /\ Row("leaf", pod.name, num, 2) \in Seq(Nodes)
        /\ Range(Row("leaf", pod.name, num, 2)) = RowSet("leaf", pod.name, num, 2)
    <3> DEFINE two == 2
    <3>1. two \in Nat
      OBVIOUS
    <3> HIDE DEF two
    <3>2. /\ Row("leaf", pod.name, num, two) \in Seq(Nodes)
          /\ Range(Row("leaf", pod.name, num, two)) = RowSet("leaf", pod.name, num, two)
      BY <1>1, <1>2, <3>1, RangeOfRow
    <3> QED BY <3>2 DEF two
  <2> QED BY <2>1, <2>2
<1>4. /\ Servers(pod, num) \in Seq(Nodes)
      /\ Range(Servers(pod, num)) = RowSet("server", pod.name, num, pod.servers)
  BY <1>1, <1>2, RangeOfRow DEF Servers
<1> DEFINE a == LeafPair(pod.name, num) b == Servers(pod, num)
<1>5. a \in Seq(Nodes) /\ b \in Seq(Nodes)
  BY <1>3, <1>4
<1>6. a \o b \in Seq(Nodes) /\ Range(a \o b) = Range(a) \cup Range(b)
  <2> HIDE DEF a, b
  <2> QED BY <1>5, RangeOfConcat
<1> QED BY <1>3, <1>4, <1>6 DEF RackNodes, RackSet

\* The nodes of a pod.
LEMMA PodRange ==
  ASSUME NEW pod \in PodT, NEW rack, \A r \in 1 .. pod.racks : rack[<<pod.name, r>>] \in Nat,
         NEW q, q = Tier("spine", pod.name, pod.spines)
                    \o FlattenSeq([r \in 1 .. pod.racks |-> RackNodes(pod, rack[<<pod.name, r>>])])
  PROVE  q \in Seq(Nodes) /\ Range(q) = PodSet(pod, rack)
<1>1. pod.name \in Nat /\ pod.spines \in Nat /\ pod.racks \in Nat /\ "spine" \in Roles /\ 0 \in Nat
  BY DEF PodT, Roles
<1> DEFINE a == Tier("spine", pod.name, pod.spines)
           ss == [r \in 1 .. pod.racks |-> RackNodes(pod, rack[<<pod.name, r>>])]
           b == FlattenSeq(ss)
<1>2. a \in Seq(Nodes) /\ Range(a) = RowSet("spine", pod.name, 0, pod.spines)
  BY <1>1, RangeOfRow DEF Tier
<1>3. \A r \in 1 .. pod.racks : ss[r] \in Seq(Nodes) /\ Range(ss[r]) = RackSet(pod, rack[<<pod.name, r>>])
  BY RackRange
<1>4. ss \in Seq(Seq(Nodes)) /\ Len(ss) = pod.racks
  <2> DEFINE F(r) == RackNodes(pod, rack[<<pod.name, r>>]) n == pod.racks
  <2>1. n \in Nat /\ ss = [r \in 1 .. n |-> F(r)] /\ \A r \in 1 .. n : F(r) \in Seq(Nodes)
    BY <1>1, <1>3
  <2> HIDE DEF F, ss, n
  <2>2. ss \in Seq(Seq(Nodes)) /\ Len(ss) = n
    BY <2>1
  <2> QED BY <2>2 DEF n
<1>5. b \in Seq(Nodes) /\ Range(b) = UNION {Range(ss[k]) : k \in 1 .. Len(ss)}
  <2> HIDE DEF ss
  <2> QED BY <1>4, RangeOfFlat
<1>6. q = a \o b
  OBVIOUS
<1>7. a \o b \in Seq(Nodes) /\ Range(a \o b) = Range(a) \cup Range(b)
  <2> HIDE DEF a, b
  <2> QED BY <1>2, <1>5, RangeOfConcat
<1>8. Range(b) = UNION {RackSet(pod, rack[<<pod.name, r>>]) : r \in 1 .. pod.racks}
  <2> HIDE DEF ss, b
  <2> QED BY <1>3, <1>4, <1>5
<1> QED BY <1>2, <1>6, <1>7, <1>8 DEF PodSet

\* Build makes the nodes of NodeSet.
LEMMA NodesRange ==
  ASSUME NEW s, IsSpec(s), NEW rack, \A x \in SlotSet(s) : rack[x] \in Nat
  PROVE  NodesOf(s, rack) \in Seq(Nodes) /\ Range(NodesOf(s, rack)) = NodeSet(s, rack)
<1>0. /\ s.externals \in Nat /\ s.edges \in Nat /\ s.superspines \in Nat /\ Len(s.pods) \in Nat
      /\ \A p \in 1 .. Len(s.pods) : s.pods[p] \in PodT /\ s.pods[p].racks \in Nat
  BY SpecFacts
<1>r. "external" \in Roles /\ "dcedge" \in Roles /\ "superspine" \in Roles /\ 0 \in Nat
  BY DEF Roles
<1> DEFINE a == Tier("external", 0, s.externals) b == Tier("dcedge", 0, s.edges)
           c == Tier("superspine", 0, s.superspines)
           F(p) == Tier("spine", s.pods[p].name, s.pods[p].spines)
                   \o Concat(s.pods[p].racks, LAMBDA r : RackNodes(s.pods[p], rack[<<s.pods[p].name, r>>]))
           n == Len(s.pods)
           ss == [p \in 1 .. n |-> F(p)]
           d == FlattenSeq(ss)
<1>1. a \in Seq(Nodes) /\ Range(a) = RowSet("external", 0, 0, s.externals)
  BY <1>0, <1>r, RangeOfRow DEF Tier
<1>2. b \in Seq(Nodes) /\ Range(b) = RowSet("dcedge", 0, 0, s.edges)
  BY <1>0, <1>r, RangeOfRow DEF Tier
<1>3. c \in Seq(Nodes) /\ Range(c) = RowSet("superspine", 0, 0, s.superspines)
  BY <1>0, <1>r, RangeOfRow DEF Tier
<1>4. ASSUME NEW p \in 1 .. n PROVE F(p) \in Seq(Nodes) /\ Range(F(p)) = PodSet(s.pods[p], rack)
  <2> DEFINE pod == s.pods[p]
  <2>1. pod \in PodT
    BY <1>0
  <2>2. \A r \in 1 .. pod.racks : rack[<<pod.name, r>>] \in Nat
    BY DEF SlotSet
  <2> DEFINE f == F(p)
  <2>4. f = Tier("spine", pod.name, pod.spines)
            \o FlattenSeq([r \in 1 .. pod.racks |-> RackNodes(pod, rack[<<pod.name, r>>])])
    BY DEF Concat
  <2> HIDE DEF F, f, pod
  <2>5. f \in Seq(Nodes) /\ Range(f) = PodSet(pod, rack)
    BY <2>1, <2>2, <2>4, PodRange
  <2> QED BY <2>5 DEF f, pod
<1>5. ss \in Seq(Seq(Nodes)) /\ Len(ss) = n /\ \A p \in 1 .. n : ss[p] = F(p)
  <2>1. n \in Nat
    BY <1>0
  <2> HIDE DEF F, n
  <2> QED BY <1>4, <2>1
<1>6. d \in Seq(Nodes) /\ Range(d) = UNION {Range(ss[k]) : k \in 1 .. Len(ss)}
  <2> HIDE DEF ss
  <2> QED BY <1>5, RangeOfFlat
<1>7. Range(d) = UNION {PodSet(s.pods[p], rack) : p \in 1 .. n}
  <2> HIDE DEF ss, d, F, n
  <2> QED BY <1>4, <1>5, <1>6
<1>8. NodesOf(s, rack) = ((a \o b) \o c) \o d
  BY DEF NodesOf, Concat
<1> HIDE DEF a, b, c, d
<1>9. a \o b \in Seq(Nodes) /\ Range(a \o b) = Range(a) \cup Range(b)
  BY <1>1, <1>2, RangeOfConcat
<1> DEFINE ab == a \o b
<1>10. ab \o c \in Seq(Nodes) /\ Range(ab \o c) = Range(ab) \cup Range(c)
  <2>1. ab \in Seq(Nodes)
    BY <1>9
  <2> HIDE DEF ab
  <2> QED BY <2>1, <1>3, RangeOfConcat
<1> DEFINE abc == ab \o c
<1>11. abc \o d \in Seq(Nodes) /\ Range(abc \o d) = Range(abc) \cup Range(d)
  <2>1. abc \in Seq(Nodes)
    BY <1>10
  <2> HIDE DEF abc
  <2> QED BY <2>1, <1>6, RangeOfConcat
<1>12. Range(abc \o d) = NodeSet(s, rack)
  BY <1>1, <1>2, <1>3, <1>7, <1>9, <1>10, <1>11 DEF NodeSet
<1>13. NodesOf(s, rack) = abc \o d
  BY <1>8
<1> QED BY <1>11, <1>12, <1>13

\* Build comes to the slots of SlotSet.
LEMMA SlotsRange ==
  ASSUME NEW s, IsSpec(s)
  PROVE  Slots(s) \in Seq(Nat \X Nat) /\ Range(Slots(s)) = SlotSet(s)
<1>0. /\ Len(s.pods) \in Nat
      /\ \A p \in 1 .. Len(s.pods) : s.pods[p].name \in Nat /\ s.pods[p].racks \in Nat
  BY SpecFacts
<1> DEFINE n == Len(s.pods)
           F(p) == [r \in 1 .. s.pods[p].racks |-> <<s.pods[p].name, r>>]
           ss == [p \in 1 .. n |-> F(p)]
<1>1. ASSUME NEW p \in 1 .. n
      PROVE F(p) \in Seq(Nat \X Nat) /\ Range(F(p)) = {<<s.pods[p].name, r>> : r \in 1 .. s.pods[p].racks}
  BY <1>0 DEF Range
<1>2. ss \in Seq(Seq(Nat \X Nat)) /\ Len(ss) = n /\ \A p \in 1 .. n : ss[p] = F(p)
  <2>1. n \in Nat
    BY <1>0
  <2> HIDE DEF F, n
  <2> QED BY <1>1, <2>1
<1>3. Slots(s) = FlattenSeq(ss)
  BY DEF Slots, Concat
<1> HIDE DEF ss
<1>4. FlattenSeq(ss) \in Seq(Nat \X Nat) /\ Range(FlattenSeq(ss)) = UNION {Range(ss[k]) : k \in 1 .. Len(ss)}
  BY <1>2, RangeOfFlat
<1>5. Range(FlattenSeq(ss)) = UNION {{<<s.pods[p].name, r>> : r \in 1 .. s.pods[p].racks} : p \in 1 .. n}
  <2> HIDE DEF F, n
  <2>1. Range(FlattenSeq(ss)) = UNION {Range(F(p)) : p \in 1 .. n}
    BY <1>2, <1>4
  <2> QED BY <1>1, <2>1
<1> QED BY <1>3, <1>4, <1>5 DEF SlotSet

----------------------------------------------------------------------------
(* The links of a spec *)

\* The links of a rack, of a pod and of a spec.
RackLinkSet(pod, num) ==
  (RowSet("spine", pod.name, 0, pod.spines) \X RowSet("leaf", pod.name, num, 2))
  \cup {<<Node("leaf", pod.name, num, 1), Node("leaf", pod.name, num, 2)>>}
  \cup (RowSet("leaf", pod.name, num, 2) \X RowSet("server", pod.name, num, pod.servers))
PodLinkSet(top, pod, rack) ==
  (top \X RowSet("spine", pod.name, 0, pod.spines))
  \cup UNION {RackLinkSet(pod, rack[<<pod.name, r>>]) : r \in 1 .. pod.racks}
LinkSet(s, rack) ==
  (RowSet("external", 0, 0, s.externals) \X RowSet("dcedge", 0, 0, s.edges))
  \cup (RowSet("dcedge", 0, 0, s.edges) \X RowSet("superspine", 0, 0, s.superspines))
  \cup UNION {PodLinkSet(RowSet("superspine", 0, 0, s.superspines), s.pods[p], rack) : p \in 1 .. Len(s.pods)}

Pairs == Nodes \X Nodes

\* A mesh links every node of the one sequence with every node of the other.
LEMMA RangeOfMesh ==
  ASSUME NEW u \in Seq(Nodes), NEW v \in Seq(Nodes)
  PROVE  Mesh(u, v) \in Seq(Pairs) /\ Range(Mesh(u, v)) = Range(u) \X Range(v)
<1> DEFINE F(j) == [k \in 1 .. Len(v) |-> <<u[j], v[k]>>]
           n == Len(u)
           ss == [j \in 1 .. n |-> F(j)]
<1>0. n \in Nat /\ Len(v) \in Nat
  OBVIOUS
<1>r. Range(u) = {u[j] : j \in 1 .. n} /\ Range(v) = {v[k] : k \in 1 .. Len(v)}
  BY DEF Range
<1>1. ASSUME NEW j \in 1 .. n PROVE F(j) \in Seq(Pairs) /\ Range(F(j)) = {<<u[j], v[k]>> : k \in 1 .. Len(v)}
  <2>1. u[j] \in Nodes /\ \A k \in 1 .. Len(v) : v[k] \in Nodes
    OBVIOUS
  <2>2. \A k \in 1 .. Len(v) : <<u[j], v[k]>> \in Pairs
    BY <2>1 DEF Pairs
  <2> QED BY <2>2, <1>0 DEF Range
<1>2. ss \in Seq(Seq(Pairs)) /\ Len(ss) = n /\ \A j \in 1 .. n : ss[j] = F(j)
  <2> HIDE DEF F, n
  <2> QED BY <1>0, <1>1
<1>3. Mesh(u, v) = FlattenSeq(ss)
  BY DEF Mesh, Concat
<1> HIDE DEF ss
<1>4. FlattenSeq(ss) \in Seq(Pairs) /\ Range(FlattenSeq(ss)) = UNION {Range(ss[k]) : k \in 1 .. Len(ss)}
  BY <1>2, RangeOfFlat
<1>5. Range(FlattenSeq(ss)) = UNION {{<<u[j], v[k]>> : k \in 1 .. Len(v)} : j \in 1 .. n}
  <2> HIDE DEF F, n
  <2>1. Range(FlattenSeq(ss)) = UNION {Range(F(p)) : p \in 1 .. n}
    BY <1>2, <1>4
  <2> QED BY <1>1, <2>1
<1> HIDE DEF n
<1>6. UNION {{<<u[j], v[k]>> : k \in 1 .. Len(v)} : j \in 1 .. n} = Range(u) \X Range(v)
  BY <1>r
<1> QED BY <1>3, <1>4, <1>5, <1>6

\* The links of a rack.
LEMMA RackLinksRange ==
  ASSUME NEW pod \in PodT, NEW num \in Nat
  PROVE  RackLinks(pod, num) \in Seq(Pairs) /\ Range(RackLinks(pod, num)) = RackLinkSet(pod, num)
<1>0. pod.name \in Nat /\ pod.servers \in Nat /\ pod.spines \in Nat
  BY DEF PodT
<1>r. "leaf" \in Roles /\ "server" \in Roles /\ "spine" \in Roles /\ 0 \in Nat
  BY DEF Roles
<1>sv. /\ Servers(pod, num) \in Seq(Nodes) /\ Len(Servers(pod, num)) = pod.servers
       /\ Range(Servers(pod, num)) = RowSet("server", pod.name, num, pod.servers)
  <2>1. /\ Servers(pod, num) \in Seq(Nodes)
        /\ Range(Servers(pod, num)) = RowSet("server", pod.name, num, pod.servers)
    BY <1>0, <1>r, RangeOfRow DEF Servers
  <2>2. Len(Servers(pod, num)) = pod.servers
    BY <1>0, RowAt DEF Servers
  <2> QED BY <2>1, <2>2
<1>sp. /\ Tier("spine", pod.name, pod.spines) \in Seq(Nodes)
       /\ Range(Tier("spine", pod.name, pod.spines)) = RowSet("spine", pod.name, 0, pod.spines)
  BY <1>0, <1>r, RangeOfRow DEF Tier
<1>lf. /\ LeafPair(pod.name, num) \in Seq(Nodes)
       /\ Range(LeafPair(pod.name, num)) = RowSet("leaf", pod.name, num, 2)
       /\ \A i \in 1 .. 2 : LeafPair(pod.name, num)[i] = Node("leaf", pod.name, num, i)
  <2> DEFINE two == 2
  <2>1. two \in Nat
    OBVIOUS
  <2> HIDE DEF two
  <2>2. /\ Row("leaf", pod.name, num, two) \in Seq(Nodes)
        /\ Range(Row("leaf", pod.name, num, two)) = RowSet("leaf", pod.name, num, two)
    BY <1>0, <1>r, <2>1, RangeOfRow
  <2>3. \A i \in 1 .. two : Row("leaf", pod.name, num, two)[i] = Node("leaf", pod.name, num, i)
    BY <2>1, RowAt
  <2> QED BY <2>2, <2>3 DEF two, LeafPair
<1> DEFINE leaves == LeafPair(pod.name, num)
           servers == Servers(pod, num)
           spines == Tier("spine", pod.name, pod.spines)
           l1 == Node("leaf", pod.name, num, 1)
           l2 == Node("leaf", pod.name, num, 2)
<1>1. /\ leaves \in Seq(Nodes) /\ Range(leaves) = RowSet("leaf", pod.name, num, 2)
      /\ leaves[1] = l1 /\ leaves[2] = l2
  BY <1>lf
<1>2. /\ servers \in Seq(Nodes) /\ Len(servers) = pod.servers
      /\ Range(servers) = RowSet("server", pod.name, num, pod.servers)
  BY <1>sv
<1>3. spines \in Seq(Nodes) /\ Range(spines) = RowSet("spine", pod.name, 0, pod.spines)
  BY <1>sp
<1> DEFINE n == Len(servers)
           F(i) == <<<<leaves[1], servers[i]>>, <<leaves[2], servers[i]>>>>
           ss == [i \in 1 .. n |-> F(i)]
           a == Mesh(spines, leaves) b == <<<<leaves[1], leaves[2]>>>> c == FlattenSeq(ss)
<1>4. RackLinks(pod, num) = (a \o b) \o c
  BY DEF RackLinks, Concat
<1> HIDE DEF leaves, servers, spines, l1, l2
<1>5. a \in Seq(Pairs) /\ Range(a) = Range(spines) \X Range(leaves)
  BY <1>1, <1>3, RangeOfMesh
<1>6. l1 \in Nodes /\ l2 \in Nodes
  BY <1>0, <1>r DEF l1, l2, Node, Nodes
<1>7. b \in Seq(Pairs) /\ Range(b) = {<<l1, l2>>}
  <2>1. <<l1, l2>> \in Pairs
    BY <1>6 DEF Pairs
  <2>2. b = <<<<l1, l2>>>>
    BY <1>1
  <2> DEFINE x == <<l1, l2>>
  <2>3. <<x>> \in Seq(Pairs) /\ Range(<<x>>) = {x}
    <3>1. x \in Pairs
      BY <2>1
    <3> HIDE DEF x
    <3> QED BY <3>1 DEF Range
  <2> QED BY <2>2, <2>3
<1>8. ASSUME NEW i \in 1 .. n PROVE F(i) \in Seq(Pairs) /\ Range(F(i)) = {<<l1, servers[i]>>, <<l2, servers[i]>>}
  <2>1. servers[i] \in Nodes
    BY <1>2
  <2> DEFINE x == <<l1, servers[i]>> y == <<l2, servers[i]>>
  <2>2. x \in Pairs /\ y \in Pairs
    BY <1>6, <2>1 DEF Pairs
  <2>3. F(i) = <<x, y>>
    BY <1>1
  <2> HIDE DEF x, y, F
  <2>4. <<x, y>> \in Seq(Pairs) /\ Range(<<x, y>>) = {x, y}
    BY <2>2 DEF Range
  <2> QED BY <2>3, <2>4 DEF x, y
<1>9. n = pod.servers /\ n \in Nat
  BY <1>0, <1>2
<1>10. ss \in Seq(Seq(Pairs)) /\ Len(ss) = n /\ \A i \in 1 .. n : ss[i] = F(i)
  <2> HIDE DEF F, n
  <2> QED BY <1>8, <1>9
<1>11. c \in Seq(Pairs) /\ Range(c) = UNION {Range(ss[k]) : k \in 1 .. Len(ss)}
  <2> HIDE DEF ss
  <2> QED BY <1>10, RangeOfFlat
<1>12. Range(c) = UNION {{<<l1, servers[i]>>, <<l2, servers[i]>>} : i \in 1 .. n}
  <2> HIDE DEF F, n, ss, c
  <2>1. Range(c) = UNION {Range(F(p)) : p \in 1 .. n}
    BY <1>10, <1>11
  <2> QED BY <1>8, <2>1
<1>13. Range(servers) = {servers[i] : i \in 1 .. n}
  BY <1>2 DEF Range
<1>14. Range(leaves) = {l1, l2}
  <2>1. RowSet("leaf", pod.name, num, 2) = {Node("leaf", pod.name, num, i) : i \in 1 .. 2}
    BY DEF RowSet
  <2>2. 1 .. 2 = {1, 2}
    OBVIOUS
  <2> QED BY <1>1, <2>1, <2>2 DEF l1, l2
<1>15. Range(c) = Range(leaves) \X Range(servers)
  <2> HIDE DEF n, c
  <2> QED BY <1>12, <1>13, <1>14
<1> HIDE DEF a, b, c
<1>16. a \o b \in Seq(Pairs) /\ Range(a \o b) = Range(a) \cup Range(b)
  BY <1>5, <1>7, RangeOfConcat
<1> DEFINE ab == a \o b
<1>17. ab \o c \in Seq(Pairs) /\ Range(ab \o c) = Range(ab) \cup Range(c)
  <2>1. ab \in Seq(Pairs)
    BY <1>16
  <2> HIDE DEF ab
  <2> QED BY <2>1, <1>11, RangeOfConcat
<1>18. Range(ab \o c) = RackLinkSet(pod, num)
  BY <1>1, <1>2, <1>3, <1>5, <1>7, <1>15, <1>16, <1>17 DEF RackLinkSet, l1, l2
<1>19. RackLinks(pod, num) = ab \o c
  BY <1>4
<1> QED BY <1>17, <1>18, <1>19

\* The links of a pod.
LEMMA PodLinksRange ==
  ASSUME NEW pod \in PodT, NEW rack, \A r \in 1 .. pod.racks : rack[<<pod.name, r>>] \in Nat,
         NEW top \in Seq(Nodes),
         NEW q, q = Mesh(top, Tier("spine", pod.name, pod.spines))
                    \o FlattenSeq([r \in 1 .. pod.racks |-> RackLinks(pod, rack[<<pod.name, r>>])])
  PROVE  q \in Seq(Pairs) /\ Range(q) = PodLinkSet(Range(top), pod, rack)
<1>1. pod.name \in Nat /\ pod.spines \in Nat /\ pod.racks \in Nat /\ "spine" \in Roles /\ 0 \in Nat
  BY DEF PodT, Roles
<1> DEFINE t == Tier("spine", pod.name, pod.spines)
           a == Mesh(top, t)
           ss == [r \in 1 .. pod.racks |-> RackLinks(pod, rack[<<pod.name, r>>])]
           b == FlattenSeq(ss)
<1>2. t \in Seq(Nodes) /\ Range(t) = RowSet("spine", pod.name, 0, pod.spines)
  BY <1>1, RangeOfRow DEF Tier
<1>3. a \in Seq(Pairs) /\ Range(a) = Range(top) \X Range(t)
  <2> HIDE DEF t
  <2> QED BY <1>2, RangeOfMesh
<1>4. \A r \in 1 .. pod.racks : ss[r] \in Seq(Pairs) /\ Range(ss[r]) = RackLinkSet(pod, rack[<<pod.name, r>>])
  BY RackLinksRange
<1>5. ss \in Seq(Seq(Pairs)) /\ Len(ss) = pod.racks
  <2> DEFINE F(r) == RackLinks(pod, rack[<<pod.name, r>>]) n == pod.racks
  <2>1. n \in Nat /\ ss = [r \in 1 .. n |-> F(r)] /\ \A r \in 1 .. n : F(r) \in Seq(Pairs)
    BY <1>1, <1>4
  <2> HIDE DEF F, ss, n
  <2>2. ss \in Seq(Seq(Pairs)) /\ Len(ss) = n
    BY <2>1
  <2> QED BY <2>2 DEF n
<1>6. b \in Seq(Pairs) /\ Range(b) = UNION {Range(ss[k]) : k \in 1 .. Len(ss)}
  <2> HIDE DEF ss
  <2> QED BY <1>5, RangeOfFlat
<1>7. a \o b \in Seq(Pairs) /\ Range(a \o b) = Range(a) \cup Range(b)
  <2> HIDE DEF a, b
  <2> QED BY <1>3, <1>6, RangeOfConcat
<1>8. Range(b) = UNION {RackLinkSet(pod, rack[<<pod.name, r>>]) : r \in 1 .. pod.racks}
  <2> HIDE DEF ss, b
  <2> QED BY <1>4, <1>5, <1>6
<1> QED BY <1>2, <1>3, <1>7, <1>8 DEF PodLinkSet

\* Build makes the links of LinkSet.
LEMMA LinksRange ==
  ASSUME NEW s, IsSpec(s), NEW rack, \A x \in SlotSet(s) : rack[x] \in Nat
  PROVE  LinksOf(s, rack) \in Seq(Pairs) /\ Range(LinksOf(s, rack)) = LinkSet(s, rack)
<1>0. /\ s.externals \in Nat /\ s.edges \in Nat /\ s.superspines \in Nat /\ Len(s.pods) \in Nat
      /\ \A p \in 1 .. Len(s.pods) : s.pods[p] \in PodT /\ s.pods[p].racks \in Nat
  BY SpecFacts
<1>r. "external" \in Roles /\ "dcedge" \in Roles /\ "superspine" \in Roles /\ 0 \in Nat
  BY DEF Roles
<1> DEFINE x == Tier("external", 0, s.externals) y == Tier("dcedge", 0, s.edges)
           z == Tier("superspine", 0, s.superspines)
           F(p) == Mesh(z, Tier("spine", s.pods[p].name, s.pods[p].spines))
                   \o Concat(s.pods[p].racks, LAMBDA r : RackLinks(s.pods[p], rack[<<s.pods[p].name, r>>]))
           n == Len(s.pods)
           ss == [p \in 1 .. n |-> F(p)]
           d == FlattenSeq(ss)
           a == Mesh(x, y) b == Mesh(y, z)
<1>1. x \in Seq(Nodes) /\ Range(x) = RowSet("external", 0, 0, s.externals)
  BY <1>0, <1>r, RangeOfRow DEF Tier
<1>2. y \in Seq(Nodes) /\ Range(y) = RowSet("dcedge", 0, 0, s.edges)
  BY <1>0, <1>r, RangeOfRow DEF Tier
<1>3. z \in Seq(Nodes) /\ Range(z) = RowSet("superspine", 0, 0, s.superspines)
  BY <1>0, <1>r, RangeOfRow DEF Tier
<1>4. ASSUME NEW p \in 1 .. n PROVE F(p) \in Seq(Pairs) /\ Range(F(p)) = PodLinkSet(Range(z), s.pods[p], rack)
  <2> DEFINE pod == s.pods[p]
  <2>1. pod \in PodT
    BY <1>0
  <2>2. \A r \in 1 .. pod.racks : rack[<<pod.name, r>>] \in Nat
    BY DEF SlotSet
  <2> DEFINE f == F(p)
  <2>4. f = Mesh(z, Tier("spine", pod.name, pod.spines))
            \o FlattenSeq([r \in 1 .. pod.racks |-> RackLinks(pod, rack[<<pod.name, r>>])])
    BY DEF Concat
  <2> HIDE DEF F, f, pod, z
  <2>5. f \in Seq(Pairs) /\ Range(f) = PodLinkSet(Range(z), pod, rack)
    BY <1>3, <2>1, <2>2, <2>4, PodLinksRange
  <2> QED BY <2>5 DEF f, pod
<1>5. ss \in Seq(Seq(Pairs)) /\ Len(ss) = n /\ \A p \in 1 .. n : ss[p] = F(p)
  <2>1. n \in Nat
    BY <1>0
  <2> HIDE DEF F, n
  <2> QED BY <1>4, <2>1
<1>6. d \in Seq(Pairs) /\ Range(d) = UNION {Range(ss[k]) : k \in 1 .. Len(ss)}
  <2> HIDE DEF ss
  <2> QED BY <1>5, RangeOfFlat
<1>7. Range(d) = UNION {PodLinkSet(Range(z), s.pods[p], rack) : p \in 1 .. n}
  <2> HIDE DEF ss, d, F, n, z
  <2> QED BY <1>4, <1>5, <1>6
<1>8. LinksOf(s, rack) = (a \o b) \o d
  BY DEF LinksOf, Concat
<1>9. a \in Seq(Pairs) /\ Range(a) = Range(x) \X Range(y)
  <2> HIDE DEF x, y
  <2> QED BY <1>1, <1>2, RangeOfMesh
<1>10. b \in Seq(Pairs) /\ Range(b) = Range(y) \X Range(z)
  <2> HIDE DEF y, z
  <2> QED BY <1>2, <1>3, RangeOfMesh
<1> HIDE DEF a, b, d, x, y, z
<1>11. a \o b \in Seq(Pairs) /\ Range(a \o b) = Range(a) \cup Range(b)
  BY <1>9, <1>10, RangeOfConcat
<1> DEFINE ab == a \o b
<1>12. ab \o d \in Seq(Pairs) /\ Range(ab \o d) = Range(ab) \cup Range(d)
  <2>1. ab \in Seq(Pairs)
    BY <1>11
  <2> HIDE DEF ab
  <2> QED BY <2>1, <1>6, RangeOfConcat
<1>13. Range(ab \o d) = LinkSet(s, rack)
  BY <1>1, <1>2, <1>3, <1>7, <1>9, <1>10, <1>11, <1>12 DEF LinkSet
<1>14. LinksOf(s, rack) = ab \o d
  BY <1>8
<1> QED BY <1>12, <1>13, <1>14

----------------------------------------------------------------------------
(* Which nodes are linked *)

\* Which two nodes of a fabric are linked, in which order.
Linked(a, b) ==
  \/ a.role = "external" /\ b.role = "dcedge"
  \/ a.role = "dcedge" /\ b.role = "superspine"
  \/ a.role = "superspine" /\ b.role = "spine"
  \/ a.role = "spine" /\ b.role = "leaf" /\ a.pod = b.pod
  \/ a.role = "leaf" /\ b.role = "leaf" /\ a.pod = b.pod /\ a.rack = b.rack /\ a.i = 1 /\ b.i = 2
  \/ a.role = "leaf" /\ b.role = "server" /\ a.pod = b.pod /\ a.rack = b.rack

\* A member of a row.
LEMMA InRow ==
  ASSUME NEW role, NEW pod, NEW rack, NEW k, NEW n
  PROVE  n \in RowSet(role, pod, rack, k) <=>
           n = Node(role, pod, rack, n.i) /\ n.i \in 1 .. k
BY DEF RowSet, Node

\* Its fields.
LEMMA InRowFields ==
  ASSUME NEW role, NEW pod, NEW rack, NEW k, NEW n \in RowSet(role, pod, rack, k)
  PROVE  n.role = role /\ n.pod = pod /\ n.rack = rack /\ n.i \in 1 .. k
BY DEF RowSet, Node

\* Where in a spec a node comes from.
LEMMA NodeCases ==
  ASSUME NEW s, IsSpec(s), NEW rack, \A x \in SlotSet(s) : rack[x] \in Nat, NEW n \in NodeSet(s, rack)
  PROVE  /\ n \in Nodes /\ n.i # 0
         /\ n.role = "external" => n \in RowSet("external", 0, 0, s.externals)
         /\ n.role = "dcedge" => n \in RowSet("dcedge", 0, 0, s.edges)
         /\ n.role = "superspine" => n \in RowSet("superspine", 0, 0, s.superspines)
         /\ n.role = "spine" => \E p \in 1 .. Len(s.pods) : n \in RowSet("spine", s.pods[p].name, 0, s.pods[p].spines)
         /\ n.role \in {"leaf", "server"} =>
              \E p \in 1 .. Len(s.pods) : \E r \in 1 .. s.pods[p].racks :
                n \in RowSet(n.role, s.pods[p].name, rack[<<s.pods[p].name, r>>],
                             IF n.role = "leaf" THEN 2 ELSE s.pods[p].servers)
<1>0. /\ s.externals \in Nat /\ s.edges \in Nat /\ s.superspines \in Nat /\ Len(s.pods) \in Nat
      /\ \A p \in 1 .. Len(s.pods) :
              /\ s.pods[p] \in PodT
              /\ s.pods[p].name \in Nat /\ s.pods[p].name # 0
              /\ s.pods[p].spines \in Nat /\ s.pods[p].racks \in Nat /\ s.pods[p].servers \in Nat
  BY SpecFacts
<1>t. ASSUME NEW role \in Roles, NEW pod \in Nat, NEW rk \in Nat, NEW k \in Nat, n \in RowSet(role, pod, rk, k)
      PROVE  n \in Nodes /\ n.i # 0 /\ n.role = role
  BY <1>t DEF RowSet, Node, Nodes
<1>r. /\ "external" \in Roles /\ "dcedge" \in Roles /\ "superspine" \in Roles /\ "spine" \in Roles
      /\ "leaf" \in Roles /\ "server" \in Roles /\ 0 \in Nat
  BY DEF Roles
<1>1. CASE n \in RowSet("external", 0, 0, s.externals)
  <2>1. n \in Nodes /\ n.i # 0 /\ n.role = "external"
    BY <1>1, <1>0, <1>r, <1>t
  <2> QED BY <1>1, <2>1
<1>2. CASE n \in RowSet("dcedge", 0, 0, s.edges)
  <2>1. n \in Nodes /\ n.i # 0 /\ n.role = "dcedge"
    BY <1>2, <1>0, <1>r, <1>t
  <2> QED BY <1>2, <2>1
<1>3. CASE n \in RowSet("superspine", 0, 0, s.superspines)
  <2>1. n \in Nodes /\ n.i # 0 /\ n.role = "superspine"
    BY <1>3, <1>0, <1>r, <1>t
  <2> QED BY <1>3, <2>1
<1>4. CASE \E p \in 1 .. Len(s.pods) : n \in PodSet(s.pods[p], rack)
  <2>1. PICK p \in 1 .. Len(s.pods) : n \in PodSet(s.pods[p], rack)
    BY <1>4
  <2>2. CASE n \in RowSet("spine", s.pods[p].name, 0, s.pods[p].spines)
    <3>1. n \in Nodes /\ n.i # 0 /\ n.role = "spine"
      BY <2>2, <1>0, <1>r, <1>t
    <3> QED BY <2>2, <3>1
  <2>3. CASE \E r \in 1 .. s.pods[p].racks : n \in RackSet(s.pods[p], rack[<<s.pods[p].name, r>>])
    <3>1. PICK r \in 1 .. s.pods[p].racks : n \in RackSet(s.pods[p], rack[<<s.pods[p].name, r>>])
      BY <2>3
    <3> DEFINE pod == s.pods[p].name num == rack[<<s.pods[p].name, r>>]
    <3>2. num \in Nat /\ pod \in Nat
      BY <1>0 DEF SlotSet
    <3>3. n \in RowSet("leaf", pod, num, 2) \/ n \in RowSet("server", pod, num, s.pods[p].servers)
      BY <3>1 DEF RackSet
    <3>4. CASE n \in RowSet("leaf", pod, num, 2)
      <4>1. n \in Nodes /\ n.i # 0 /\ n.role = "leaf"
        <5> DEFINE two == 2
        <5>1. two \in Nat /\ n \in RowSet("leaf", pod, num, two)
          BY <3>4
        <5> HIDE DEF two, pod, num
        <5> QED BY <5>1, <3>2, <1>r, <1>t
      <4> QED BY <3>4, <4>1
    <3>5. CASE n \in RowSet("server", pod, num, s.pods[p].servers)
      <4>1. n \in Nodes /\ n.i # 0 /\ n.role = "server"
        <5> HIDE DEF pod, num
        <5> QED BY <3>5, <3>2, <1>0, <1>r, <1>t
      <4> QED BY <3>5, <4>1
    <3> QED BY <3>3, <3>4, <3>5
  <2> QED BY <2>1, <2>2, <2>3 DEF PodSet
<1> QED BY <1>1, <1>2, <1>3, <1>4 DEF NodeSet

\* A rack has its two leaves, and a pod what is in its racks.
LEMMA RackMembers ==
  ASSUME NEW s, NEW rack, NEW p \in 1 .. Len(s.pods), NEW r \in 1 .. s.pods[p].racks
  PROVE  /\ RowSet("leaf", s.pods[p].name, rack[<<s.pods[p].name, r>>], 2) \subseteq NodeSet(s, rack)
         /\ RowSet("server", s.pods[p].name, rack[<<s.pods[p].name, r>>], s.pods[p].servers) \subseteq NodeSet(s, rack)
<1>1. RackSet(s.pods[p], rack[<<s.pods[p].name, r>>]) \subseteq PodSet(s.pods[p], rack)
  BY DEF PodSet
<1>2. PodSet(s.pods[p], rack) \subseteq NodeSet(s, rack)
  BY DEF NodeSet
<1> QED BY <1>1, <1>2 DEF RackSet

\* A build links the nodes that are Linked, and no others.
LEMMA LinksAreLinked ==
  ASSUME NEW s, IsSpec(s), NEW rack, \A x \in SlotSet(s) : rack[x] \in Nat,
         \A x, y \in SlotSet(s) : rack[x] = rack[y] => x = y
  PROVE  \A l : l \in LinkSet(s, rack) <=> l \in NodeSet(s, rack) \X NodeSet(s, rack) /\ Linked(l[1], l[2])
<1> DEFINE N == NodeSet(s, rack)
           pods == 1 .. Len(s.pods)
           num(p, r) == rack[<<s.pods[p].name, r>>]
           ext == RowSet("external", 0, 0, s.externals)
           edge == RowSet("dcedge", 0, 0, s.edges)
           top == RowSet("superspine", 0, 0, s.superspines)
           spines(p) == RowSet("spine", s.pods[p].name, 0, s.pods[p].spines)
           leaves(p, r) == RowSet("leaf", s.pods[p].name, num(p, r), 2)
           servers(p, r) == RowSet("server", s.pods[p].name, num(p, r), s.pods[p].servers)
<1>1. ext \subseteq N /\ edge \subseteq N /\ top \subseteq N
  BY DEF NodeSet
<1>2. \A p \in pods : spines(p) \subseteq N
  BY DEF NodeSet, PodSet
<1>3. \A p \in pods : \A r \in 1 .. s.pods[p].racks : leaves(p, r) \subseteq N /\ servers(p, r) \subseteq N
  BY RackMembers
<1>4. \A n \in N : /\ n.role = "external" => n \in ext
                   /\ n.role = "dcedge" => n \in edge
                   /\ n.role = "superspine" => n \in top
                   /\ n.role = "spine" => \E p \in pods : n \in spines(p)
  BY NodeCases
<1>5. ASSUME NEW n \in N, n.role \in {"leaf", "server"}
      PROVE  \E p \in pods : \E r \in 1 .. s.pods[p].racks :
               IF n.role = "leaf" THEN n \in leaves(p, r) ELSE n \in servers(p, r)
  <2>1. PICK p \in 1 .. Len(s.pods) : \E r \in 1 .. s.pods[p].racks :
          n \in RowSet(n.role, s.pods[p].name, rack[<<s.pods[p].name, r>>], IF n.role = "leaf" THEN 2 ELSE s.pods[p].servers)
    BY <1>5, NodeCases
  <2>2. PICK r \in 1 .. s.pods[p].racks :
          n \in RowSet(n.role, s.pods[p].name, rack[<<s.pods[p].name, r>>], IF n.role = "leaf" THEN 2 ELSE s.pods[p].servers)
    BY <2>1
  <2>3. CASE n.role = "leaf"
    BY <2>2, <2>3
  <2>4. CASE n.role = "server"
    BY <2>2, <2>4
  <2> QED BY <1>5, <2>3, <2>4
<1>6. /\ \A n \in ext : n.role = "external"
      /\ \A n \in edge : n.role = "dcedge"
      /\ \A n \in top : n.role = "superspine"
      /\ \A p \in pods : \A n \in spines(p) : n.role = "spine" /\ n.pod = s.pods[p].name
  BY InRowFields
<1>7. \A p \in pods : \A r \in 1 .. s.pods[p].racks :
        /\ \A n \in leaves(p, r) : n.role = "leaf" /\ n.pod = s.pods[p].name /\ n.rack = num(p, r) /\ n.i \in {1, 2}
        /\ \A n \in servers(p, r) : n.role = "server" /\ n.pod = s.pods[p].name /\ n.rack = num(p, r)
  <2>1. 1 .. 2 = {1, 2}
    OBVIOUS
  <2> QED BY <2>1, InRowFields
<1>8. \A p, q \in pods : s.pods[p].name = s.pods[q].name => p = q
  BY SpecFacts
<1>9. \A p, q \in pods : \A r \in 1 .. s.pods[p].racks : \A x \in 1 .. s.pods[q].racks :
        num(p, r) = num(q, x) => s.pods[p].name = s.pods[q].name /\ r = x
  <2>1. \A p \in pods : \A r \in 1 .. s.pods[p].racks : <<s.pods[p].name, r>> \in SlotSet(s)
    BY DEF SlotSet
  <2>2. \A p, q \in pods : \A r \in 1 .. s.pods[p].racks : \A x \in 1 .. s.pods[q].racks :
          rack[<<s.pods[p].name, r>>] = rack[<<s.pods[q].name, x>>] => <<s.pods[p].name, r>> = <<s.pods[q].name, x>>
    BY <2>1
  <2> QED BY <2>2
<1>p. \A p \in pods : \A r \in 1 .. s.pods[p].racks :
        /\ \A n \in leaves(p, r) : n = Node("leaf", s.pods[p].name, num(p, r), n.i)
        /\ \A i \in {1, 2} : Node("leaf", s.pods[p].name, num(p, r), i) \in leaves(p, r)
        /\ \A i : Node("leaf", s.pods[p].name, num(p, r), i).i = i
  <2>1. 1 .. 2 = {1, 2}
    OBVIOUS
  <2>2. \A pod, rk, n : n \in RowSet("leaf", pod, rk, 2) => n = Node("leaf", pod, rk, n.i)
    BY InRow
  <2>3. \A pod, rk : \A i \in {1, 2} : Node("leaf", pod, rk, i) \in RowSet("leaf", pod, rk, 2)
    BY <2>1 DEF RowSet
  <2>4. \A pod, rk, i : Node("leaf", pod, rk, i).i = i
    BY DEF Node
  <2> QED BY <2>2, <2>3, <2>4
<1>q. \A l : l \in LinkSet(s, rack) <=>
         \/ l \in ext \X edge
         \/ l \in edge \X top
         \/ \E p \in pods : l \in top \X spines(p)
         \/ \E p \in pods : \E r \in 1 .. s.pods[p].racks :
              \/ l \in spines(p) \X leaves(p, r)
              \/ l = <<Node("leaf", s.pods[p].name, num(p, r), 1), Node("leaf", s.pods[p].name, num(p, r), 2)>>
              \/ l \in leaves(p, r) \X servers(p, r)
  <2> DEFINE rackLinks(p, r) == RackLinkSet(s.pods[p], num(p, r))
             podLinks(p) == PodLinkSet(top, s.pods[p], rack)
  <2>1. \A l : l \in LinkSet(s, rack) <=> l \in ext \X edge \/ l \in edge \X top \/ \E p \in pods : l \in podLinks(p)
    <3> HIDE DEF podLinks
    <3>1. LinkSet(s, rack) = (ext \X edge) \cup (edge \X top) \cup UNION {podLinks(p) : p \in pods}
      BY DEF LinkSet, podLinks
    <3> HIDE DEF ext, edge, top, pods
    <3> QED BY <3>1
  <2>2. \A p \in pods : \A l : l \in podLinks(p) <=>
          l \in top \X spines(p) \/ \E r \in 1 .. s.pods[p].racks : l \in rackLinks(p, r)
    <3> TAKE p \in pods
    <3>1. podLinks(p) = (top \X spines(p)) \cup UNION {rackLinks(p, r) : r \in 1 .. s.pods[p].racks}
      BY DEF PodLinkSet
    <3> HIDE DEF podLinks, rackLinks, top, spines, pods
    <3> QED BY <3>1
  <2>3. \A p \in pods : \A r \in 1 .. s.pods[p].racks : \A l : l \in rackLinks(p, r) <=>
          \/ l \in spines(p) \X leaves(p, r)
          \/ l = <<Node("leaf", s.pods[p].name, num(p, r), 1), Node("leaf", s.pods[p].name, num(p, r), 2)>>
          \/ l \in leaves(p, r) \X servers(p, r)
    <3> TAKE p \in pods
    <3> TAKE r \in 1 .. s.pods[p].racks
    <3>1. rackLinks(p, r) = (spines(p) \X leaves(p, r))
            \cup {<<Node("leaf", s.pods[p].name, num(p, r), 1), Node("leaf", s.pods[p].name, num(p, r), 2)>>}
            \cup (leaves(p, r) \X servers(p, r))
      BY DEF RackLinkSet
    <3> HIDE DEF rackLinks, leaves, spines, servers, pods, num
    <3> QED BY <3>1
  <2> HIDE DEF rackLinks, podLinks, ext, edge, top, leaves, spines, servers, pods, num
  <2> QED BY <2>1, <2>2, <2>3
<1> HIDE DEF N, pods, num, ext, edge, top, spines, leaves, servers
<1>10. ASSUME NEW l, l \in LinkSet(s, rack) PROVE l \in N \X N /\ Linked(l[1], l[2])
  <2>1. CASE l \in ext \X edge
    BY <2>1, <1>1, <1>6 DEF Linked
  <2>2. CASE l \in edge \X top
    BY <2>2, <1>1, <1>6 DEF Linked
  <2>3. CASE \E p \in pods : l \in top \X spines(p)
    BY <2>3, <1>1, <1>2, <1>6 DEF Linked
  <2>4. ASSUME NEW p \in pods, NEW r \in 1 .. s.pods[p].racks,
                 \/ l \in spines(p) \X leaves(p, r)
                 \/ l = <<Node("leaf", s.pods[p].name, num(p, r), 1), Node("leaf", s.pods[p].name, num(p, r), 2)>>
                 \/ l \in leaves(p, r) \X servers(p, r)
        PROVE  l \in N \X N /\ Linked(l[1], l[2])
    <3>1. CASE l \in spines(p) \X leaves(p, r)
      BY <3>1, <1>2, <1>3, <1>6, <1>7 DEF Linked
    <3>2. CASE l = <<Node("leaf", s.pods[p].name, num(p, r), 1), Node("leaf", s.pods[p].name, num(p, r), 2)>>
      <4>1. /\ l[1] \in leaves(p, r) /\ l[1].i = 1
            /\ l[2] \in leaves(p, r) /\ l[2].i = 2
            /\ l = <<l[1], l[2]>>
        BY <3>2, <1>p
      <4>2. l \in N \X N
        BY <4>1, <1>3
      <4>3. Linked(l[1], l[2])
        BY <4>1, <1>7 DEF Linked
      <4> QED BY <4>2, <4>3
    <3>3. CASE l \in leaves(p, r) \X servers(p, r)
      BY <3>3, <1>3, <1>7 DEF Linked
    <3> QED BY <2>4, <3>1, <3>2, <3>3
  <2> QED BY <1>10, <1>q, <2>1, <2>2, <2>3, <2>4
<1>11. ASSUME NEW a \in N, NEW b \in N, Linked(a, b) PROVE <<a, b>> \in LinkSet(s, rack)
  <2>1. CASE a.role = "external" /\ b.role = "dcedge"
    <3>1. <<a, b>> \in ext \X edge
      BY <2>1, <1>4
    <3> QED BY <3>1, <1>q
  <2>2. CASE a.role = "dcedge" /\ b.role = "superspine"
    <3>1. <<a, b>> \in edge \X top
      BY <2>2, <1>4
    <3> QED BY <3>1, <1>q
  <2>3. CASE a.role = "superspine" /\ b.role = "spine"
    <3>1. \E p \in pods : <<a, b>> \in top \X spines(p)
      BY <2>3, <1>4
    <3> QED BY <3>1, <1>q
  <2>4. CASE a.role = "spine" /\ b.role = "leaf" /\ a.pod = b.pod
    <3>1. PICK p \in pods : a \in spines(p)
      BY <2>4, <1>4
    <3>2p. PICK q \in pods : \E r \in 1 .. s.pods[q].racks : b \in leaves(q, r)
      BY <2>4, <1>5
    <3>2. PICK r \in 1 .. s.pods[q].racks : b \in leaves(q, r)
      BY <3>2p
    <3>3. p = q
      BY <2>4, <3>1, <3>2, <1>6, <1>7, <1>8
    <3>4. <<a, b>> \in spines(q) \X leaves(q, r)
      BY <3>1, <3>2, <3>3
    <3> QED BY <3>4, <1>q
  <2>5. CASE a.role = "leaf" /\ b.role = "leaf" /\ a.pod = b.pod /\ a.rack = b.rack /\ a.i = 1 /\ b.i = 2
    <3>1p. PICK p \in pods : \E r \in 1 .. s.pods[p].racks : a \in leaves(p, r)
      BY <2>5, <1>5
    <3>1. PICK r \in 1 .. s.pods[p].racks : a \in leaves(p, r)
      BY <3>1p
    <3>2p. PICK q \in pods : \E x \in 1 .. s.pods[q].racks : b \in leaves(q, x)
      BY <2>5, <1>5
    <3>2. PICK x \in 1 .. s.pods[q].racks : b \in leaves(q, x)
      BY <3>2p
    <3>3. p = q /\ r = x
      <4>1. num(p, r) = num(q, x)
        BY <2>5, <3>1, <3>2, <1>7
      <4> QED BY <4>1, <1>8, <1>9
    <3>4. <<a, b>> = <<Node("leaf", s.pods[p].name, num(p, r), 1), Node("leaf", s.pods[p].name, num(p, r), 2)>>
      BY <2>5, <3>1, <3>2, <3>3, <1>p
    <3> QED BY <3>4, <1>q
  <2>6. CASE a.role = "leaf" /\ b.role = "server" /\ a.pod = b.pod /\ a.rack = b.rack
    <3>1p. PICK p \in pods : \E r \in 1 .. s.pods[p].racks : a \in leaves(p, r)
      BY <2>6, <1>5
    <3>1. PICK r \in 1 .. s.pods[p].racks : a \in leaves(p, r)
      BY <3>1p
    <3>2p. PICK q \in pods : \E x \in 1 .. s.pods[q].racks : b \in servers(q, x)
      BY <2>6, <1>5
    <3>2. PICK x \in 1 .. s.pods[q].racks : b \in servers(q, x)
      BY <3>2p
    <3>3. p = q /\ r = x
      <4>1. num(p, r) = num(q, x)
        BY <2>6, <3>1, <3>2, <1>7
      <4> QED BY <4>1, <1>8, <1>9
    <3>4. <<a, b>> \in leaves(p, r) \X servers(p, r)
      BY <3>1, <3>2, <3>3
    <3> QED BY <3>4, <1>q
  <2> QED BY <1>11, <2>1, <2>2, <2>3, <2>4, <2>5, <2>6 DEF Linked
<1> QED BY <1>10, <1>11 DEF N

----------------------------------------------------------------------------
(* Allocation *)

\* A finite set of naturals has a greatest element.
LEMMA GreatestNatural ==
  ASSUME NEW S, S \subseteq Nat, S # {}, IsFiniteSet(S)
  PROVE  Max(S) \in S /\ \A y \in S : y <= Max(S)
<1> DEFINE Top(T) == \E x \in T : \A y \in T : x >= y
           Bad == {T \in SUBSET S : T # {} /\ ~Top(T)}
           C == {Cardinality(T) : T \in Bad}
<1>1. \A T \in SUBSET S : IsFiniteSet(T) /\ Cardinality(T) \in Nat
  BY FS_Subset, FS_CardinalityType
<1>2. Bad = {}
  <2> SUFFICES ASSUME Bad # {} PROVE FALSE
    OBVIOUS
  <2>1. C \subseteq Nat /\ C # {}
    <3> HIDE DEF Top
    <3> QED BY <1>1
  <2>2. PICK c \in C : \A d \in C : c <= d
    <3> HIDE DEF C
    <3> QED BY <2>1, LeastNatural
  <2>3. PICK T \in Bad : c = Cardinality(T)
    <3> HIDE DEF Bad
    <3> QED BY <2>2
  <2>4. PICK x : x \in T
    BY <2>3
  <2> DEFINE R == T \ {x}
  <2>5. R \in SUBSET S /\ Cardinality(R) = Cardinality(T) - 1 /\ Cardinality(R) \in Nat /\ Cardinality(T) \in Nat
    <3>1. T \in SUBSET S /\ IsFiniteSet(T) /\ R \in SUBSET S
      BY <1>1, <2>3
    <3>2. Cardinality(R) = Cardinality(T) - 1
      BY <3>1, <2>4, FS_RemoveElement
    <3> QED BY <1>1, <3>1, <3>2
  <2>6. R \notin Bad
    <3> SUFFICES ASSUME R \in Bad PROVE FALSE
      OBVIOUS
    <3>1. Cardinality(R) \in C
      <4> HIDE DEF Bad, R
      <4> QED OBVIOUS
    <3>2. Cardinality(T) <= Cardinality(R)
      BY <2>2, <2>3, <3>1
    <3> HIDE DEF R, Bad, C
    <3> QED BY <2>5, <3>2
  <2>7. Top(T)
    <3>1. x \in Nat /\ \A y \in T : y \in Nat
      BY <2>3, <2>4
    <3>2. CASE R = {}
      <4>1. \A y \in T : y = x
        BY <3>2
      <4>2. x >= x
        BY <3>1
      <4> QED BY <4>1, <4>2, <2>4
    <3>3. CASE R # {}
      <4>1. Top(R)
        <5> HIDE DEF R, Top
        <5> QED BY <2>5, <2>6, <3>3
      <4>2. PICK m \in R : \A y \in R : m >= y
        BY <4>1
      <4>3. m \in T /\ m \in Nat
        BY <4>2, <3>1
      <4>4. CASE x >= m
        <5>1. \A y \in T : x >= y
          BY <3>1, <4>2, <4>3, <4>4
        <5> QED BY <5>1, <2>4
      <4>5. CASE ~(x >= m)
        <5>1. \A y \in T : m >= y
          BY <3>1, <4>2, <4>3, <4>5
        <5> QED BY <5>1, <4>3
      <4> QED BY <4>4, <4>5
    <3> QED BY <3>2, <3>3
  <2> QED BY <2>3, <2>7
<1>3. Top(S)
  <2> HIDE DEF Top
  <2> QED BY <1>2
<1>4. Max(S) \in S /\ \A y \in S : Max(S) >= y
  BY <1>3 DEF Max
<1>5. \A y \in S : y <= Max(S)
  BY <1>4
<1> QED BY <1>4, <1>5

\* What is held lies at or below the high-water mark.
LEMMA HighWaterBounds ==
  ASSUME NEW held, IsFiniteSet(DOMAIN held), \A o \in DOMAIN held : held[o] \in Nat
  PROVE  HighWater(held) \in Nat /\ \A o \in DOMAIN held : held[o] <= HighWater(held)
<1> DEFINE V == {held[o] : o \in DOMAIN held} S == V \cup {0}
           f == [o \in DOMAIN held |-> held[o]]
<1>1. IsFiniteSet(V)
  <2>1. f \in Surjection(DOMAIN held, V)
    BY DEF Surjection
  <2> HIDE DEF V, f
  <2> QED BY <2>1, FS_Surjection
<1>2. IsFiniteSet(S)
  <2> HIDE DEF V
  <2> QED BY <1>1, FS_AddElement
<1>3. S \subseteq Nat /\ S # {}
  OBVIOUS
<1>4. HighWater(held) = Max(S)
  BY DEF HighWater
<1>5. Max(S) \in S /\ \A y \in S : y <= Max(S)
  <2> HIDE DEF S
  <2> QED BY <1>2, <1>3, GreatestNatural
<1>6. \A o \in DOMAIN held : held[o] \in S
  OBVIOUS
<1> HIDE DEF S
<1> QED BY <1>3, <1>4, <1>5, <1>6

\* No two of D get the same from f.
Distinctly(f, D) == \A x, y \in D : x # y => f[x] # f[y]

\* The build comes to each of the fresh owners at a turn of its own.
LEMMA TurnsDiffer ==
  ASSUME NEW S, NEW order \in Seq(S), NEW fresh, fresh \subseteq Range(order)
  PROVE  /\ \A o \in fresh : Turn(order, fresh, o) \in Nat /\ Turn(order, fresh, o) > 0
         /\ \A o, q \in fresh : o # q => Turn(order, fresh, o) # Turn(order, fresh, q)
<1> DEFINE n == Len(order)
           P(o) == Place(order, o)
           K(o) == {k \in 1 .. P(o) : order[k] \in fresh}
<1>1. \A o \in fresh : P(o) \in 1 .. n /\ order[P(o)] = o
  BY DEF Place, Range
<1>2. n \in Nat
  OBVIOUS
<1>3. \A o \in fresh : IsFiniteSet(K(o)) /\ P(o) \in K(o) /\ P(o) \in Nat
  <2> TAKE o \in fresh
  <2> DEFINE p == P(o)
  <2>1. p \in Nat /\ p >= 1 /\ order[p] = o
    BY <1>1, <1>2
  <2> HIDE DEF p
  <2>2. IsFiniteSet(1 .. p)
    BY <2>1, FS_Interval
  <2>3. K(o) \in SUBSET (1 .. p)
    BY DEF p
  <2>4. IsFiniteSet(K(o))
    <3> HIDE DEF K
    <3> QED BY <2>2, <2>3, FS_Subset
  <2>5. p \in 1 .. p
    BY <2>1
  <2> QED BY <2>1, <2>4, <2>5 DEF p
<1>4. \A o \in fresh : Turn(order, fresh, o) = Cardinality(K(o))
  BY DEF Turn
<1>5. \A o \in fresh : Cardinality(K(o)) \in Nat /\ Cardinality(K(o)) > 0
  <2> TAKE o \in fresh
  <2> DEFINE c == K(o)
  <2>1. IsFiniteSet(c) /\ c # {}
    BY <1>3
  <2> HIDE DEF c
  <2>2. Cardinality(c) \in Nat /\ Cardinality(c) # 0
    BY <2>1, FS_CardinalityType, FS_EmptySet
  <2>3. Cardinality(c) > 0
    BY <2>2
  <2> QED BY <2>2, <2>3 DEF c
<1>6. ASSUME NEW o \in fresh, NEW q \in fresh, P(o) < P(q) PROVE Cardinality(K(o)) # Cardinality(K(q))
  <2> DEFINE c == K(o) d == K(q)
  <2>1. IsFiniteSet(d) /\ P(q) \in d
    BY <1>3
  <2>2. c \in SUBSET d /\ P(q) \notin c
    <3> DEFINE i == P(o) j == P(q)
    <3>1. i \in Nat /\ j \in Nat /\ i < j
      BY <1>3, <1>6
    <3>2. c = {k \in 1 .. i : order[k] \in fresh} /\ d = {k \in 1 .. j : order[k] \in fresh}
      OBVIOUS
    <3> HIDE DEF i, j, c, d
    <3>3. c \in SUBSET d /\ j \notin c
      BY <3>1, <3>2
    <3> QED BY <3>3 DEF j
  <2> HIDE DEF c, d, P
  <2>3. Cardinality(c) # Cardinality(d)
    BY <2>1, <2>2, FS_Subset
  <2> QED BY <2>3 DEF c, d
<1>7. ASSUME NEW o \in fresh, NEW q \in fresh, o # q PROVE Cardinality(K(o)) # Cardinality(K(q))
  <2>1. P(o) # P(q) /\ P(o) \in Nat /\ P(q) \in Nat
    BY <1>1, <1>3, <1>7
  <2>2. P(o) < P(q) \/ P(q) < P(o)
    BY <2>1
  <2> HIDE DEF K, P
  <2> QED BY <1>6, <2>2
<1> HIDE DEF K
<1> QED BY <1>4, <1>5, <1>7

\* What owners may hold before an allocation, and what it gives them.
Holding(held) ==
  /\ IsFiniteSet(DOMAIN held)
  /\ \A o \in DOMAIN held : held[o] \in Nat
  /\ Distinctly(held, DOMAIN held)
Gives(a, owners, held) ==
  /\ a \in [owners -> Nat]
  /\ Distinctly(a, owners)
  /\ \A o \in owners : o \in DOMAIN held => a[o] = held[o]
  /\ \A o \in owners : o \notin DOMAIN held => a[o] > 0

\* Every owner keeps what it holds, and nothing is handed out twice.
LEMMA Assigned ==
  ASSUME NEW S, NEW order \in Seq(S), NEW owners, owners \subseteq Range(order),
         NEW held, Holding(held)
  PROVE  Gives(Assign(order, owners, held), owners, held)
<1> DEFINE a == Assign(order, owners, held)
           fresh == owners \ DOMAIN held
           top == HighWater(held)
<1>0. /\ IsFiniteSet(DOMAIN held)
      /\ \A o \in DOMAIN held : held[o] \in Nat
      /\ Distinctly(held, DOMAIN held)
  BY DEF Holding
<1>1. \A o \in owners : o \in DOMAIN held => a[o] = held[o]
  BY DEF Assign
<1>2. \A o \in fresh : a[o] = top + Turn(order, fresh, o)
  BY DEF Assign
<1>3. top \in Nat /\ \A o \in DOMAIN held : held[o] <= top
  BY <1>0, HighWaterBounds
<1>4. /\ \A o \in fresh : Turn(order, fresh, o) \in Nat /\ Turn(order, fresh, o) > 0
      /\ \A o, q \in fresh : o # q => Turn(order, fresh, o) # Turn(order, fresh, q)
  <2>1. fresh \subseteq Range(order)
    OBVIOUS
  <2> HIDE DEF fresh
  <2> QED BY <2>1, TurnsDiffer
<1>5. a = [o \in owners |-> a[o]]
  BY DEF Assign
<1>6. \A o \in owners : o \in DOMAIN held \/ o \in fresh
  OBVIOUS
<1>7. \A o \in fresh : o \in owners /\ o \notin DOMAIN held
  OBVIOUS
<1> HIDE DEF a, fresh, top
<1>8. \A o \in fresh : a[o] \in Nat /\ a[o] > top /\ a[o] > 0
  BY <1>2, <1>3, <1>4
<1>9. \A o \in owners : a[o] \in Nat
  BY <1>0, <1>1, <1>6, <1>8
<1>10. ASSUME NEW x \in owners, NEW y \in owners, x # y PROVE a[x] # a[y]
  <2>1. CASE x \in DOMAIN held /\ y \in DOMAIN held
    BY <2>1, <1>0, <1>1, <1>10 DEF Distinctly
  <2>2. CASE x \in DOMAIN held /\ y \in fresh
    <3>1. a[x] = held[x] /\ held[x] <= top /\ a[y] > top /\ held[x] \in Nat /\ a[y] \in Nat
      BY <2>2, <1>0, <1>1, <1>3, <1>8
    <3> QED BY <3>1, <1>3
  <2>3. CASE x \in fresh /\ y \in DOMAIN held
    <3>1. a[y] = held[y] /\ held[y] <= top /\ a[x] > top /\ held[y] \in Nat /\ a[x] \in Nat
      BY <2>3, <1>0, <1>1, <1>3, <1>8
    <3> QED BY <3>1, <1>3
  <2>4. CASE x \in fresh /\ y \in fresh
    <3>1. Turn(order, fresh, x) # Turn(order, fresh, y)
      BY <2>4, <1>4, <1>10
    <3> QED BY <3>1, <2>4, <1>2, <1>3, <1>4
  <2> QED BY <1>6, <2>1, <2>2, <2>3, <2>4
<1>11. a \in [owners -> Nat]
  BY <1>5, <1>9
<1>12. Distinctly(a, owners)
  BY <1>10 DEF Distinctly
<1>13. \A o \in owners : o \notin DOMAIN held => a[o] > 0
  BY <1>6, <1>8
<1> QED BY <1>1, <1>11, <1>12, <1>13 DEF a, Gives

----------------------------------------------------------------------------
(* What Build makes *)

\* The resources that a build gives to the nodes and links of s.
RackNums(s, b) == Assign(Slots(s), Range(Slots(s)), HeldRacks(b))
Order(s, b) == NodesOf(s, RackNums(s, b))
LinkOrder(s, b) == LinksOf(s, RackNums(s, b))
HeldOf(b, D, field) == [n \in D |-> b.nodes[n][field]]
Routers(D) == {n \in D : ~IsServer(n)}
Having(D, role) == {n \in D : n.role = role}
FirstLeaves(D) == {n \in D : IsLeaf(n) /\ n.i = 1}
FabricOf(L) == {l \in L : IsFabric(l)}
LinksAt(L, n) == {l \in L : n \in {l[1], l[2]}}
LoopbackOf(s, b) ==
  Assign(Order(s, b), Routers(Range(Order(s, b))), HeldOf(b, Routers(DOMAIN b.nodes), "loopback"))
AsnOf(s, b, role) ==
  Assign(Order(s, b), Having(Range(Order(s, b)), role), HeldOf(b, Having(DOMAIN b.nodes, role), "asn"))
RackNetOf(s, b) ==
  Assign(Order(s, b), FirstLeaves(Range(Order(s, b))), HeldOf(b, FirstLeaves(DOMAIN b.nodes), "net"))
SubnetOf(s, b) ==
  Assign(LinkOrder(s, b), FabricOf(Range(LinkOrder(s, b))), [l \in FabricOf(DOMAIN b.links) |-> b.links[l].net])
IfsOf(s, b, n) == Assign(LinkOrder(s, b), LinksAt(Range(LinkOrder(s, b)), n), HeldIfs(b, n))

\* What Build makes, part by part.
LEMMA BuildIs ==
  ASSUME NEW s, NEW b
  PROVE  Build(s, b) =
           [nodes |-> [n \in Range(Order(s, b)) |->
              [asn |-> CASE IsServer(n) -> 0 [] IsLeaf(n) -> n.rack [] OTHER -> AsnOf(s, b, n.role)[n],
               loopback |-> IF IsServer(n) THEN 0 ELSE LoopbackOf(s, b)[n],
               net |-> IF n.rack = 0 THEN 0 ELSE RackNetOf(s, b)[[n EXCEPT !.role = "leaf", !.i = 1]]]],
            links |-> [l \in Range(LinkOrder(s, b)) |->
              [net |-> IF IsFabric(l) THEN SubnetOf(s, b)[l] ELSE 0,
               ifs |-> <<IfsOf(s, b, l[1])[l], IfsOf(s, b, l[2])[l]>>]]]
BY DEF Build, RackNums, Order, LinkOrder, HeldOf, Routers, Having, FirstLeaves, FabricOf, LinksAt,
       LoopbackOf, AsnOf, RackNetOf, SubnetOf, IfsOf

----------------------------------------------------------------------------
(* Sound topologies *)

\* A node of a topology and what it has been given.
LeafOf(n, i) == Node("leaf", n.pod, n.rack, i)
NodeOK(t, n) ==
  /\ n \in Nodes
  /\ n.rack # 0 <=> n.role \in {"leaf", "server"}
  /\ n.role = "leaf" => n.i \in {1, 2}
  /\ t.nodes[n] = [asn |-> t.nodes[n].asn, loopback |-> t.nodes[n].loopback, net |-> t.nodes[n].net]
  /\ t.nodes[n].asn \in Nat /\ t.nodes[n].loopback \in Nat /\ t.nodes[n].net \in Nat
  /\ n.role = "server" => t.nodes[n].asn = 0 /\ t.nodes[n].loopback = 0
  /\ n.role = "leaf" => t.nodes[n].asn = n.rack
  /\ n.rack = 0 => t.nodes[n].net = 0
  /\ n.rack # 0 => /\ LeafOf(n, 1) \in DOMAIN t.nodes /\ LeafOf(n, 2) \in DOMAIN t.nodes
                   /\ t.nodes[n].net = t.nodes[LeafOf(n, 1)].net

\* A link and what it has been given.
LinkOK(t, l) ==
  /\ t.links[l] = [net |-> t.links[l].net, ifs |-> <<t.links[l].ifs[1], t.links[l].ifs[2]>>]
  /\ t.links[l].net \in Nat /\ t.links[l].ifs[1] \in Nat /\ t.links[l].ifs[2] \in Nat
  /\ ~IsFabric(l) => t.links[l].net = 0

\* Nothing is given to two.
Unshared(t) ==
  /\ \A n, m \in Routers(DOMAIN t.nodes) : n # m => t.nodes[n].loopback # t.nodes[m].loopback
  /\ \A n, m \in Routers(DOMAIN t.nodes) : n # m /\ n.role = m.role /\ ~IsLeaf(n) => t.nodes[n].asn # t.nodes[m].asn
  /\ \A n, m \in FirstLeaves(DOMAIN t.nodes) : n # m => t.nodes[n].net # t.nodes[m].net
  /\ \A l, k \in FabricOf(DOMAIN t.links) : l # k => t.links[l].net # t.links[k].net
  /\ \A n \in DOMAIN t.nodes : \A l, k \in LinksAt(DOMAIN t.links, n) :
       l # k => t.links[l].ifs[EndAt(l, n)] # t.links[k].ifs[EndAt(k, n)]
  /\ \A n, m \in Having(DOMAIN t.nodes, "leaf") : n.rack = m.rack => n.pod = m.pod

Sound(t) ==
  /\ IsFiniteSet(DOMAIN t.nodes)
  /\ \A n \in DOMAIN t.nodes : NodeOK(t, n)
  /\ \A l : l \in DOMAIN t.links <=> l \in (DOMAIN t.nodes) \X (DOMAIN t.nodes) /\ Linked(l[1], l[2])
  /\ \A l \in DOMAIN t.links : LinkOK(t, l)
  /\ Unshared(t)

\* The topology with nothing is sound.
LEMMA NothingIsSound == Sound(Nothing)
<1>1. DOMAIN Nothing.nodes = {} /\ DOMAIN Nothing.links = {}
  BY DEF Nothing
<1>2. IsFiniteSet({})
  BY FS_EmptySet
<1>3. \A l : l \notin (DOMAIN Nothing.nodes) \X (DOMAIN Nothing.nodes)
  <2> DEFINE D == DOMAIN Nothing.nodes
  <2>1. D = {}
    BY <1>1
  <2> HIDE DEF D
  <2>2. \A l : l \notin D \X D
    BY <2>1
  <2> QED BY <2>2 DEF D
<1>4. Unshared(Nothing)
  BY <1>1 DEF Unshared, Routers, FirstLeaves, FabricOf, Having
<1>5. \A l : l \in DOMAIN Nothing.links <=> l \in (DOMAIN Nothing.nodes) \X (DOMAIN Nothing.nodes) /\ Linked(l[1], l[2])
  <2>1. \A l : l \notin DOMAIN Nothing.links
    BY <1>1
  <2> QED BY <1>3, <2>1
<1>6. IsFiniteSet(DOMAIN Nothing.nodes)
  BY <1>1, <1>2
<1>7. \A n \in DOMAIN Nothing.nodes : NodeOK(Nothing, n)
  BY <1>1
<1>8. \A l \in DOMAIN Nothing.links : LinkOK(Nothing, l)
  BY <1>1
<1> QED BY <1>4, <1>5, <1>6, <1>7, <1>8 DEF Sound

\* The links of a sound topology are finitely many.
LEMMA LinksAreFinite ==
  ASSUME NEW t, Sound(t)
  PROVE  IsFiniteSet(DOMAIN t.links)
<1> DEFINE D == DOMAIN t.nodes
<1>1. IsFiniteSet(D) /\ DOMAIN t.links \in SUBSET (D \X D)
  <2>1. IsFiniteSet(D)
    BY DEF Sound
  <2>2. \A l : l \in DOMAIN t.links <=> l \in D \X D /\ Linked(l[1], l[2])
    BY DEF Sound
  <2>3. \A l \in DOMAIN t.links : l \in D \X D
    BY <2>2, Zenon
  <2> HIDE DEF D
  <2> QED BY <2>1, <2>3
<1> HIDE DEF D
<1>2. IsFiniteSet(D \X D)
  BY <1>1, FS_Product
<1> QED BY <1>1, <1>2, FS_Subset

\* The racks held: finitely many, numbered from 1, no number twice.
LEMMA HeldRacksOK ==
  ASSUME NEW b, Sound(b)
  PROVE  LET h == HeldRacks(b) IN
         /\ IsFiniteSet(DOMAIN h)
         /\ \A s \in DOMAIN h : h[s] \in Nat /\ h[s] # 0
         /\ Distinctly(h, DOMAIN h)
<1> DEFINE leaves == {n \in DOMAIN b.nodes : IsLeaf(n)}
           slot(n) == <<n.pod, Cardinality({m.rack : m \in {k \in leaves : k.pod = n.pod /\ k.rack <= n.rack}})>>
           D == {slot(n) : n \in leaves}
           of(s) == CHOOSE n \in leaves : slot(n) = s
           h == HeldRacks(b)
<1>1. h = [s \in D |-> of(s).rack]
  BY DEF HeldRacks
<1>2. leaves \in SUBSET DOMAIN b.nodes /\ IsFiniteSet(DOMAIN b.nodes)
  BY DEF Sound
<1>3. \A n \in leaves : n.rack \in Nat /\ n.rack # 0
  BY DEF Sound, NodeOK, Nodes, IsLeaf
<1>4. \A n, m \in leaves : n.rack = m.rack => n.pod = m.pod
  BY DEF Sound, Unshared, Having, IsLeaf
<1>5. \A n, m \in leaves : n.rack = m.rack => slot(n) = slot(m)
  BY <1>4
<1> HIDE DEF h, slot, leaves
<1>6. \A s \in D : of(s) \in leaves /\ slot(of(s)) = s
  OBVIOUS
<1>7. IsFiniteSet(leaves)
  BY <1>2, FS_Subset
<1>8. IsFiniteSet(D)
  <2> DEFINE f == [n \in leaves |-> slot(n)]
  <2>1. f \in Surjection(leaves, D)
    BY DEF Surjection
  <2> HIDE DEF D, f
  <2> QED BY <2>1, <1>7, FS_Surjection
<1> HIDE DEF of
<1>9. \A s \in D : h[s] = of(s).rack
  BY <1>1
<1>10. DOMAIN h = D
  BY <1>1
<1> HIDE DEF D
<1>11. \A s \in D : h[s] \in Nat /\ h[s] # 0
  BY <1>3, <1>6, <1>9
<1>12. \A s, r \in D : h[s] = h[r] => s = r
  BY <1>5, <1>6, <1>9
<1>13. Distinctly(h, D)
  BY <1>12 DEF Distinctly
<1> QED BY <1>8, <1>10, <1>11, <1>13 DEF h

\* The number of every slot of a build.
LEMMA RackNumsOK ==
  ASSUME NEW s, IsSpec(s), NEW b, Sound(b)
  PROVE  /\ \A x \in SlotSet(s) : RackNums(s, b)[x] \in Nat /\ RackNums(s, b)[x] # 0
         /\ \A x, y \in SlotSet(s) : RackNums(s, b)[x] = RackNums(s, b)[y] => x = y
<1> DEFINE h == HeldRacks(b) order == Slots(s) owners == Range(order) a == Assign(order, owners, h)
<1>1. /\ IsFiniteSet(DOMAIN h)
      /\ \A x \in DOMAIN h : h[x] \in Nat /\ h[x] # 0
      /\ Distinctly(h, DOMAIN h)
  BY HeldRacksOK
<1>2. order \in Seq(Nat \X Nat) /\ owners = SlotSet(s)
  BY SlotsRange
<1> HIDE DEF h, order
<1>3. /\ a \in [owners -> Nat]
      /\ Distinctly(a, owners)
      /\ \A o \in owners : o \in DOMAIN h => a[o] = h[o]
      /\ \A o \in owners : o \notin DOMAIN h => a[o] > 0
  <2>1. Holding(h)
    BY <1>1 DEF Holding
  <2>2. Gives(a, owners, h)
    BY <1>2, <2>1, Assigned
  <2> QED BY <2>2 DEF Gives
<1>4. RackNums(s, b) = a
  BY DEF RackNums, h, order
<1> HIDE DEF a
<1>5. \A o \in owners : a[o] # 0
  BY <1>1, <1>3
<1> HIDE DEF owners
<1>6. \A x, y \in owners : a[x] = a[y] => x = y
  BY <1>3 DEF Distinctly
<1> QED BY <1>2, <1>3, <1>4, <1>5, <1>6

\* The nodes that a build makes have their racks' leaves beside them.
LEMMA NodeShapes ==
  ASSUME NEW s, IsSpec(s), NEW b, Sound(b), NEW N, N = NodeSet(s, RackNums(s, b)), NEW n \in N
  PROVE  /\ n \in Nodes
         /\ n.rack # 0 <=> n.role \in {"leaf", "server"}
         /\ n.role = "leaf" => n.i \in {1, 2}
         /\ n.rack # 0 => LeafOf(n, 1) \in N /\ LeafOf(n, 2) \in N
<1> DEFINE rack == RackNums(s, b)
<1>1. \A x \in SlotSet(s) : rack[x] \in Nat /\ rack[x] # 0
  BY RackNumsOK
<1>2. n \in NodeSet(s, rack)
  OBVIOUS
<1>0. \A p \in 1 .. Len(s.pods) : \A r \in 1 .. s.pods[p].racks : <<s.pods[p].name, r>> \in SlotSet(s)
  BY DEF SlotSet
<1> HIDE DEF rack
<1>3. /\ n \in Nodes /\ n.i # 0
      /\ n.role = "external" => n \in RowSet("external", 0, 0, s.externals)
      /\ n.role = "dcedge" => n \in RowSet("dcedge", 0, 0, s.edges)
      /\ n.role = "superspine" => n \in RowSet("superspine", 0, 0, s.superspines)
      /\ n.role = "spine" => \E p \in 1 .. Len(s.pods) : n \in RowSet("spine", s.pods[p].name, 0, s.pods[p].spines)
      /\ n.role \in {"leaf", "server"} =>
              \E p \in 1 .. Len(s.pods) : \E r \in 1 .. s.pods[p].racks :
                n \in RowSet(n.role, s.pods[p].name, rack[<<s.pods[p].name, r>>],
                             IF n.role = "leaf" THEN 2 ELSE s.pods[p].servers)
  BY <1>1, <1>2, NodeCases
<1>4. n.role \in Roles
  BY <1>3 DEF Nodes
<1>5. CASE n.role \notin {"leaf", "server"}
  <2>1. n.rack = 0
    <3>1. CASE n.role = "external"
      BY <3>1, <1>3, InRowFields
    <3>2. CASE n.role = "dcedge"
      BY <3>2, <1>3, InRowFields
    <3>3. CASE n.role = "superspine"
      BY <3>3, <1>3, InRowFields
    <3>4. CASE n.role = "spine"
      BY <3>4, <1>3, InRowFields
    <3> QED BY <1>4, <1>5, <3>1, <3>2, <3>3, <3>4 DEF Roles
  <2> QED BY <1>3, <1>5, <2>1
<1>6. CASE n.role \in {"leaf", "server"}
  <2>1. PICK p \in 1 .. Len(s.pods) : \E r \in 1 .. s.pods[p].racks :
                n \in RowSet(n.role, s.pods[p].name, rack[<<s.pods[p].name, r>>],
                             IF n.role = "leaf" THEN 2 ELSE s.pods[p].servers)
    BY <1>3, <1>6
  <2>2. PICK r \in 1 .. s.pods[p].racks :
                n \in RowSet(n.role, s.pods[p].name, rack[<<s.pods[p].name, r>>],
                             IF n.role = "leaf" THEN 2 ELSE s.pods[p].servers)
    BY <2>1
  <2>3. /\ n.pod = s.pods[p].name /\ n.rack = rack[<<s.pods[p].name, r>>]
        /\ n.i \in 1 .. (IF n.role = "leaf" THEN 2 ELSE s.pods[p].servers)
    BY <2>2, InRowFields
  <2>4. n.rack # 0
    BY <2>3, <1>0, <1>1
  <2>5. n.role = "leaf" => n.i \in {1, 2}
    <3>1. 1 .. 2 = {1, 2}
      OBVIOUS
    <3> QED BY <2>3, <3>1
  <2>6. RowSet("leaf", s.pods[p].name, rack[<<s.pods[p].name, r>>], 2) \subseteq N
    BY RackMembers DEF rack
  <2>7. LeafOf(n, 1) \in N /\ LeafOf(n, 2) \in N
    <3>1. 1 \in 1 .. 2 /\ 2 \in 1 .. 2
      OBVIOUS
    <3>2. RowSet("leaf", n.pod, n.rack, 2) \subseteq N
      BY <2>3, <2>6
    <3> QED BY <3>1, <3>2 DEF LeafOf, RowSet
  <2> QED BY <1>3, <1>6, <2>4, <2>5, <2>7
<1> QED BY <1>5, <1>6

\* Leaves of different pods have different racks.
LEMMA RackOfOnePod ==
  ASSUME NEW s, IsSpec(s), NEW b, Sound(b), NEW n \in NodeSet(s, RackNums(s, b)), NEW m \in NodeSet(s, RackNums(s, b)),
         n.role = "leaf", m.role = "leaf", n.rack = m.rack
  PROVE  n.pod = m.pod
<1> DEFINE rack == RackNums(s, b)
<1>1. /\ \A x \in SlotSet(s) : rack[x] \in Nat /\ rack[x] # 0
      /\ \A x, y \in SlotSet(s) : rack[x] = rack[y] => x = y
  BY RackNumsOK
<1>0. \A p \in 1 .. Len(s.pods) : \A r \in 1 .. s.pods[p].racks : <<s.pods[p].name, r>> \in SlotSet(s)
  BY DEF SlotSet
<1>2. ASSUME NEW k \in NodeSet(s, rack), k.role = "leaf"
      PROVE  \E p \in 1 .. Len(s.pods) : \E r \in 1 .. s.pods[p].racks :
               k.pod = s.pods[p].name /\ k.rack = rack[<<s.pods[p].name, r>>]
  <2> HIDE DEF rack
  <2>1. PICK p \in 1 .. Len(s.pods) : \E r \in 1 .. s.pods[p].racks :
                k \in RowSet(k.role, s.pods[p].name, rack[<<s.pods[p].name, r>>],
                             IF k.role = "leaf" THEN 2 ELSE s.pods[p].servers)
    BY <1>1, <1>2, NodeCases
  <2>2. PICK r \in 1 .. s.pods[p].racks :
                k \in RowSet(k.role, s.pods[p].name, rack[<<s.pods[p].name, r>>],
                             IF k.role = "leaf" THEN 2 ELSE s.pods[p].servers)
    BY <2>1
  <2>3. k.pod = s.pods[p].name /\ k.rack = rack[<<s.pods[p].name, r>>]
    BY <2>2, InRowFields
  <2> QED BY <2>3
<1>3. n \in NodeSet(s, rack) /\ m \in NodeSet(s, rack)
  OBVIOUS
<1> HIDE DEF rack
<1>4. PICK p \in 1 .. Len(s.pods) : \E r \in 1 .. s.pods[p].racks :
               n.pod = s.pods[p].name /\ n.rack = rack[<<s.pods[p].name, r>>]
  BY <1>2, <1>3
<1>5. PICK r \in 1 .. s.pods[p].racks : n.pod = s.pods[p].name /\ n.rack = rack[<<s.pods[p].name, r>>]
  BY <1>4
<1>6. PICK q \in 1 .. Len(s.pods) : \E x \in 1 .. s.pods[q].racks :
               m.pod = s.pods[q].name /\ m.rack = rack[<<s.pods[q].name, x>>]
  BY <1>2, <1>3
<1>7. PICK x \in 1 .. s.pods[q].racks : m.pod = s.pods[q].name /\ m.rack = rack[<<s.pods[q].name, x>>]
  BY <1>6
<1>8. <<s.pods[p].name, r>> = <<s.pods[q].name, x>>
  <2> DEFINE u == <<s.pods[p].name, r>> v == <<s.pods[q].name, x>>
  <2>1. u \in SlotSet(s) /\ v \in SlotSet(s)
    BY <1>0
  <2>2. rack[u] = rack[v]
    BY <1>5, <1>7
  <2> HIDE DEF u, v
  <2>3. u = v
    BY <1>1, <2>1, <2>2
  <2> QED BY <2>3 DEF u, v
<1> QED BY <1>5, <1>7, <1>8

----------------------------------------------------------------------------
(* A build on a sound topology *)

\* A sequence has finitely many elements.
LEMMA RangeIsFinite ==
  ASSUME NEW S, NEW q \in Seq(S)
  PROVE  IsFiniteSet(Range(q))
<1> DEFINE n == Len(q) V == Range(q)
<1>1. n \in Nat /\ q \in [1 .. n -> S]
  OBVIOUS
<1>2. q \in Surjection(1 .. n, V)
  <2>1. V = {q[k] : k \in 1 .. n}
    BY RangeOf
  <2>2. DOMAIN q = 1 .. n
    BY <1>1
  <2>3. q = [k \in 1 .. n |-> q[k]]
    BY <1>1
  <2> HIDE DEF V, n
  <2>4. q \in [1 .. n -> V]
    BY <2>1, <2>3
  <2> QED BY <2>1, <2>4 DEF Surjection
<1> HIDE DEF n, V
<1>3. IsFiniteSet(1 .. n)
  BY <1>1, FS_Interval
<1>4. IsFiniteSet(V)
  BY <1>2, <1>3, FS_Surjection
<1> QED BY <1>4 DEF V

\* The nodes and the links of a build.
LEMMA BuildOrder ==
  ASSUME NEW s, IsSpec(s), NEW b, Sound(b)
  PROVE  /\ Order(s, b) \in Seq(Nodes) /\ Range(Order(s, b)) = NodeSet(s, RackNums(s, b))
         /\ LinkOrder(s, b) \in Seq(Pairs) /\ Range(LinkOrder(s, b)) = LinkSet(s, RackNums(s, b))
         /\ \A l : l \in Range(LinkOrder(s, b)) <=>
              l \in Range(Order(s, b)) \X Range(Order(s, b)) /\ Linked(l[1], l[2])
<1> DEFINE rack == RackNums(s, b)
<1>1. /\ \A x \in SlotSet(s) : rack[x] \in Nat
      /\ \A x, y \in SlotSet(s) : rack[x] = rack[y] => x = y
  BY RackNumsOK
<1>2. Order(s, b) = NodesOf(s, rack) /\ LinkOrder(s, b) = LinksOf(s, rack)
  BY DEF Order, LinkOrder
<1> HIDE DEF rack
<1>3. NodesOf(s, rack) \in Seq(Nodes) /\ Range(NodesOf(s, rack)) = NodeSet(s, rack)
  BY <1>1, NodesRange
<1>4. LinksOf(s, rack) \in Seq(Pairs) /\ Range(LinksOf(s, rack)) = LinkSet(s, rack)
  BY <1>1, LinksRange
<1>5. \A l : l \in LinkSet(s, rack) <=> l \in NodeSet(s, rack) \X NodeSet(s, rack) /\ Linked(l[1], l[2])
  BY <1>1, LinksAreLinked
<1>6. \A l : l \in Range(LinksOf(s, rack)) <=>
              l \in Range(NodesOf(s, rack)) \X Range(NodesOf(s, rack)) /\ Linked(l[1], l[2])
  BY <1>3, <1>4, <1>5, Zenon
<1>7. \A l : l \in Range(LinkOrder(s, b)) <=>
              l \in Range(Order(s, b)) \X Range(Order(s, b)) /\ Linked(l[1], l[2])
  BY <1>2, <1>6, Zenon
<1>8. Order(s, b) \in Seq(Nodes) /\ Range(Order(s, b)) = NodeSet(s, rack)
  BY <1>2, <1>3
<1>9. LinkOrder(s, b) \in Seq(Pairs) /\ Range(LinkOrder(s, b)) = LinkSet(s, rack)
  BY <1>2, <1>4
<1> QED BY <1>7, <1>8, <1>9 DEF rack

\* What nodes hold is kept, and no two get the same.
LEMMA NodesAssigned ==
  ASSUME NEW s, IsSpec(s), NEW b, Sound(b),
         NEW owners, owners \subseteq Range(Order(s, b)), NEW held, DOMAIN held \subseteq DOMAIN b.nodes,
         \A o \in DOMAIN held : held[o] \in Nat, Distinctly(held, DOMAIN held)
  PROVE  Gives(Assign(Order(s, b), owners, held), owners, held)
<1> DEFINE order == Order(s, b)
<1>1. order \in Seq(Nodes)
  BY BuildOrder
<1>2. IsFiniteSet(DOMAIN held)
  <2>1. IsFiniteSet(DOMAIN b.nodes)
    BY DEF Sound
  <2> QED BY <2>1, FS_Subset
<1>3. owners \subseteq Range(order)
  OBVIOUS
<1>4. Holding(held)
  BY <1>2 DEF Holding
<1> HIDE DEF order
<1>5. Gives(Assign(order, owners, held), owners, held)
  BY <1>1, <1>3, <1>4, Assigned
<1> QED BY <1>5 DEF order

\* The same for links.
LEMMA LinksAssigned ==
  ASSUME NEW s, IsSpec(s), NEW b, Sound(b),
         NEW owners, owners \subseteq Range(LinkOrder(s, b)), NEW held, DOMAIN held \subseteq DOMAIN b.links,
         \A o \in DOMAIN held : held[o] \in Nat, Distinctly(held, DOMAIN held)
  PROVE  Gives(Assign(LinkOrder(s, b), owners, held), owners, held)
<1> DEFINE order == LinkOrder(s, b)
<1>1. order \in Seq(Pairs)
  BY BuildOrder
<1>2. IsFiniteSet(DOMAIN held)
  <2>1. IsFiniteSet(DOMAIN b.links)
    BY LinksAreFinite
  <2> QED BY <2>1, FS_Subset
<1>3. owners \subseteq Range(order)
  OBVIOUS
<1>4. Holding(held)
  BY <1>2 DEF Holding
<1> HIDE DEF order
<1>5. Gives(Assign(order, owners, held), owners, held)
  BY <1>1, <1>3, <1>4, Assigned
<1> QED BY <1>5 DEF order

\* The ends of a link are nodes.
LEMMA LinkEnds ==
  ASSUME NEW t, Sound(t)
  PROVE  \A l \in DOMAIN t.links :
           l = <<l[1], l[2]>> /\ l[1] \in DOMAIN t.nodes /\ l[2] \in DOMAIN t.nodes /\ Linked(l[1], l[2])
<1> DEFINE N == DOMAIN t.nodes
<1>1. \A l : l \in DOMAIN t.links <=> l \in N \X N /\ Linked(l[1], l[2])
  BY DEF Sound
<1>2. \A l \in DOMAIN t.links : l \in N \X N /\ Linked(l[1], l[2])
  BY <1>1, Zenon
<1> HIDE DEF N
<1>3. \A l \in DOMAIN t.links : l = <<l[1], l[2]>> /\ l[1] \in N /\ l[2] \in N /\ Linked(l[1], l[2])
  BY <1>2
<1> QED BY <1>3 DEF N

\* The loopbacks of a build.
LEMMA LoopbacksBuilt ==
  ASSUME NEW s, IsSpec(s), NEW b, Sound(b), NEW owners, owners = Routers(Range(Order(s, b)))
  PROVE  /\ \A n \in owners : LoopbackOf(s, b)[n] \in Nat
         /\ Distinctly(LoopbackOf(s, b), owners)
         /\ \A n \in owners : n \in DOMAIN b.nodes => LoopbackOf(s, b)[n] = b.nodes[n].loopback
<1> DEFINE D == Routers(DOMAIN b.nodes) held == HeldOf(b, D, "loopback") a == LoopbackOf(s, b)
<1>1. D \subseteq DOMAIN b.nodes /\ owners \subseteq Range(Order(s, b))
  BY DEF Routers
<1>2. DOMAIN held = D /\ \A n \in D : held[n] = b.nodes[n].loopback
  BY DEF HeldOf, Routers
<1>3. \A n \in D : b.nodes[n].loopback \in Nat
  BY <1>1 DEF Sound, NodeOK
<1>4. \A n, m \in D : n # m => b.nodes[n].loopback # b.nodes[m].loopback
  BY DEF Sound, Unshared
<1>5. a = Assign(Order(s, b), owners, held)
  BY DEF LoopbackOf
<1>6. \A n \in owners : n \in DOMAIN b.nodes => n \in D
  BY DEF Routers
<1> HIDE DEF D, a, held
<1>7. /\ DOMAIN held \subseteq DOMAIN b.nodes
      /\ \A n \in DOMAIN held : held[n] \in Nat
      /\ Distinctly(held, DOMAIN held)
  BY <1>1, <1>2, <1>3, <1>4 DEF Distinctly
<1>8. /\ \A n \in owners : a[n] \in Nat
      /\ Distinctly(a, owners)
      /\ \A n \in owners : n \in DOMAIN held => a[n] = held[n]
  <2>1. Gives(Assign(Order(s, b), owners, held), owners, held)
    BY <1>1, <1>7, NodesAssigned
  <2>2. Gives(a, owners, held)
    BY <1>5, <2>1
  <2> QED BY <2>2 DEF Gives
<1> QED BY <1>2, <1>6, <1>8 DEF a

\* The ASNs of a role that draws them from a range.
LEMMA AsnsBuilt ==
  ASSUME NEW s, IsSpec(s), NEW b, Sound(b), NEW role, role # "leaf", role # "server",
         NEW owners, owners = Having(Range(Order(s, b)), role)
  PROVE  /\ \A n \in owners : AsnOf(s, b, role)[n] \in Nat
         /\ Distinctly(AsnOf(s, b, role), owners)
         /\ \A n \in owners : n \in DOMAIN b.nodes => AsnOf(s, b, role)[n] = b.nodes[n].asn
<1> DEFINE D == Having(DOMAIN b.nodes, role) held == HeldOf(b, D, "asn") a == AsnOf(s, b, role)
<1>1. D \subseteq DOMAIN b.nodes /\ owners \subseteq Range(Order(s, b))
  BY DEF Having
<1>2. DOMAIN held = D /\ \A n \in D : held[n] = b.nodes[n].asn
  BY DEF HeldOf, Having
<1>3. \A n \in D : b.nodes[n].asn \in Nat
  BY <1>1 DEF Sound, NodeOK
<1>4. \A n, m \in D : n # m => b.nodes[n].asn # b.nodes[m].asn
  <2>1. \A n \in D : n \in Routers(DOMAIN b.nodes) /\ n.role = role /\ ~IsLeaf(n)
    BY DEF Having, Routers, IsServer, IsLeaf
  <2> QED BY <2>1 DEF Sound, Unshared
<1>5. a = Assign(Order(s, b), owners, held)
  BY DEF AsnOf
<1>6. \A n \in owners : n \in DOMAIN b.nodes => n \in D
  BY DEF Having
<1> HIDE DEF D, a, held
<1>7. /\ DOMAIN held \subseteq DOMAIN b.nodes
      /\ \A n \in DOMAIN held : held[n] \in Nat
      /\ Distinctly(held, DOMAIN held)
  BY <1>1, <1>2, <1>3, <1>4 DEF Distinctly
<1>8. /\ \A n \in owners : a[n] \in Nat
      /\ Distinctly(a, owners)
      /\ \A n \in owners : n \in DOMAIN held => a[n] = held[n]
  <2>1. Gives(Assign(Order(s, b), owners, held), owners, held)
    BY <1>1, <1>7, NodesAssigned
  <2>2. Gives(a, owners, held)
    BY <1>5, <2>1
  <2> QED BY <2>2 DEF Gives
<1> QED BY <1>2, <1>6, <1>8 DEF a

\* The subnets of the racks.
LEMMA RackNetsBuilt ==
  ASSUME NEW s, IsSpec(s), NEW b, Sound(b), NEW owners, owners = FirstLeaves(Range(Order(s, b)))
  PROVE  /\ \A n \in owners : RackNetOf(s, b)[n] \in Nat
         /\ Distinctly(RackNetOf(s, b), owners)
         /\ \A n \in owners : n \in DOMAIN b.nodes => RackNetOf(s, b)[n] = b.nodes[n].net
<1> DEFINE D == FirstLeaves(DOMAIN b.nodes) held == HeldOf(b, D, "net") a == RackNetOf(s, b)
<1>1. D \subseteq DOMAIN b.nodes /\ owners \subseteq Range(Order(s, b))
  BY DEF FirstLeaves
<1>2. DOMAIN held = D /\ \A n \in D : held[n] = b.nodes[n].net
  BY DEF HeldOf, FirstLeaves
<1>3. \A n \in D : b.nodes[n].net \in Nat
  BY <1>1 DEF Sound, NodeOK
<1>4. \A n, m \in D : n # m => b.nodes[n].net # b.nodes[m].net
  BY DEF Sound, Unshared
<1>5. a = Assign(Order(s, b), owners, held)
  BY DEF RackNetOf
<1>6. \A n \in owners : n \in DOMAIN b.nodes => n \in D
  BY DEF FirstLeaves
<1> HIDE DEF D, a, held
<1>7. /\ DOMAIN held \subseteq DOMAIN b.nodes
      /\ \A n \in DOMAIN held : held[n] \in Nat
      /\ Distinctly(held, DOMAIN held)
  BY <1>1, <1>2, <1>3, <1>4 DEF Distinctly
<1>8. /\ \A n \in owners : a[n] \in Nat
      /\ Distinctly(a, owners)
      /\ \A n \in owners : n \in DOMAIN held => a[n] = held[n]
  <2>1. Gives(Assign(Order(s, b), owners, held), owners, held)
    BY <1>1, <1>7, NodesAssigned
  <2>2. Gives(a, owners, held)
    BY <1>5, <2>1
  <2> QED BY <2>2 DEF Gives
<1> QED BY <1>2, <1>6, <1>8 DEF a

\* The subnets of the fabric links.
LEMMA SubnetsBuilt ==
  ASSUME NEW s, IsSpec(s), NEW b, Sound(b), NEW owners, owners = FabricOf(Range(LinkOrder(s, b)))
  PROVE  /\ \A l \in owners : SubnetOf(s, b)[l] \in Nat
         /\ Distinctly(SubnetOf(s, b), owners)
         /\ \A l \in owners : l \in DOMAIN b.links => SubnetOf(s, b)[l] = b.links[l].net
<1> DEFINE D == FabricOf(DOMAIN b.links) held == [l \in D |-> b.links[l].net] a == SubnetOf(s, b)
<1>1. D \subseteq DOMAIN b.links /\ owners \subseteq Range(LinkOrder(s, b))
  BY DEF FabricOf
<1>2. DOMAIN held = D /\ \A l \in D : held[l] = b.links[l].net
  BY DEF FabricOf
<1>3. \A l \in D : b.links[l].net \in Nat
  BY <1>1 DEF Sound, LinkOK
<1>4. \A l, k \in D : l # k => b.links[l].net # b.links[k].net
  BY DEF Sound, Unshared
<1>5. a = Assign(LinkOrder(s, b), owners, held)
  BY DEF SubnetOf
<1>6. \A l \in owners : l \in DOMAIN b.links => l \in D
  BY DEF FabricOf
<1> HIDE DEF D, a, held
<1>7. /\ DOMAIN held \subseteq DOMAIN b.links
      /\ \A l \in DOMAIN held : held[l] \in Nat
      /\ Distinctly(held, DOMAIN held)
  BY <1>1, <1>2, <1>3, <1>4 DEF Distinctly
<1>8. /\ \A l \in owners : a[l] \in Nat
      /\ Distinctly(a, owners)
      /\ \A l \in owners : l \in DOMAIN held => a[l] = held[l]
  <2>1. Gives(Assign(LinkOrder(s, b), owners, held), owners, held)
    BY <1>1, <1>7, LinksAssigned
  <2>2. Gives(a, owners, held)
    BY <1>5, <2>1
  <2> QED BY <2>2 DEF Gives
<1> QED BY <1>2, <1>6, <1>8 DEF a

\* The interfaces of a node.
LEMMA IfsBuilt ==
  ASSUME NEW s, IsSpec(s), NEW b, Sound(b), NEW n,
         NEW owners, owners = LinksAt(Range(LinkOrder(s, b)), n)
  PROVE  /\ \A l \in owners : IfsOf(s, b, n)[l] \in Nat
         /\ Distinctly(IfsOf(s, b, n), owners)
         /\ \A l \in owners : l \in DOMAIN b.links => IfsOf(s, b, n)[l] = b.links[l].ifs[EndAt(l, n)]
<1> DEFINE D == LinksAt(DOMAIN b.links, n) held == HeldIfs(b, n) a == IfsOf(s, b, n)
<1>1. D \subseteq DOMAIN b.links /\ owners \subseteq Range(LinkOrder(s, b))
  BY DEF LinksAt
<1>2. DOMAIN held = D /\ \A l \in D : held[l] = b.links[l].ifs[EndAt(l, n)]
  BY DEF HeldIfs, LinksAt
<1>3. \A l \in D : b.links[l].ifs[EndAt(l, n)] \in Nat
  BY <1>1 DEF Sound, LinkOK, EndAt
<1>0. \A l \in DOMAIN b.links : l[1] \in DOMAIN b.nodes /\ l[2] \in DOMAIN b.nodes
  BY LinkEnds
<1>4. \A l, k \in D : l # k => b.links[l].ifs[EndAt(l, n)] # b.links[k].ifs[EndAt(k, n)]
  <2>1. CASE D = {}
    BY <2>1
  <2>2. CASE D # {}
    <3>1. n \in DOMAIN b.nodes
      BY <2>2, <1>0 DEF LinksAt
    <3> QED BY <3>1 DEF Sound, Unshared
  <2> QED BY <2>1, <2>2
<1>5. a = Assign(LinkOrder(s, b), owners, held)
  BY DEF IfsOf
<1>6. \A l \in owners : l \in DOMAIN b.links => l \in D
  BY DEF LinksAt
<1> HIDE DEF D, a, held
<1>7. /\ DOMAIN held \subseteq DOMAIN b.links
      /\ \A l \in DOMAIN held : held[l] \in Nat
      /\ Distinctly(held, DOMAIN held)
  BY <1>1, <1>2, <1>3, <1>4 DEF Distinctly
<1>8. /\ \A l \in owners : a[l] \in Nat
      /\ Distinctly(a, owners)
      /\ \A l \in owners : l \in DOMAIN held => a[l] = held[l]
  <2>1. Gives(Assign(LinkOrder(s, b), owners, held), owners, held)
    BY <1>1, <1>7, LinksAssigned
  <2>2. Gives(a, owners, held)
    BY <1>5, <2>1
  <2> QED BY <2>2 DEF Gives
<1> QED BY <1>2, <1>6, <1>8 DEF a

\* Where Build looks up the subnet of the rack of n.
FirstOf(n) == [n EXCEPT !.role = "leaf", !.i = 1]

\* It is the first leaf of the rack.
LEMMA FirstOfRack ==
  ASSUME NEW n \in Nodes
  PROVE  FirstOf(n) = LeafOf(n, 1)
<1> DEFINE a == [n EXCEPT !.role = "leaf"] b == [a EXCEPT !.i = 1]
<1>1. n = [role |-> n.role, pod |-> n.pod, rack |-> n.rack, i |-> n.i]
  BY DEF Nodes
<1>2. a = [role |-> "leaf", pod |-> n.pod, rack |-> n.rack, i |-> n.i]
  BY <1>1
<1>3. FirstOf(n) = b
  BY DEF FirstOf
<1> HIDE DEF a
<1>4. b = [role |-> "leaf", pod |-> n.pod, rack |-> n.rack, i |-> 1]
  BY <1>2
<1> QED BY <1>3, <1>4 DEF LeafOf, Node

\* What survives keeps what it has.
Keeps(b, t) ==
  /\ \A n \in DOMAIN b.nodes \cap DOMAIN t.nodes : t.nodes[n] = b.nodes[n]
  /\ \A l \in DOMAIN b.links \cap DOMAIN t.links : t.links[l] = b.links[l]

\* What a build gives a node and a link.
LEMMA Built ==
  ASSUME NEW s, NEW b, NEW t, t = Build(s, b)
  PROVE  /\ DOMAIN t.nodes = Range(Order(s, b)) /\ DOMAIN t.links = Range(LinkOrder(s, b))
         /\ \A n \in Range(Order(s, b)) :
              /\ t.nodes[n] = [asn |-> t.nodes[n].asn, loopback |-> t.nodes[n].loopback, net |-> t.nodes[n].net]
              /\ t.nodes[n].asn = IF IsServer(n) THEN 0 ELSE IF IsLeaf(n) THEN n.rack ELSE AsnOf(s, b, n.role)[n]
              /\ t.nodes[n].loopback = IF IsServer(n) THEN 0 ELSE LoopbackOf(s, b)[n]
              /\ t.nodes[n].net = IF n.rack = 0 THEN 0 ELSE RackNetOf(s, b)[FirstOf(n)]
         /\ \A l \in Range(LinkOrder(s, b)) :
              t.links[l] = [net |-> IF IsFabric(l) THEN SubnetOf(s, b)[l] ELSE 0,
                            ifs |-> <<IfsOf(s, b, l[1])[l], IfsOf(s, b, l[2])[l]>>]
<1> DEFINE N == Range(Order(s, b)) L == Range(LinkOrder(s, b))
           asn(n) == CASE IsServer(n) -> 0 [] IsLeaf(n) -> n.rack [] OTHER -> AsnOf(s, b, n.role)[n]
           loopback(n) == IF IsServer(n) THEN 0 ELSE LoopbackOf(s, b)[n]
           net(n) == IF n.rack = 0 THEN 0 ELSE RackNetOf(s, b)[FirstOf(n)]
           given(l) == [net |-> IF IsFabric(l) THEN SubnetOf(s, b)[l] ELSE 0,
                        ifs |-> <<IfsOf(s, b, l[1])[l], IfsOf(s, b, l[2])[l]>>]
<1>1. t = [nodes |-> [n \in N |-> [asn |-> asn(n), loopback |-> loopback(n), net |-> net(n)]],
           links |-> [l \in L |-> given(l)]]
  BY BuildIs DEF FirstOf
<1>2. \A n : asn(n) = IF IsServer(n) THEN 0 ELSE IF IsLeaf(n) THEN n.rack ELSE AsnOf(s, b, n.role)[n]
  <2>1. \A n : ~(IsServer(n) /\ IsLeaf(n))
    BY DEF IsServer, IsLeaf
  <2> QED BY <2>1
<1> HIDE DEF N, L, asn, loopback, net, given
<1>3. DOMAIN t.nodes = N /\ DOMAIN t.links = L
  BY <1>1
<1>4. \A n \in N : t.nodes[n] = [asn |-> asn(n), loopback |-> loopback(n), net |-> net(n)]
  BY <1>1
<1>5. \A l \in L : t.links[l] = given(l)
  BY <1>1
<1>6. \A n \in N : /\ t.nodes[n] = [asn |-> t.nodes[n].asn, loopback |-> t.nodes[n].loopback, net |-> t.nodes[n].net]
                   /\ t.nodes[n].asn = asn(n) /\ t.nodes[n].loopback = loopback(n) /\ t.nodes[n].net = net(n)
  <2> TAKE n \in N
  <2> DEFINE u == asn(n) v == loopback(n) w == net(n)
  <2>1. t.nodes[n] = [asn |-> u, loopback |-> v, net |-> w]
    BY <1>4
  <2> HIDE DEF u, v, w
  <2>2. t.nodes[n].asn = u /\ t.nodes[n].loopback = v /\ t.nodes[n].net = w
    BY <2>1
  <2>3. t.nodes[n] = [asn |-> t.nodes[n].asn, loopback |-> t.nodes[n].loopback, net |-> t.nodes[n].net]
    BY <2>1, <2>2
  <2> QED BY <2>2, <2>3 DEF u, v, w
<1> QED BY <1>2, <1>3, <1>5, <1>6 DEF N, L, loopback, net, given

\* A node of a build, and that it keeps what it had.
LEMMA NodeBuilt ==
  ASSUME NEW s, IsSpec(s), NEW b, Sound(b), NEW t, t = Build(s, b), NEW n \in Range(Order(s, b))
  PROVE  NodeOK(t, n) /\ (n \in DOMAIN b.nodes => t.nodes[n] = b.nodes[n])
<1> DEFINE N == Range(Order(s, b)) first == LeafOf(n, 1)
<1>1. /\ DOMAIN t.nodes = N
      /\ \A m \in N :
              /\ t.nodes[m] = [asn |-> t.nodes[m].asn, loopback |-> t.nodes[m].loopback, net |-> t.nodes[m].net]
              /\ t.nodes[m].asn = IF IsServer(m) THEN 0 ELSE IF IsLeaf(m) THEN m.rack ELSE AsnOf(s, b, m.role)[m]
              /\ t.nodes[m].loopback = IF IsServer(m) THEN 0 ELSE LoopbackOf(s, b)[m]
              /\ t.nodes[m].net = IF m.rack = 0 THEN 0 ELSE RackNetOf(s, b)[FirstOf(m)]
  BY Built
<1>2. N = NodeSet(s, RackNums(s, b))
  BY BuildOrder
<1>3. /\ n \in Nodes
      /\ n.rack # 0 <=> n.role \in {"leaf", "server"}
      /\ n.role = "leaf" => n.i \in {1, 2}
      /\ n.rack # 0 => first \in N /\ LeafOf(n, 2) \in N
  <2> HIDE DEF N
  <2>1. n \in N
    BY DEF N
  <2> QED BY <1>2, <2>1, NodeShapes
<1>4. n.rack \in Nat
  BY <1>3 DEF Nodes
<1>5. FirstOf(n) = first
  BY <1>3, FirstOfRack
<1>6. n.rack # 0 => first \in FirstLeaves(N) /\ first.rack = n.rack /\ FirstOf(first) = first
  <2>1. first = [role |-> "leaf", pod |-> n.pod, rack |-> n.rack, i |-> 1]
    BY DEF LeafOf, Node
  <2>2. first.role = "leaf" /\ first.pod = n.pod /\ first.rack = n.rack /\ first.i = 1
    BY <2>1
  <2>3. FirstOf(first) = first
    <3>1. first \in Nodes
      BY <1>3, <2>1 DEF Nodes, Roles
    <3>2. LeafOf(first, 1) = first
      BY <2>1, <2>2 DEF LeafOf, Node
    <3> HIDE DEF first
    <3> QED BY <3>1, <3>2, FirstOfRack
  <2>4. n.rack # 0 => first \in N
    BY <1>3
  <2> HIDE DEF first, N
  <2> QED BY <2>2, <2>3, <2>4 DEF FirstLeaves, IsLeaf
<1>7. /\ \A m \in Routers(N) : LoopbackOf(s, b)[m] \in Nat
      /\ \A m \in Routers(N) : m \in DOMAIN b.nodes => LoopbackOf(s, b)[m] = b.nodes[m].loopback
  BY LoopbacksBuilt
<1>8. n.role \notin {"leaf", "server"} =>
        /\ AsnOf(s, b, n.role)[n] \in Nat
        /\ n \in DOMAIN b.nodes => AsnOf(s, b, n.role)[n] = b.nodes[n].asn
  <2> SUFFICES ASSUME n.role \notin {"leaf", "server"}
               PROVE  /\ AsnOf(s, b, n.role)[n] \in Nat
                      /\ n \in DOMAIN b.nodes => AsnOf(s, b, n.role)[n] = b.nodes[n].asn
    OBVIOUS
  <2> DEFINE role == n.role
  <2>1. role # "leaf" /\ role # "server" /\ n \in Having(N, role)
    BY DEF Having
  <2> HIDE DEF role
  <2>2. /\ \A m \in Having(N, role) : AsnOf(s, b, role)[m] \in Nat
        /\ \A m \in Having(N, role) : m \in DOMAIN b.nodes => AsnOf(s, b, role)[m] = b.nodes[m].asn
    BY <2>1, AsnsBuilt
  <2>3. /\ AsnOf(s, b, role)[n] \in Nat
        /\ n \in DOMAIN b.nodes => AsnOf(s, b, role)[n] = b.nodes[n].asn
    BY <2>1, <2>2
  <2> QED BY <2>3 DEF role
<1>9. /\ \A m \in FirstLeaves(N) : RackNetOf(s, b)[m] \in Nat
      /\ \A m \in FirstLeaves(N) : m \in DOMAIN b.nodes => RackNetOf(s, b)[m] = b.nodes[m].net
  BY RackNetsBuilt
<1>10. n \in N
  OBVIOUS
<1> HIDE DEF N, first
<1>11. t.nodes[n].net = IF n.rack = 0 THEN 0 ELSE RackNetOf(s, b)[first]
  BY <1>1, <1>5, <1>10
<1>12. n.rack # 0 => t.nodes[first].net = RackNetOf(s, b)[first]
  BY <1>1, <1>3, <1>6
<1>13. ~IsServer(n) => n \in Routers(N)
  BY <1>10 DEF Routers
<1>14. /\ t.nodes[n] = [asn |-> t.nodes[n].asn, loopback |-> t.nodes[n].loopback, net |-> t.nodes[n].net]
       /\ t.nodes[n].asn = IF IsServer(n) THEN 0 ELSE IF IsLeaf(n) THEN n.rack ELSE AsnOf(s, b, n.role)[n]
       /\ t.nodes[n].loopback = IF IsServer(n) THEN 0 ELSE LoopbackOf(s, b)[n]
  BY <1>1, <1>10
<1>15. NodeOK(t, n)
  <2>1. t.nodes[n].asn \in Nat /\ t.nodes[n].loopback \in Nat /\ t.nodes[n].net \in Nat
    BY <1>4, <1>6, <1>7, <1>8, <1>9, <1>11, <1>13, <1>14 DEF IsServer, IsLeaf
  <2>2. /\ n.role = "server" => t.nodes[n].asn = 0 /\ t.nodes[n].loopback = 0
        /\ n.role = "leaf" => t.nodes[n].asn = n.rack
        /\ n.rack = 0 => t.nodes[n].net = 0
    BY <1>11, <1>14 DEF IsServer, IsLeaf
  <2>3. n.rack # 0 => /\ first \in DOMAIN t.nodes /\ LeafOf(n, 2) \in DOMAIN t.nodes
                      /\ t.nodes[n].net = t.nodes[first].net
    BY <1>1, <1>3, <1>11, <1>12
  <2> QED BY <1>3, <1>14, <2>1, <2>2, <2>3 DEF NodeOK, first
<1>16. n \in DOMAIN b.nodes => t.nodes[n] = b.nodes[n]
  <2> SUFFICES ASSUME n \in DOMAIN b.nodes PROVE t.nodes[n] = b.nodes[n]
    OBVIOUS
  <2>1. NodeOK(b, n)
    BY DEF Sound
  <2>2. t.nodes[n].asn = b.nodes[n].asn
    BY <1>8, <1>14, <2>1 DEF NodeOK, IsServer, IsLeaf
  <2>3. t.nodes[n].loopback = b.nodes[n].loopback
    BY <1>7, <1>13, <1>14, <2>1 DEF NodeOK, IsServer
  <2>4. t.nodes[n].net = b.nodes[n].net
    <3>1. CASE n.rack = 0
      BY <3>1, <1>11, <2>1 DEF NodeOK
    <3>2. CASE n.rack # 0
      <4>1. first \in DOMAIN b.nodes /\ b.nodes[n].net = b.nodes[first].net
        BY <3>2, <2>1 DEF NodeOK, first
      <4> QED BY <3>2, <4>1, <1>6, <1>9, <1>11
    <3> QED BY <3>1, <3>2
  <2>5. b.nodes[n] = [asn |-> b.nodes[n].asn, loopback |-> b.nodes[n].loopback, net |-> b.nodes[n].net]
    BY <2>1 DEF NodeOK
  <2> QED BY <1>14, <2>2, <2>3, <2>4, <2>5
<1> QED BY <1>15, <1>16

\* What a build gives one node.
LEMMA NodeGiven ==
  ASSUME NEW s, NEW b, NEW t, t = Build(s, b), NEW n \in Range(Order(s, b))
  PROVE  /\ t.nodes[n].asn = IF IsServer(n) THEN 0 ELSE IF IsLeaf(n) THEN n.rack ELSE AsnOf(s, b, n.role)[n]
         /\ t.nodes[n].loopback = IF IsServer(n) THEN 0 ELSE LoopbackOf(s, b)[n]
         /\ t.nodes[n].net = IF n.rack = 0 THEN 0 ELSE RackNetOf(s, b)[FirstOf(n)]
<1>1. /\ DOMAIN t.nodes = Range(Order(s, b))
      /\ \A m \in Range(Order(s, b)) :
              /\ t.nodes[m] = [asn |-> t.nodes[m].asn, loopback |-> t.nodes[m].loopback, net |-> t.nodes[m].net]
              /\ t.nodes[m].asn = IF IsServer(m) THEN 0 ELSE IF IsLeaf(m) THEN m.rack ELSE AsnOf(s, b, m.role)[m]
              /\ t.nodes[m].loopback = IF IsServer(m) THEN 0 ELSE LoopbackOf(s, b)[m]
              /\ t.nodes[m].net = IF m.rack = 0 THEN 0 ELSE RackNetOf(s, b)[FirstOf(m)]
  BY Built
<1> QED BY <1>1

\* The ends of a link are two.
LEMMA EndsDiffer ==
  ASSUME NEW l, Linked(l[1], l[2])
  PROVE  l[1] # l[2] /\ EndAt(l, l[1]) = 1 /\ EndAt(l, l[2]) = 2
<1>1. l[1] # l[2]
  <2> DEFINE a == l[1] b == l[2]
  <2>1. Linked(a, b)
    OBVIOUS
  <2> HIDE DEF a, b
  <2>2. a # b
    BY <2>1 DEF Linked
  <2> QED BY <2>2 DEF a, b
<1> QED BY <1>1 DEF EndAt

\* A link of a build, and that it keeps what it had.
LEMMA LinkBuilt ==
  ASSUME NEW s, IsSpec(s), NEW b, Sound(b), NEW t, t = Build(s, b), NEW l \in Range(LinkOrder(s, b))
  PROVE  /\ LinkOK(t, l)
         /\ IsFabric(l) => t.links[l].net = SubnetOf(s, b)[l]
         /\ \A n : n \in {l[1], l[2]} => t.links[l].ifs[EndAt(l, n)] = IfsOf(s, b, n)[l]
         /\ l \in DOMAIN b.links => t.links[l] = b.links[l]
<1> DEFINE L == Range(LinkOrder(s, b)) x == l[1] y == l[2]
           net == IF IsFabric(l) THEN SubnetOf(s, b)[l] ELSE 0
           i == IfsOf(s, b, x)[l] j == IfsOf(s, b, y)[l]
<1>1. t.links[l] = [net |-> net, ifs |-> <<i, j>>]
  BY Built
<1>2. Linked(x, y)
  BY BuildOrder
<1>3. x # y /\ EndAt(l, x) = 1 /\ EndAt(l, y) = 2
  BY <1>2, EndsDiffer
<1>4. IsFabric(l) => net \in Nat /\ (l \in DOMAIN b.links => net = b.links[l].net)
  <2>1. /\ \A k \in FabricOf(L) : SubnetOf(s, b)[k] \in Nat
        /\ \A k \in FabricOf(L) : k \in DOMAIN b.links => SubnetOf(s, b)[k] = b.links[k].net
    BY SubnetsBuilt
  <2>2. IsFabric(l) => l \in FabricOf(L)
    BY DEF FabricOf
  <2> HIDE DEF L
  <2> QED BY <2>1, <2>2
<1>5. i \in Nat /\ (l \in DOMAIN b.links => i = b.links[l].ifs[1])
  <2>1. /\ \A k \in LinksAt(L, x) : IfsOf(s, b, x)[k] \in Nat
        /\ \A k \in LinksAt(L, x) : k \in DOMAIN b.links => IfsOf(s, b, x)[k] = b.links[k].ifs[EndAt(k, x)]
    <3> HIDE DEF x
    <3> QED BY IfsBuilt
  <2>2. l \in LinksAt(L, x)
    BY DEF LinksAt
  <2> HIDE DEF L, x
  <2> QED BY <1>3, <2>1, <2>2
<1>6. j \in Nat /\ (l \in DOMAIN b.links => j = b.links[l].ifs[2])
  <2>1. /\ \A k \in LinksAt(L, y) : IfsOf(s, b, y)[k] \in Nat
        /\ \A k \in LinksAt(L, y) : k \in DOMAIN b.links => IfsOf(s, b, y)[k] = b.links[k].ifs[EndAt(k, y)]
    <3> HIDE DEF y
    <3> QED BY IfsBuilt
  <2>2. l \in LinksAt(L, y)
    BY DEF LinksAt
  <2> HIDE DEF L, y
  <2> QED BY <1>3, <2>1, <2>2
<1>7. net \in Nat /\ (~IsFabric(l) => net = 0)
  BY <1>4
<1>8. IsFabric(l) => net = SubnetOf(s, b)[l]
  OBVIOUS
<1>9. l \in DOMAIN b.links => LinkOK(b, l)
  BY DEF Sound
<1>10. i = IfsOf(s, b, x)[l] /\ j = IfsOf(s, b, y)[l]
  OBVIOUS
<1> HIDE DEF L, net, i, j
<1>11. t.links[l].net = net /\ t.links[l].ifs = <<i, j>> /\ t.links[l].ifs[1] = i /\ t.links[l].ifs[2] = j
  BY <1>1
<1>12. LinkOK(t, l)
  <2>1. t.links[l] = [net |-> t.links[l].net, ifs |-> <<t.links[l].ifs[1], t.links[l].ifs[2]>>]
    BY <1>1, <1>11
  <2> QED BY <1>5, <1>6, <1>7, <1>11, <2>1 DEF LinkOK
<1>13. l \in DOMAIN b.links => t.links[l] = b.links[l]
  <2> SUFFICES ASSUME l \in DOMAIN b.links PROVE t.links[l] = b.links[l]
    OBVIOUS
  <2>1. i = b.links[l].ifs[1] /\ j = b.links[l].ifs[2]
    BY <1>5, <1>6
  <2>2. net = b.links[l].net
    BY <1>4, <1>7, <1>9 DEF LinkOK
  <2>3. b.links[l] = [net |-> b.links[l].net, ifs |-> <<b.links[l].ifs[1], b.links[l].ifs[2]>>]
    BY <1>9 DEF LinkOK
  <2> QED BY <1>1, <2>1, <2>2, <2>3
<1>14. \A n : n \in {x, y} => t.links[l].ifs[EndAt(l, n)] = IfsOf(s, b, n)[l]
  <2> HIDE DEF x, y
  <2>1. t.links[l].ifs[EndAt(l, x)] = IfsOf(s, b, x)[l]
    BY <1>3, <1>10, <1>11
  <2>2. t.links[l].ifs[EndAt(l, y)] = IfsOf(s, b, y)[l]
    BY <1>3, <1>10, <1>11
  <2> QED BY <2>1, <2>2
<1> QED BY <1>8, <1>11, <1>12, <1>13, <1>14

\* A build keeps what survives.
LEMMA BuildKeeps ==
  ASSUME NEW s, IsSpec(s), NEW b, Sound(b)
  PROVE  Keeps(b, Build(s, b))
<1> DEFINE t == Build(s, b)
<1>1. DOMAIN t.nodes = Range(Order(s, b)) /\ DOMAIN t.links = Range(LinkOrder(s, b))
  BY Built
<1>2. t = Build(s, b)
  OBVIOUS
<1> HIDE DEF t
<1>3. \A n \in DOMAIN b.nodes \cap DOMAIN t.nodes : t.nodes[n] = b.nodes[n]
  BY <1>1, <1>2, NodeBuilt
<1>4. \A l \in DOMAIN b.links \cap DOMAIN t.links : t.links[l] = b.links[l]
  BY <1>1, <1>2, LinkBuilt
<1> QED BY <1>3, <1>4 DEF Keeps, t

\* A build is sound when what it is built on is.
LEMMA BuildIsSound ==
  ASSUME NEW s, IsSpec(s), NEW b, Sound(b)
  PROVE  Sound(Build(s, b))
<1> DEFINE t == Build(s, b) N == Range(Order(s, b)) L == Range(LinkOrder(s, b))
<1>0. t = Build(s, b)
  OBVIOUS
<1>1. DOMAIN t.nodes = N /\ DOMAIN t.links = L
  BY Built
<1>2. /\ Order(s, b) \in Seq(Nodes) /\ N = NodeSet(s, RackNums(s, b))
      /\ \A l : l \in L <=> l \in N \X N /\ Linked(l[1], l[2])
  BY BuildOrder
<1>3. IsFiniteSet(N)
  BY <1>2, RangeIsFinite
<1> HIDE DEF t
<1>4. \A n \in N : NodeOK(t, n)
  BY <1>0, NodeBuilt
<1>5. \A l \in L : LinkOK(t, l)
  BY <1>0, LinkBuilt
<1>6. \A n \in N :
              /\ t.nodes[n].asn = IF IsServer(n) THEN 0 ELSE IF IsLeaf(n) THEN n.rack ELSE AsnOf(s, b, n.role)[n]
              /\ t.nodes[n].loopback = IF IsServer(n) THEN 0 ELSE LoopbackOf(s, b)[n]
              /\ t.nodes[n].net = IF n.rack = 0 THEN 0 ELSE RackNetOf(s, b)[FirstOf(n)]
  BY <1>0, NodeGiven
<1>7. Unshared(t)
  <2>1. \A n, m \in Routers(N) : n # m => t.nodes[n].loopback # t.nodes[m].loopback
    <3>1. Distinctly(LoopbackOf(s, b), Routers(N))
      BY LoopbacksBuilt
    <3>2. \A n \in Routers(N) : t.nodes[n].loopback = LoopbackOf(s, b)[n]
      BY <1>6 DEF Routers
    <3> QED BY <3>1, <3>2 DEF Distinctly
  <2>2. \A n, m \in Routers(N) : n # m /\ n.role = m.role /\ ~IsLeaf(n) => t.nodes[n].asn # t.nodes[m].asn
    <3> SUFFICES ASSUME NEW n \in Routers(N), NEW m \in Routers(N), n # m, n.role = m.role, ~IsLeaf(n)
                 PROVE  t.nodes[n].asn # t.nodes[m].asn
      OBVIOUS
    <3> DEFINE role == n.role
    <3>1. role # "leaf" /\ role # "server" /\ n \in Having(N, role) /\ m \in Having(N, role) /\ n \in N /\ m \in N
      BY DEF Routers, IsLeaf, IsServer, Having
    <3>2. t.nodes[n].asn = AsnOf(s, b, role)[n] /\ t.nodes[m].asn = AsnOf(s, b, role)[m]
      BY <1>6, <3>1 DEF IsLeaf, IsServer
    <3> HIDE DEF role, N
    <3>3. Distinctly(AsnOf(s, b, role), Having(N, role))
      BY <3>1, AsnsBuilt DEF N
    <3> QED BY <3>1, <3>2, <3>3 DEF Distinctly
  <2>3. \A n, m \in FirstLeaves(N) : n # m => t.nodes[n].net # t.nodes[m].net
    <3>1. Distinctly(RackNetOf(s, b), FirstLeaves(N))
      BY RackNetsBuilt
    <3>2. \A n \in FirstLeaves(N) : t.nodes[n].net = RackNetOf(s, b)[n]
      <4> TAKE n \in FirstLeaves(N)
      <4>1. n \in N /\ n.role = "leaf" /\ n.i = 1
        BY DEF FirstLeaves, IsLeaf
      <4>2. n \in Nodes /\ n.rack # 0
        BY <1>4, <4>1 DEF NodeOK
      <4>3. n = [role |-> n.role, pod |-> n.pod, rack |-> n.rack, i |-> n.i]
        BY <4>2 DEF Nodes
      <4>4. LeafOf(n, 1) = n
        BY <4>1, <4>3 DEF LeafOf, Node
      <4>5. FirstOf(n) = n
        BY <4>2, <4>4, FirstOfRack
      <4> QED BY <1>6, <4>1, <4>2, <4>5
    <3> QED BY <3>1, <3>2 DEF Distinctly
  <2>4. \A l, k \in FabricOf(L) : l # k => t.links[l].net # t.links[k].net
    <3>1. Distinctly(SubnetOf(s, b), FabricOf(L))
      BY SubnetsBuilt
    <3>2. \A l \in FabricOf(L) : t.links[l].net = SubnetOf(s, b)[l]
      BY <1>0, LinkBuilt DEF FabricOf
    <3> QED BY <3>1, <3>2 DEF Distinctly
  <2>5. \A n \in N : \A l, k \in LinksAt(L, n) :
          l # k => t.links[l].ifs[EndAt(l, n)] # t.links[k].ifs[EndAt(k, n)]
    <3> TAKE n \in N
    <3>1. Distinctly(IfsOf(s, b, n), LinksAt(L, n))
      BY IfsBuilt
    <3>2. \A l \in LinksAt(L, n) : t.links[l].ifs[EndAt(l, n)] = IfsOf(s, b, n)[l]
      BY <1>0, LinkBuilt DEF LinksAt
    <3> QED BY <3>1, <3>2 DEF Distinctly
  <2>6. \A n, m \in Having(N, "leaf") : n.rack = m.rack => n.pod = m.pod
    BY <1>2, RackOfOnePod DEF Having
  <2> HIDE DEF N, L
  <2> QED BY <1>1, <2>1, <2>2, <2>3, <2>4, <2>5, <2>6 DEF Unshared
<1> HIDE DEF N, L
<1>8. \A l : l \in DOMAIN t.links <=> l \in (DOMAIN t.nodes) \X (DOMAIN t.nodes) /\ Linked(l[1], l[2])
  BY <1>1, <1>2, Zenon
<1>9. IsFiniteSet(DOMAIN t.nodes)
  BY <1>1, <1>3
<1>10. \A n \in DOMAIN t.nodes : NodeOK(t, n)
  BY <1>1, <1>4
<1>11. \A l \in DOMAIN t.links : LinkOK(t, l)
  BY <1>1, <1>5
<1>12. Sound(t)
  BY <1>7, <1>8, <1>9, <1>10, <1>11, Zenon DEF Sound
<1> QED BY <1>12 DEF t

----------------------------------------------------------------------------
(* Plans and generations *)

\* What a build never loses, whatever was scaled, rolled back or failed.
History ==
  /\ snaps \in Seq(Range(snaps)) /\ gen \in 0 .. Len(snaps)
  /\ \A g \in 1 .. Len(snaps) : snaps[g].spec \in Specs /\ Sound(snaps[g].topo)
ScaledFromDeployed == plan = "scale" /\ gen # 0 => Keeps(Deployed, desired)
FInv == spec \in Specs /\ Sound(desired) /\ History /\ ScaledFromDeployed

\* Two sound topologies differ in a link only where they differ in a node: a
\* scale operation never removes a link between survivors.
LEMMA SoundIsSupported ==
  ASSUME NEW b, Sound(b), NEW t, Sound(t)
  PROVE  Supported(b, t)
<1> DEFINE N == DOMAIN t.nodes
<1>1. \A l : l \in DOMAIN t.links <=> l \in N \X N /\ Linked(l[1], l[2])
  BY DEF Sound
<1>2. \A l \in DOMAIN b.links : l = <<l[1], l[2]>> /\ Linked(l[1], l[2])
  BY LinkEnds
<1> HIDE DEF N
<1>3. ASSUME NEW l \in DOMAIN b.links \ DOMAIN t.links, {l[1], l[2]} \subseteq N PROVE FALSE
  <2>1. <<l[1], l[2]>> \in N \X N
    BY <1>3
  <2>2. l \in N \X N /\ Linked(l[1], l[2])
    BY <2>1, <1>2
  <2> QED BY <1>1, <1>3, <2>2, Zenon
<1> QED BY <1>3 DEF Supported, N

\* A node whose links are the same has the same leaves and servers beside it.
LEMMA SameRack ==
  ASSUME NEW b, Sound(b), NEW t, Sound(t), NEW n \in DOMAIN b.nodes, n \in DOMAIN t.nodes,
         \A l \in DOMAIN t.links : n \in {l[1], l[2]} => l \in DOMAIN b.links,
         NEW m \in DOMAIN t.nodes, m.pod = n.pod, m.rack = n.rack, m # n,
         IsLeaf(m) \/ (IsServer(m) /\ ~IsServer(n))
  PROVE  m \in DOMAIN b.nodes
<1> DEFINE N == DOMAIN t.nodes
<1>1. \A l : l \in DOMAIN t.links <=> l \in N \X N /\ Linked(l[1], l[2])
  BY DEF Sound
<1>2. n \in N /\ m \in N
  OBVIOUS
<1>3. NodeOK(t, n) /\ NodeOK(t, m)
  BY DEF Sound
<1>4. n = [role |-> n.role, pod |-> n.pod, rack |-> n.rack, i |-> n.i]
  BY <1>3 DEF NodeOK, Nodes
<1>5. m = [role |-> m.role, pod |-> m.pod, rack |-> m.rack, i |-> m.i]
  BY <1>3 DEF NodeOK, Nodes
<1>6. n.role \in {"leaf", "server"}
  BY <1>3 DEF NodeOK, IsLeaf, IsServer
<1>7. Linked(n, m) \/ Linked(m, n)
  <2>1. CASE IsServer(m)
    BY <2>1, <1>6 DEF IsServer, IsLeaf, Linked
  <2>2. CASE IsLeaf(m) /\ n.role = "server"
    BY <2>2 DEF IsLeaf, Linked
  <2>3. CASE IsLeaf(m) /\ n.role = "leaf"
    <3>1. n.i # m.i
      BY <1>4, <1>5, <2>3 DEF IsLeaf
    <3>2. n.i \in {1, 2} /\ m.i \in {1, 2}
      BY <1>3, <2>3 DEF NodeOK, IsLeaf
    <3> QED BY <2>3, <3>1, <3>2 DEF IsLeaf, Linked
  <2> QED BY <1>6, <2>1, <2>2, <2>3
<1> HIDE DEF N
<1>8. \A x, y \in N : Linked(x, y) => <<x, y>> \in DOMAIN t.links
  <2> TAKE x \in N, y \in N
  <2> DEFINE l == <<x, y>>
  <2>1. l \in N \X N /\ l[1] = x /\ l[2] = y
    OBVIOUS
  <2> HIDE DEF l
  <2>2. Linked(x, y) => l \in DOMAIN t.links
    BY <1>1, <2>1
  <2> QED BY <2>2 DEF l
<1>9. PICK x, y : /\ <<x, y>> \in DOMAIN t.links
                  /\ (x = n /\ y = m) \/ (x = m /\ y = n)
  BY <1>2, <1>7, <1>8
<1> DEFINE l == <<x, y>>
<1>10. l[1] = x /\ l[2] = y
  OBVIOUS
<1>11. l \in DOMAIN b.links
  BY <1>9, <1>10
<1> HIDE DEF l
<1>12. l[1] \in DOMAIN b.nodes /\ l[2] \in DOMAIN b.nodes
  BY <1>11, LinkEnds
<1> QED BY <1>9, <1>10, <1>12

\* A survivor that a plan does not list keeps its running configuration.
LEMMA UnlistedKeepsConf ==
  ASSUME NEW b, Sound(b), NEW t, Sound(t), Keeps(b, t),
         NEW n \in DOMAIN b.nodes \cap DOMAIN t.nodes, n \notin Updates(b, t)
  PROVE  Conf(b, n) = Conf(t, n)
<1>1. b.nodes[n] = t.nodes[n] /\ n \notin Touched(b, t)
  BY DEF Updates
<1>2. \A l : n \in {l[1], l[2]} => (l \in DOMAIN b.links <=> l \in DOMAIN t.links)
  BY <1>1 DEF Touched
<1>3. At(b, n) = At(t, n)
  BY <1>2 DEF At
<1>4. \A l \in At(t, n) : /\ t.links[l] = b.links[l]
                          /\ Other(l, n) \in DOMAIN b.nodes \cap DOMAIN t.nodes
  <2> TAKE l \in At(t, n)
  <2>1. l \in DOMAIN b.links \cap DOMAIN t.links
    BY <1>3 DEF At
  <2>2. l[1] \in DOMAIN b.nodes /\ l[2] \in DOMAIN b.nodes /\ l[1] \in DOMAIN t.nodes /\ l[2] \in DOMAIN t.nodes
    BY <2>1, LinkEnds
  <2> QED BY <2>1, <2>2 DEF Keeps, Other
<1>5. \A l \in At(t, n) : t.nodes[Other(l, n)] = b.nodes[Other(l, n)]
  BY <1>4 DEF Keeps
<1> DEFINE neighbor(x, l) == [if |-> x.links[l].ifs[EndAt(l, n)], net |-> x.links[l].net,
                              peer |-> Other(l, n), asn |-> x.nodes[Other(l, n)].asn]
           neighbors(x) == {neighbor(x, l) : l \in {k \in At(x, n) : IsFabric(k)}}
           beside(x) == {k \in DOMAIN x.nodes : IsLeaf(k) /\ k # n /\ k.pod = n.pod /\ k.rack = n.rack}
           rack(x) == {[peer |-> m, spec |-> x.nodes[m]] : m \in beside(x)}
           group(x) == \E m \in DOMAIN x.nodes : IsServer(m) /\ m.pod = n.pod /\ m.rack = n.rack
<1>6. neighbors(b) = neighbors(t)
  <2>1. \A l \in At(t, n) : neighbor(b, l) = neighbor(t, l)
    BY <1>4, <1>5
  <2> HIDE DEF neighbor
  <2> QED BY <1>3, <2>1
<1>7. beside(b) = beside(t)
  <2>1. ASSUME NEW m \in beside(t) PROVE m \in DOMAIN b.nodes
    BY <1>2, <2>1, SameRack
  <2>2. ASSUME NEW m \in beside(b) PROVE m \in DOMAIN t.nodes
    BY <1>2, <2>2, SameRack
  <2> QED BY <2>1, <2>2
<1>8. rack(b) = rack(t)
  <2>1. \A m \in beside(t) : m \in DOMAIN b.nodes \cap DOMAIN t.nodes
    BY <1>7
  <2>2. \A m \in beside(t) : t.nodes[m] = b.nodes[m]
    BY <2>1 DEF Keeps
  <2> HIDE DEF beside
  <2> QED BY <1>7, <2>2
<1>9. group(b) <=> group(t)
  <2>1. CASE IsServer(n)
    BY <2>1
  <2>2. CASE ~IsServer(n)
    <3>1. ASSUME NEW m \in DOMAIN t.nodes, IsServer(m), m.pod = n.pod, m.rack = n.rack PROVE m \in DOMAIN b.nodes
      <4>1. m # n
        BY <2>2, <3>1
      <4> QED BY <1>2, <2>2, <3>1, <4>1, SameRack
    <3>2. ASSUME NEW m \in DOMAIN b.nodes, IsServer(m), m.pod = n.pod, m.rack = n.rack PROVE m \in DOMAIN t.nodes
      <4>1. m # n
        BY <2>2, <3>2
      <4> QED BY <1>2, <2>2, <3>2, <4>1, SameRack
    <3> QED BY <3>1, <3>2
  <2> QED BY <2>1, <2>2
<1>g. group(b) = group(t)
  BY <1>9
<1>10. \A x : Conf(x, n) = [self |-> x.nodes[n], neighbors |-> neighbors(x), rack |-> rack(x), group |-> group(x)]
  BY DEF Conf
<1> HIDE DEF neighbors, rack, group
<1>11. [self |-> b.nodes[n], neighbors |-> neighbors(b), rack |-> rack(b), group |-> group(b)]
       = [self |-> t.nodes[n], neighbors |-> neighbors(t), rack |-> rack(t), group |-> group(t)]
  BY <1>1, <1>6, <1>8, <1>g
<1> QED BY <1>10, <1>11

\* The preview of a plan that keeps what survives is complete.
LEMMA PreviewCovers ==
  ASSUME NEW b, Sound(b), NEW t, Sound(t), Keeps(b, t)
  PROVE  Increment(b, t).reload \subseteq Updates(b, t)
<1>1. Increment(b, t).reload = {n \in DOMAIN b.nodes \cap DOMAIN t.nodes : Conf(b, n) # Conf(t, n)}
  BY DEF Increment
<1>2. \A n \in DOMAIN b.nodes \cap DOMAIN t.nodes : n \notin Updates(b, t) => Conf(b, n) = Conf(t, n)
  BY UnlistedKeepsConf
<1> QED BY <1>1, <1>2

\* What is deployed is sound.
LEMMA DeployedIsSound ==
  ASSUME FInv
  PROVE  Sound(Deployed)
<1>1. CASE gen = 0
  BY <1>1, NothingIsSound DEF Deployed
<1>2. CASE gen # 0
  <2>1. Len(snaps) \in Nat /\ gen \in 1 .. Len(snaps)
    BY <1>2 DEF FInv, History
  <2> QED BY <1>2, <2>1 DEF Deployed, FInv, History
<1> QED BY <1>1, <1>2

\* Saving a generation drops the newer ones and leaves the older ones alone.
LEMMA SaveKeepsHistory ==
  ASSUME FInv, SaveGeneration, gen' = gen \/ gen' = gen + 1
  PROVE  History' /\ (gen' = gen => Deployed' = Deployed)
<1> DEFINE r == [spec |-> spec, topo |-> desired] S == Range(snaps) \cup {r}
           old == SubSeq(snaps, 1, gen) new == Append(old, r) n == Len(snaps)
<1>1. snaps \in Seq(S) /\ n \in Nat /\ gen \in 0 .. n /\ gen \in Nat /\ gen <= n
  <2>1. snaps \in Seq(Range(snaps)) /\ gen \in 0 .. n
    BY DEF FInv, History
  <2> DEFINE R == Range(snaps)
  <2>2. snaps \in Seq(R)
    BY <2>1
  <2> HIDE DEF r, R
  <2>3. snaps \in Seq(R \cup {r}) /\ n \in Nat
    BY <2>2
  <2> QED BY <2>1, <2>3 DEF R
<1>2. snaps' = new
  BY DEF SaveGeneration
<1>3. r \in S
  OBVIOUS
<1>4. r.spec \in Specs /\ Sound(r.topo)
  BY DEF FInv
<1> HIDE DEF S, r
<1>5. old \in Seq(S) /\ Len(old) = gen /\ \A g \in 1 .. gen : old[g] = snaps[g]
  BY <1>1
<1> HIDE DEF old
<1>6. new \in Seq(S) /\ Len(new) = gen + 1 /\ new[gen + 1] = r /\ \A g \in 1 .. gen : new[g] = snaps[g]
  BY <1>1, <1>3, <1>5
<1> HIDE DEF new
<1>7. snaps' \in Seq(Range(snaps'))
  <2> DEFINE q == snaps'
  <2>1. q \in Seq(S)
    BY <1>2, <1>6
  <2> HIDE DEF q
  <2>2. q \in Seq(Range(q))
    BY <2>1 DEF Range
  <2> QED BY <2>2 DEF q
<1>8. gen' \in 0 .. Len(snaps')
  BY <1>1, <1>2, <1>6
<1>9. \A g \in 1 .. Len(snaps') : snaps'[g].spec \in Specs /\ Sound(snaps'[g].topo)
  <2> TAKE g \in 1 .. Len(snaps')
  <2>1. g \in 1 .. gen \/ g = gen + 1
    BY <1>1, <1>2, <1>6
  <2>2. CASE g \in 1 .. gen
    <3>1. g \in 1 .. n /\ snaps'[g] = snaps[g]
      BY <1>1, <1>2, <1>6, <2>2
    <3> QED BY <3>1 DEF FInv, History
  <2>3. CASE g = gen + 1
    BY <1>2, <1>4, <1>6, <2>3
  <2> QED BY <2>1, <2>2, <2>3
<1>10. gen' = gen => Deployed' = Deployed
  <2>1. gen # 0 => snaps'[gen] = snaps[gen]
    BY <1>1, <1>2, <1>6
  <2> QED BY <2>1 DEF Deployed
<1> QED BY <1>7, <1>8, <1>9, <1>10 DEF History

\* A build on what is deployed keeps what survives of it.
LEMMA PlanIsSound ==
  ASSUME FInv
  PROVE  Sound(Build(spec, Deployed)) /\ Keeps(Deployed, Build(spec, Deployed))
<1>1. spec \in Specs
  BY DEF FInv
<1>2. IsSpec(spec)
  BY <1>1, ScalingAssumptions
<1>3. Sound(Deployed)
  BY DeployedIsSound
<1> QED BY <1>2, <1>3, BuildIsSound, BuildKeeps

\* At first nothing is deployed, and nothing is sound.
LEMMA InitFInv == Init => FInv
<1> SUFFICES ASSUME Init PROVE FInv
  OBVIOUS
<1>1. spec \in Specs /\ desired = Nothing /\ snaps = <<>> /\ gen = 0 /\ plan = "none"
  BY DEF Init
<1>2. Sound(desired)
  BY <1>1, NothingIsSound
<1>3. History
  BY <1>1 DEF History
<1> QED BY <1>1, <1>2, <1>3 DEF FInv, ScaledFromDeployed

\* One step per action: a plan takes a build on what is deployed or a saved
\* topology, an apply saves the plan's, the rest leave the documents alone.
LEMMA NextFInv == FInv /\ [Next]_vars => FInv'
<1> SUFFICES ASSUME FInv, [Next]_vars PROVE FInv'
  OBVIOUS
<1>0. spec \in Specs /\ Sound(desired) /\ History /\ ScaledFromDeployed
  BY DEF FInv
<1>k. ASSUME UNCHANGED <<gen, snaps>> PROVE History' /\ Deployed' = Deployed
  BY <1>0, <1>k DEF History, Deployed
<1>1. ASSUME NEW s \in Specs, UpdateTopology(s) PROVE FInv'
  <2>1. UNCHANGED <<gen, snaps>> /\ spec' = s /\ desired' = desired /\ plan' = plan
    BY <1>1 DEF UpdateTopology
  <2>2. History' /\ Deployed' = Deployed
    BY <1>k, <2>1
  <2> QED BY <1>0, <2>1, <2>2 DEF FInv, ScaledFromDeployed
<1>2. CASE CreatePlan
  <2>1. /\ UNCHANGED <<gen, snaps>> /\ spec' = spec
        /\ desired' = Build(spec, Deployed) /\ plan' = "scale"
    BY <1>2 DEF CreatePlan, ReplaceTopology
  <2>2. History' /\ Deployed' = Deployed
    BY <1>k, <2>1
  <2>3. Sound(desired') /\ Keeps(Deployed, desired')
    BY <2>1, PlanIsSound
  <2> QED BY <1>0, <2>1, <2>2, <2>3 DEF FInv, ScaledFromDeployed
<1>3. ASSUME NEW g \in DOMAIN snaps, CreateRollbackPlan(g) PROVE FInv'
  <2>1. /\ UNCHANGED <<gen, snaps>> /\ spec' = snaps[g].spec
        /\ desired' = snaps[g].topo /\ plan' = "rollback"
    BY <1>3 DEF CreateRollbackPlan, ReplaceTopology
  <2>2. History' /\ Deployed' = Deployed
    BY <1>k, <2>1
  <2>3. snaps[g].spec \in Specs /\ Sound(snaps[g].topo)
    <3>1. g \in 1 .. Len(snaps)
      BY <1>0 DEF History
    <3> QED BY <1>0, <3>1 DEF History
  <2> QED BY <2>1, <2>2, <2>3 DEF FInv, ScaledFromDeployed
<1>a. ASSUME NEW x, Applied(x) PROVE FInv'
  <2>1. /\ SaveGeneration /\ gen' = gen + 1 /\ plan' = "none"
        /\ spec' = spec /\ desired' = desired
    BY <1>a DEF Applied
  <2>2. History'
    BY <2>1, SaveKeepsHistory
  <2> QED BY <1>0, <2>1, <2>2 DEF FInv, ScaledFromDeployed
<1>4. CASE ApplyFull
  BY <1>4, <1>a DEF ApplyFull
<1>5. CASE ApplyIncrement
  BY <1>5, <1>a DEF ApplyIncrement
<1>6. CASE ApplyFails
  <2>1. SaveGeneration /\ gen' = gen /\ plan' = plan /\ spec' = spec /\ desired' = desired
    BY <1>6 DEF ApplyFails
  <2>2. History' /\ Deployed' = Deployed
    BY <2>1, SaveKeepsHistory
  <2> QED BY <1>0, <2>1, <2>2 DEF FInv, ScaledFromDeployed
<1>7. CASE RepairLab \/ NamespacesGone \/ UNCHANGED vars
  <2>1. UNCHANGED <<gen, snaps>> /\ spec' = spec /\ desired' = desired /\ plan' = plan
    BY <1>7 DEF RepairLab, NamespacesGone, vars
  <2>2. History' /\ Deployed' = Deployed
    BY <1>k, <2>1
  <2> QED BY <1>0, <2>1, <2>2 DEF FInv, ScaledFromDeployed
<1> QED BY <1>1, <1>2, <1>3, <1>4, <1>5, <1>6, <1>7 DEF Next

(***************************************************************************)
(* The desired topology and every saved generation are sound: as many as   *)
(* are scaled out and in, rolled back to and rebuilt (SaveGeneration).     *)
(***************************************************************************)
THEOREM HistoryIsSound == Spec => []FInv
BY InitFInv, NextFInv, PTL DEF Spec

----------------------------------------------------------------------------
(* The steps of a deploy *)

\* The runtime as a record.
Shape(x) ==
  /\ x = [up |-> x.up, wires |-> x.wires, stale |-> x.stale, ports |-> x.ports, conf |-> x.conf]
  /\ x.ports = [n \in x.up |-> x.ports[n]]
  /\ x.conf = [n \in x.up |-> x.conf[n]]

\* A wire with an end at one of the nodes.
Touches(w, nodes) == \E e \in w : e[1] \in nodes

\* What each step of a deploy does to the runtime, field by field.
LEMMA DropPortsIs ==
  ASSUME NEW x, Shape(x), NEW ends, NEW y, y = DropPorts(x, ends)
  PROVE  /\ Shape(y) /\ y.up = x.up /\ y.wires = x.wires /\ y.stale = x.stale /\ y.conf = x.conf
         /\ \A n \in x.up : y.ports[n] = {i \in x.ports[n] : <<n, i>> \notin ends}
<1> DEFINE p == [n \in x.up |-> {i \in x.ports[n] : <<n, i>> \notin ends}]
<1>1. y = [x EXCEPT !.ports = p]
  BY DEF DropPorts
<1>2. p = [n \in x.up |-> p[n]] /\ \A n \in x.up : p[n] = {i \in x.ports[n] : <<n, i>> \notin ends}
  OBVIOUS
<1> HIDE DEF p
<1>3. y = [up |-> x.up, wires |-> x.wires, stale |-> x.stale, ports |-> p, conf |-> x.conf]
  BY <1>1 DEF Shape
<1> QED BY <1>2, <1>3 DEF Shape

\* Removing containers takes their wires, and the other ends linger.
LEMMA RemoveNodesIs ==
  ASSUME NEW x, Shape(x), NEW nodes, NEW y, y = RemoveNodes(x, nodes)
  PROVE  /\ Shape(y) /\ y.up = x.up \ nodes
         /\ \A w : w \in y.wires <=> w \in x.wires /\ ~Touches(w, nodes)
         /\ \A e : e \in y.stale <=>
              e[1] \in y.up /\ (e \in x.stale \/ \E w \in x.wires : e \in w /\ Touches(w, nodes))
         /\ \A n \in y.up : y.ports[n] = x.ports[n] /\ y.conf[n] = x.conf[n]
<1> DEFINE dead == {w \in x.wires : Touches(w, nodes)}
           kept == x.up \ nodes
           s == {e \in x.stale \cup UNION dead : e[1] \in kept}
           p == [n \in kept |-> x.ports[n]]
           c == [n \in kept |-> x.conf[n]]
           v == x.wires \ dead
<1>1. y = [up |-> kept, wires |-> v, stale |-> s, ports |-> p, conf |-> c]
  BY DEF RemoveNodes, Touches
<1>2. p = [n \in kept |-> p[n]] /\ c = [n \in kept |-> c[n]] /\ \A n \in kept : p[n] = x.ports[n] /\ c[n] = x.conf[n]
  OBVIOUS
<1>3. \A w : w \in v <=> w \in x.wires /\ ~Touches(w, nodes)
  OBVIOUS
<1>4. \A e : e \in s <=> e[1] \in kept /\ (e \in x.stale \/ \E w \in x.wires : e \in w /\ Touches(w, nodes))
  OBVIOUS
<1>5. kept = x.up \ nodes
  OBVIOUS
<1> HIDE DEF p, c, kept, v, s, dead
<1>6. y.up = kept /\ y.wires = v /\ y.stale = s /\ y.ports = p /\ y.conf = c
  BY <1>1
<1>7. Shape(y)
  BY <1>1, <1>2, <1>6 DEF Shape
<1> QED BY <1>2, <1>3, <1>4, <1>5, <1>6, <1>7

\* Creating containers removes what was left of them first.
LEMMA CreateNodesIs ==
  ASSUME NEW x, Shape(x), NEW t, NEW nodes, NEW y, y = CreateNodes(x, t, nodes)
  PROVE  /\ Shape(y) /\ y.up = x.up \cup nodes
         /\ y.wires = RemoveNodes(x, nodes).wires /\ y.stale = RemoveNodes(x, nodes).stale
         /\ \A n \in y.up : /\ n \in nodes => y.ports[n] = {} /\ y.conf[n] = Conf(t, n)
                            /\ n \notin nodes => y.ports[n] = x.ports[n] /\ y.conf[n] = x.conf[n]
<1> DEFINE z == RemoveNodes(x, nodes)
           up == z.up \cup nodes
           p == [n \in up |-> IF n \in nodes THEN {} ELSE z.ports[n]]
           c == [n \in up |-> IF n \in nodes THEN Conf(t, n) ELSE z.conf[n]]
           z1 == [z EXCEPT !.up = up]
           z2 == [z1 EXCEPT !.ports = p]
           z3 == [z2 EXCEPT !.conf = c]
<1>1. Shape(z) /\ z.up = x.up \ nodes /\ \A n \in z.up : z.ports[n] = x.ports[n] /\ z.conf[n] = x.conf[n]
  BY RemoveNodesIs
<1>2. y = z3
  BY DEF CreateNodes
<1>3. /\ p = [n \in up |-> p[n]] /\ c = [n \in up |-> c[n]]
      /\ \A n \in up : /\ n \in nodes => p[n] = {} /\ c[n] = Conf(t, n)
                       /\ n \notin nodes => p[n] = z.ports[n] /\ c[n] = z.conf[n]
  OBVIOUS
<1>4. up = x.up \cup nodes /\ \A n \in up : n \notin nodes => n \in z.up
  BY <1>1
<1> HIDE DEF z, up, p, c
<1>5. z3 = [up |-> up, wires |-> z.wires, stale |-> z.stale, ports |-> p, conf |-> c]
  <2>1. z1 = [up |-> up, wires |-> z.wires, stale |-> z.stale, ports |-> z.ports, conf |-> z.conf]
    BY <1>1 DEF Shape
  <2> HIDE DEF z1
  <2>2. z2 = [up |-> up, wires |-> z.wires, stale |-> z.stale, ports |-> p, conf |-> z.conf]
    BY <2>1
  <2> HIDE DEF z2
  <2> QED BY <2>2
<1>6. y.up = up /\ y.wires = z.wires /\ y.stale = z.stale /\ y.ports = p /\ y.conf = c
  BY <1>2, <1>5
<1>7. Shape(y)
  BY <1>2, <1>3, <1>5, <1>6 DEF Shape
<1> QED BY <1>1, <1>3, <1>4, <1>6, <1>7 DEF z

\* Freeing ends takes the wires that hold one.
LEMMA FreeEndsIs ==
  ASSUME NEW x, Shape(x), NEW ends, NEW y, y = FreeEnds(x, ends)
  PROVE  /\ Shape(y) /\ y.up = x.up /\ y.conf = x.conf
         /\ \A w : w \in y.wires <=> w \in x.wires /\ w \cap ends = {}
         /\ \A e : e \in y.stale <=> e \in x.stale /\ e \notin ends
         /\ \A n \in x.up : \A i : i \in y.ports[n] <=>
              /\ i \in x.ports[n] /\ <<n, i>> \notin ends
              /\ \A w \in x.wires : <<n, i>> \in w => w \cap ends = {}
<1> DEFINE dead == {w \in x.wires : w \cap ends # {}}
           gone == (UNION dead) \cup ends
           z == DropPorts(x, gone)
           v == x.wires \ dead
           s == x.stale \ ends
<1>1. /\ Shape(z) /\ z.up = x.up /\ z.wires = x.wires /\ z.stale = x.stale /\ z.conf = x.conf
      /\ \A n \in x.up : z.ports[n] = {i \in x.ports[n] : <<n, i>> \notin gone}
  <2> HIDE DEF gone
  <2> QED BY DropPortsIs
<1>3. \A w : w \in v <=> w \in x.wires /\ w \cap ends = {}
  OBVIOUS
<1>4. \A e : e \in s <=> e \in x.stale /\ e \notin ends
  OBVIOUS
<1>5. \A e : e \notin gone <=> e \notin ends /\ \A w \in x.wires : e \in w => w \cap ends = {}
  <2>1. \A e : e \in gone <=> e \in ends \/ \E w \in x.wires : e \in w /\ w \cap ends # {}
    OBVIOUS
  <2> HIDE DEF gone
  <2> QED BY <2>1
<1>9. y = [up |-> x.up, wires |-> v, stale |-> s, ports |-> z.ports, conf |-> x.conf]
  <2> DEFINE v1 == z.wires \ dead
             s1 == z.stale \ ends
             q1 == [z EXCEPT !.wires = v1]
             q == [q1 EXCEPT !.stale = s1]
  <2>0. y = q
    BY DEF FreeEnds
  <2> HIDE DEF z, dead
  <2>5. v1 = v /\ s1 = s
    BY <1>1
  <2> HIDE DEF v1, s1, v, s
  <2>6. q1 = [up |-> x.up, wires |-> v1, stale |-> x.stale, ports |-> z.ports, conf |-> x.conf]
    BY <1>1 DEF Shape
  <2> HIDE DEF q1
  <2> QED BY <2>0, <2>5, <2>6
<1> HIDE DEF z, s, v, gone
<1>10. y.up = x.up /\ y.wires = v /\ y.stale = s /\ y.ports = z.ports /\ y.conf = x.conf
  BY <1>9
<1>11. Shape(y)
  BY <1>1, <1>9, <1>10 DEF Shape
<1>12. \A n \in x.up : \A i : i \in y.ports[n] <=>
              /\ i \in x.ports[n] /\ <<n, i>> \notin ends
              /\ \A w \in x.wires : <<n, i>> \in w => w \cap ends = {}
  BY <1>1, <1>5, <1>10
<1> QED BY <1>3, <1>4, <1>10, <1>11, <1>12

\* Creating veth pairs frees their ends first, so all of them are made.
LEMMA CreateVethsIs ==
  ASSUME NEW x, Shape(x), NEW t, NEW links, NEW y, y = CreateVeths(x, t, links)
  PROVE  /\ Shape(y) /\ y.up = x.up /\ y.conf = x.conf
         /\ \A w : w \in y.wires <=>
              w \in NewEnds(t, links) \/ (w \in x.wires /\ w \cap UNION NewEnds(t, links) = {})
         /\ \A e : e \in y.stale <=> e \in x.stale /\ e \notin UNION NewEnds(t, links)
         /\ \A n \in x.up : \A i : i \in y.ports[n] <=>
              /\ i \in x.ports[n] /\ <<n, i>> \notin UNION NewEnds(t, links)
              /\ \A w \in x.wires : <<n, i>> \in w => w \cap UNION NewEnds(t, links) = {}
<1> DEFINE new == NewEnds(t, links) ends == UNION new z == FreeEnds(x, ends)
           made == {w \in new : w \cap (z.stale \cup UNION z.wires) = {}}
           u == z.wires \cup made
<1>1. /\ Shape(z) /\ z.up = x.up /\ z.conf = x.conf
      /\ \A w : w \in z.wires <=> w \in x.wires /\ w \cap ends = {}
      /\ \A e : e \in z.stale <=> e \in x.stale /\ e \notin ends
      /\ \A n \in x.up : \A i : i \in z.ports[n] <=>
              /\ i \in x.ports[n] /\ <<n, i>> \notin ends
              /\ \A w \in x.wires : <<n, i>> \in w => w \cap ends = {}
  <2> HIDE DEF ends
  <2> QED BY FreeEndsIs
<1>2. y = [z EXCEPT !.wires = u]
  <2> HIDE DEF z
  <2>1. y = Wire(z, new)
    BY DEF CreateVeths, z
  <2> QED BY <2>1 DEF Wire
<1>3. \A w \in new : \A e \in w : e \in ends
  OBVIOUS
<1> HIDE DEF z, new, ends
<1>4. made = new
  BY <1>1, <1>3
<1>5. u = z.wires \cup new
  BY <1>4
<1> HIDE DEF u, made
<1>6. y = [up |-> x.up, wires |-> u, stale |-> z.stale, ports |-> z.ports, conf |-> x.conf]
  BY <1>1, <1>2 DEF Shape
<1>7. y.up = x.up /\ y.wires = u /\ y.stale = z.stale /\ y.ports = z.ports /\ y.conf = x.conf
  BY <1>6
<1>8. Shape(y)
  BY <1>1, <1>6, <1>7 DEF Shape
<1>9. \A w : w \in y.wires <=> w \in new \/ (w \in x.wires /\ w \cap ends = {})
  BY <1>1, <1>5, <1>7
<1> QED BY <1>1, <1>7, <1>8, <1>9 DEF new, ends

\* Setup commands add ports.
LEMMA ExecIs ==
  ASSUME NEW x, Shape(x), NEW ports, NEW y, y = ExecCommands(x, ports)
  PROVE  /\ Shape(y) /\ y.up = x.up /\ y.wires = x.wires /\ y.stale = x.stale /\ y.conf = x.conf
         /\ \A n \in x.up : \A i : i \in y.ports[n] <=>
              i \in x.ports[n] \/ \E e \in ports : e[1] = n /\ e[2] = i
<1> DEFINE p == [n \in x.up |-> x.ports[n] \cup {e[2] : e \in {q \in ports : q[1] = n}}]
<1>1. y = [x EXCEPT !.ports = p]
  BY DEF ExecCommands
<1>2. p = [n \in x.up |-> p[n]] /\ \A n \in x.up : \A i : i \in p[n] <=>
              i \in x.ports[n] \/ \E e \in ports : e[1] = n /\ e[2] = i
  OBVIOUS
<1> HIDE DEF p
<1>3. y = [up |-> x.up, wires |-> x.wires, stale |-> x.stale, ports |-> p, conf |-> x.conf]
  BY <1>1 DEF Shape
<1> QED BY <1>2, <1>3 DEF Shape

\* Reloading gives the nodes the configuration of the topology.
LEMMA ReloadIs ==
  ASSUME NEW x, Shape(x), NEW t, NEW nodes, NEW y, y = Reload(x, t, nodes)
  PROVE  /\ Shape(y) /\ y.up = x.up /\ y.wires = x.wires /\ y.stale = x.stale /\ y.ports = x.ports
         /\ \A n \in x.up : y.conf[n] = IF n \in nodes THEN Conf(t, n) ELSE x.conf[n]
<1> DEFINE c == [n \in x.up |-> IF n \in nodes THEN Conf(t, n) ELSE x.conf[n]]
<1>1. y = [x EXCEPT !.conf = c]
  BY DEF Reload
<1>2. c = [n \in x.up |-> c[n]] /\ \A n \in x.up : c[n] = IF n \in nodes THEN Conf(t, n) ELSE x.conf[n]
  OBVIOUS
<1> HIDE DEF c
<1>3. y = [up |-> x.up, wires |-> x.wires, stale |-> x.stale, ports |-> x.ports, conf |-> c]
  BY <1>1 DEF Shape
<1> QED BY <1>2, <1>3 DEF Shape

----------------------------------------------------------------------------
(* Physical runtimes *)

\* A wire of a rack: an end at a server, or both at leaves.
OfRack(w) == (\E e \in w : IsServer(e[1])) \/ (\A e \in w : IsLeaf(e[1]))

\* No interface has two wires, none that lingers has one, and whatever is in a
\* bridge or a bond lingers or has a wire of the rack.
Physical(x) ==
  /\ Shape(x)
  /\ \A w, v \in x.wires : w = v \/ w \cap v = {}
  /\ \A w \in x.wires : \A e \in w : e \notin x.stale
  /\ \A n \in x.up : \A i \in x.ports[n] :
       <<n, i>> \in x.stale \/ \E w \in x.wires : <<n, i>> \in w /\ OfRack(w)

\* The ends of a link.
LEMMA EndsAre ==
  ASSUME NEW t, NEW l
  PROVE  /\ \A e \in Ends(t, l) : e[1] \in {l[1], l[2]} /\ e = <<e[1], e[2]>>
         /\ l[1] # l[2] => \A n, i : <<n, i>> \in Ends(t, l) <=> n \in {l[1], l[2]} /\ i = t.links[l].ifs[EndAt(l, n)]
         /\ \A nodes : Touches(Ends(t, l), nodes) <=> l[1] \in nodes \/ l[2] \in nodes
<1> DEFINE a == l[1] b == l[2] i == t.links[l].ifs[1] j == t.links[l].ifs[2] w == {<<a, i>>, <<b, j>>}
           at(n) == t.links[l].ifs[EndAt(l, n)]
<1>1. Ends(t, l) = w
  BY DEF Ends
<1>2. \A e \in w : e[1] \in {a, b} /\ e = <<e[1], e[2]>>
  <2> HIDE DEF a, b, i, j
  <2> QED OBVIOUS
<1>3. a # b => \A n, k : <<n, k>> \in w <=> n \in {a, b} /\ k = IF n = a THEN i ELSE j
  <2> HIDE DEF a, b, i, j
  <2> QED OBVIOUS
<1>4. \A nodes : Touches(w, nodes) <=> a \in nodes \/ b \in nodes
  <2> HIDE DEF a, b, i, j
  <2> QED BY DEF Touches
<1>5. \A n : at(n) = IF n = a THEN i ELSE j
  BY DEF EndAt
<1> HIDE DEF a, b, i, j, w, at
<1>6. \A e \in Ends(t, l) : e[1] \in {a, b} /\ e = <<e[1], e[2]>>
  BY <1>1, <1>2
<1>7. a # b => \A n, k : <<n, k>> \in Ends(t, l) <=> n \in {a, b} /\ k = at(n)
  BY <1>1, <1>3, <1>5
<1>8. \A nodes : Touches(Ends(t, l), nodes) <=> a \in nodes \/ b \in nodes
  BY <1>1, <1>4
<1> QED BY <1>6, <1>7, <1>8 DEF a, b, at

\* No two links of a sound topology share an end.
LEMMA EndsAreOwn ==
  ASSUME NEW t, Sound(t), NEW l \in DOMAIN t.links, NEW k \in DOMAIN t.links, NEW e, e \in Ends(t, l), e \in Ends(t, k)
  PROVE  l = k
<1>1. /\ Linked(l[1], l[2]) /\ Linked(k[1], k[2]) /\ l[1] \in DOMAIN t.nodes /\ l[2] \in DOMAIN t.nodes
  BY LinkEnds
<1>2. l[1] # l[2] /\ k[1] # k[2]
  BY <1>1, EndsDiffer
<1>3. e = <<e[1], e[2]>> /\ e[1] \in {l[1], l[2]}
  BY EndsAre
<1> DEFINE n == e[1] i == e[2]
<1>4. e = <<n, i>>
  BY <1>3
<1> HIDE DEF n, i
<1>5. n \in {l[1], l[2]} /\ i = t.links[l].ifs[EndAt(l, n)] /\ n \in {k[1], k[2]} /\ i = t.links[k].ifs[EndAt(k, n)]
  BY <1>2, <1>4, EndsAre
<1>6. n \in DOMAIN t.nodes /\ l \in LinksAt(DOMAIN t.links, n) /\ k \in LinksAt(DOMAIN t.links, n)
  BY <1>1, <1>5 DEF LinksAt
<1> QED BY <1>5, <1>6 DEF Sound, Unshared

\* The wires of links that are not fabric links are those of racks.
LEMMA RackWires ==
  ASSUME NEW t, NEW l, Linked(l[1], l[2])
  PROVE  OfRack(Ends(t, l)) <=> ~IsFabric(l)
<1> DEFINE a == l[1] b == l[2] i == t.links[l].ifs[1] j == t.links[l].ifs[2] w == {<<a, i>>, <<b, j>>}
<1>1. Ends(t, l) = w
  BY DEF Ends
<1>2. OfRack(w) <=> IsServer(a) \/ IsServer(b) \/ (IsLeaf(a) /\ IsLeaf(b))
  <2> HIDE DEF a, b, i, j
  <2> QED BY DEF OfRack
<1>3. ~IsServer(a)
  <2>1. Linked(a, b)
    OBVIOUS
  <2> HIDE DEF a, b
  <2> QED BY <2>1 DEF Linked, IsServer
<1>4. ~IsFabric(l) <=> IsServer(b) \/ (IsLeaf(a) /\ IsLeaf(b))
  BY DEF IsFabric
<1> HIDE DEF a, b, w
<1> QED BY <1>1, <1>2, <1>3, <1>4

\* The steps of a deploy leave the runtime physical.
LEMMA RemoveIsPhysical ==
  ASSUME NEW x, Physical(x), NEW nodes
  PROVE  Physical(RemoveNodes(x, nodes))
<1> DEFINE y == RemoveNodes(x, nodes)
<1>1. /\ Shape(x)
      /\ \A w, v \in x.wires : w = v \/ w \cap v = {}
      /\ \A w \in x.wires : \A e \in w : e \notin x.stale
      /\ \A n \in x.up : \A i \in x.ports[n] :
           <<n, i>> \in x.stale \/ \E w \in x.wires : <<n, i>> \in w /\ OfRack(w)
  BY DEF Physical
<1>2. /\ Shape(y) /\ y.up = x.up \ nodes
      /\ \A w : w \in y.wires <=> w \in x.wires /\ ~Touches(w, nodes)
      /\ \A e : e \in y.stale <=>
           e[1] \in y.up /\ (e \in x.stale \/ \E w \in x.wires : e \in w /\ Touches(w, nodes))
      /\ \A n \in y.up : y.ports[n] = x.ports[n] /\ y.conf[n] = x.conf[n]
  BY <1>1, RemoveNodesIs
<1> HIDE DEF y
<1>3. \A w, v \in y.wires : w = v \/ w \cap v = {}
  BY <1>1, <1>2
<1>4. ASSUME NEW w \in y.wires, NEW e \in w, e \in y.stale PROVE FALSE
  <2>1. w \in x.wires /\ ~Touches(w, nodes) /\ e \notin x.stale
    BY <1>1, <1>2
  <2>2. PICK v \in x.wires : e \in v /\ Touches(v, nodes)
    BY <1>2, <1>4, <2>1
  <2>3. v = w
    BY <1>1, <2>1, <2>2
  <2> QED BY <2>1, <2>2, <2>3
<1>5. ASSUME NEW n \in y.up, NEW i \in y.ports[n]
      PROVE  <<n, i>> \in y.stale \/ \E w \in y.wires : <<n, i>> \in w /\ OfRack(w)
  <2> DEFINE e == <<n, i>>
  <2>1. n \in x.up /\ i \in x.ports[n] /\ e[1] = n
    BY <1>2
  <2>2. e \in x.stale \/ \E w \in x.wires : e \in w /\ OfRack(w)
    BY <1>1, <2>1
  <2> HIDE DEF e
  <2>3. e \in y.stale \/ \E w \in y.wires : e \in w /\ OfRack(w)
    BY <1>2, <2>1, <2>2
  <2> QED BY <2>3 DEF e
<1>6. Physical(y)
  BY <1>2, <1>3, <1>4, <1>5 DEF Physical
<1> QED BY <1>6 DEF y

\* Creating containers leaves it physical: they boot with nothing in bridge or bond.
LEMMA CreateIsPhysical ==
  ASSUME NEW x, Physical(x), NEW t, NEW nodes
  PROVE  Physical(CreateNodes(x, t, nodes))
<1> DEFINE y == CreateNodes(x, t, nodes) z == RemoveNodes(x, nodes)
<1>1. Shape(x)
  BY DEF Physical
<1>2. /\ Shape(y) /\ y.up = x.up \cup nodes /\ y.wires = z.wires /\ y.stale = z.stale
      /\ \A n \in y.up : /\ n \in nodes => y.ports[n] = {}
                         /\ n \notin nodes => y.ports[n] = x.ports[n]
  BY <1>1, CreateNodesIs
<1>3. z.up = x.up \ nodes /\ \A n \in z.up : z.ports[n] = x.ports[n]
  BY <1>1, RemoveNodesIs
<1>4. Physical(z)
  BY RemoveIsPhysical
<1> HIDE DEF y, z
<1>5. ASSUME NEW n \in y.up, NEW i \in y.ports[n]
      PROVE  <<n, i>> \in y.stale \/ \E w \in y.wires : <<n, i>> \in w /\ OfRack(w)
  <2>1. n \in z.up /\ i \in z.ports[n]
    BY <1>2, <1>3, <1>5
  <2> QED BY <1>2, <1>4, <2>1 DEF Physical
<1>6. Physical(y)
  BY <1>2, <1>4, <1>5 DEF Physical
<1> QED BY <1>6 DEF y

\* Freeing ends leaves it physical: a port that has lost its wire leaves too.
LEMMA FreeIsPhysical ==
  ASSUME NEW x, Physical(x), NEW ends
  PROVE  Physical(FreeEnds(x, ends))
<1> DEFINE y == FreeEnds(x, ends)
<1>1. /\ Shape(x)
      /\ \A w, v \in x.wires : w = v \/ w \cap v = {}
      /\ \A w \in x.wires : \A e \in w : e \notin x.stale
      /\ \A n \in x.up : \A i \in x.ports[n] :
           <<n, i>> \in x.stale \/ \E w \in x.wires : <<n, i>> \in w /\ OfRack(w)
  BY DEF Physical
<1>2. /\ Shape(y) /\ y.up = x.up
      /\ \A w : w \in y.wires <=> w \in x.wires /\ w \cap ends = {}
      /\ \A e : e \in y.stale <=> e \in x.stale /\ e \notin ends
      /\ \A n \in x.up : \A i : i \in y.ports[n] <=>
              /\ i \in x.ports[n] /\ <<n, i>> \notin ends
              /\ \A w \in x.wires : <<n, i>> \in w => w \cap ends = {}
  BY <1>1, FreeEndsIs
<1> HIDE DEF y
<1>3. \A w, v \in y.wires : w = v \/ w \cap v = {}
  BY <1>1, <1>2
<1>4. \A w \in y.wires : \A e \in w : e \notin y.stale
  BY <1>1, <1>2
<1>5. ASSUME NEW n \in y.up, NEW i \in y.ports[n]
      PROVE  <<n, i>> \in y.stale \/ \E w \in y.wires : <<n, i>> \in w /\ OfRack(w)
  <2> DEFINE e == <<n, i>>
  <2>1. /\ n \in x.up /\ i \in x.ports[n] /\ e \notin ends
        /\ \A w \in x.wires : e \in w => w \cap ends = {}
    BY <1>2, <1>5
  <2>2. e \in x.stale \/ \E w \in x.wires : e \in w /\ OfRack(w)
    BY <1>1, <2>1
  <2> HIDE DEF e
  <2>3. e \in y.stale \/ \E w \in y.wires : e \in w /\ OfRack(w)
    BY <1>2, <2>1, <2>2
  <2> QED BY <2>3 DEF e
<1>6. Physical(y)
  BY <1>2, <1>3, <1>4, <1>5 DEF Physical
<1> QED BY <1>6 DEF y

\* Creating veth pairs does: they displace whatever holds one of their ends.
LEMMA VethsArePhysical ==
  ASSUME NEW x, Physical(x), NEW t, Sound(t), NEW links, links \subseteq DOMAIN t.links
  PROVE  Physical(CreateVeths(x, t, links))
<1> DEFINE y == CreateVeths(x, t, links) new == NewEnds(t, links) ends == UNION new
<1>1. /\ Shape(x)
      /\ \A w, v \in x.wires : w = v \/ w \cap v = {}
      /\ \A w \in x.wires : \A e \in w : e \notin x.stale
      /\ \A n \in x.up : \A i \in x.ports[n] :
           <<n, i>> \in x.stale \/ \E w \in x.wires : <<n, i>> \in w /\ OfRack(w)
  BY DEF Physical
<1>2. /\ Shape(y) /\ y.up = x.up
      /\ \A w : w \in y.wires <=> w \in new \/ (w \in x.wires /\ w \cap ends = {})
      /\ \A e : e \in y.stale <=> e \in x.stale /\ e \notin ends
      /\ \A n \in x.up : \A i : i \in y.ports[n] <=>
              /\ i \in x.ports[n] /\ <<n, i>> \notin ends
              /\ \A w \in x.wires : <<n, i>> \in w => w \cap ends = {}
  BY <1>1, CreateVethsIs
<1>3. \A w, v \in new : w = v \/ w \cap v = {}
  <2> SUFFICES ASSUME NEW w \in new, NEW v \in new, NEW e, e \in w, e \in v PROVE w = v
    OBVIOUS
  <2>1. PICK l \in links : w = Ends(t, l)
    BY DEF NewEnds
  <2>2. PICK k \in links : v = Ends(t, k)
    BY DEF NewEnds
  <2>3. l = k
    BY <2>1, <2>2, EndsAreOwn
  <2> QED BY <2>1, <2>2, <2>3
<1>4. \A w \in new : \A e \in w : e \in ends
  OBVIOUS
<1> HIDE DEF y, new, ends
<1>5. ASSUME NEW w \in y.wires, NEW v \in y.wires PROVE w = v \/ w \cap v = {}
  <2>1. w \in new \/ (w \in x.wires /\ w \cap ends = {})
    BY <1>2
  <2>2. v \in new \/ (v \in x.wires /\ v \cap ends = {})
    BY <1>2
  <2> QED BY <1>1, <1>3, <1>4, <2>1, <2>2
<1>6. \A w \in y.wires : \A e \in w : e \notin y.stale
  BY <1>1, <1>2, <1>4
<1>7. ASSUME NEW n \in y.up, NEW i \in y.ports[n]
      PROVE  <<n, i>> \in y.stale \/ \E w \in y.wires : <<n, i>> \in w /\ OfRack(w)
  <2> DEFINE e == <<n, i>>
  <2>1. /\ n \in x.up /\ i \in x.ports[n] /\ e \notin ends
        /\ \A w \in x.wires : e \in w => w \cap ends = {}
    BY <1>2, <1>7
  <2>2. e \in x.stale \/ \E w \in x.wires : e \in w /\ OfRack(w)
    BY <1>1, <2>1
  <2> HIDE DEF e
  <2>3. e \in y.stale \/ \E w \in y.wires : e \in w /\ OfRack(w)
    BY <1>2, <2>1, <2>2
  <2> QED BY <2>3 DEF e
<1>8. Physical(y)
  BY <1>2, <1>5, <1>6, <1>7 DEF Physical
<1> QED BY <1>8 DEF y

\* The port of a rack link at one of its ends is the end of a wire of the rack.
LEMMA PortHasWire ==
  ASSUME NEW t, Sound(t), NEW l \in DOMAIN t.links, ~IsFabric(l), NEW n, n \in {l[1], l[2]}
  PROVE  <<n, t.links[l].ifs[EndAt(l, n)]>> \in Ends(t, l) /\ OfRack(Ends(t, l))
<1>1. Linked(l[1], l[2])
  BY LinkEnds
<1>2. l[1] # l[2]
  BY <1>1, EndsDiffer
<1>3. OfRack(Ends(t, l))
  BY <1>1, RackWires
<1> QED BY <1>2, <1>3, EndsAre

\* Setup commands do, when the ports are ends of wires of the rack.
LEMMA ExecIsPhysical ==
  ASSUME NEW x, Physical(x), NEW ports,
         \A e \in ports : e = <<e[1], e[2]>> /\ \E w \in x.wires : e \in w /\ OfRack(w)
  PROVE  Physical(ExecCommands(x, ports))
<1> DEFINE y == ExecCommands(x, ports)
<1>1. Shape(x)
  BY DEF Physical
<1>2. /\ Shape(y) /\ y.up = x.up /\ y.wires = x.wires /\ y.stale = x.stale
      /\ \A n \in x.up : \A i : i \in y.ports[n] <=>
              i \in x.ports[n] \/ \E e \in ports : e[1] = n /\ e[2] = i
  BY <1>1, ExecIs
<1> HIDE DEF y
<1>3. ASSUME NEW n \in y.up, NEW i \in y.ports[n]
      PROVE  <<n, i>> \in y.stale \/ \E w \in y.wires : <<n, i>> \in w /\ OfRack(w)
  <2>1. CASE i \in x.ports[n]
    BY <1>2, <1>3, <2>1 DEF Physical
  <2>2. CASE \E e \in ports : e[1] = n /\ e[2] = i
    <3>1. <<n, i>> \in ports
      BY <2>2
    <3> QED BY <1>2, <3>1
  <2> QED BY <1>2, <1>3, <2>1, <2>2
<1>4. Physical(y)
  BY <1>2, <1>3 DEF Physical
<1> QED BY <1>4 DEF y

\* Reloading a configuration does.
LEMMA ReloadIsPhysical ==
  ASSUME NEW x, Physical(x), NEW t, NEW nodes
  PROVE  Physical(Reload(x, t, nodes))
<1> DEFINE y == Reload(x, t, nodes)
<1>1. Shape(x)
  BY DEF Physical
<1>2. Shape(y) /\ y.up = x.up /\ y.wires = x.wires /\ y.stale = x.stale /\ y.ports = x.ports
  BY <1>1, ReloadIs
<1> HIDE DEF y
<1>3. Physical(y)
  BY <1>2 DEF Physical
<1> QED BY <1>3 DEF y

----------------------------------------------------------------------------
(* Runs of a deploy *)

\* The phases of a deploy, each on the items it has done; c1 are the containers
\* and c2 the links that it was cut off in.
Run(x, t, c1, p1, c2, p2, p3, p4, p5, p6) ==
  RemoveNodes(Reload(ExecCommands(ExecCommands(
    CreateVeths(FreeEnds(CreateNodes(RemoveNodes(x, c1), t, p1), UNION NewEnds(t, c2)), t, p2),
    p3), p4), t, p5), p6)

\* The items a run may have done: ports are set up when their links have been made.
Orderly(t, c2, p2, p3, p4) ==
  /\ p2 \subseteq DOMAIN t.links /\ c2 \subseteq DOMAIN t.links
  /\ \A e \in p3 \cup p4 : e = <<e[1], e[2]>> /\ \E l \in p2 : e \in Ends(t, l) /\ ~IsFabric(l)

\* The ports that are there after a run: those set up, and those that nothing new
\* displaces.
PortsOfRun(x, y, t, c1, p1, c2, p2, p3, p4) ==
  \A n \in y.up : \A i :
    /\ <<n, i>> \in p3 \cup p4 => i \in y.ports[n]
    /\ /\ n \notin c1 \cup p1 /\ i \in x.ports[n]
       /\ <<n, i>> \notin UNION NewEnds(t, c2) /\ <<n, i>> \notin UNION NewEnds(t, p2)
       /\ \A w \in x.wires : <<n, i>> \in w => w \cap UNION NewEnds(t, c2) = {} /\ w \cap UNION NewEnds(t, p2) = {}
       => i \in y.ports[n]

\* What an orderly run makes of a physical runtime.
LEMMA RunIs ==
  ASSUME NEW x, Physical(x), NEW t, Sound(t), NEW c1, NEW p1, NEW c2, NEW p2, NEW p3, NEW p4, NEW p5, NEW p6,
         Orderly(t, c2, p2, p3, p4), NEW y, y = Run(x, t, c1, p1, c2, p2, p3, p4, p5, p6)
  PROVE  /\ Physical(y) /\ y.up = ((x.up \ c1) \cup p1) \ p6
         /\ \A w : w \in y.wires <=>
              /\ ~Touches(w, p6)
              /\ \/ w \in NewEnds(t, p2)
                 \/ /\ w \in x.wires /\ ~Touches(w, c1) /\ ~Touches(w, p1)
                    /\ w \cap UNION NewEnds(t, c2) = {} /\ w \cap UNION NewEnds(t, p2) = {}
         /\ \A n \in y.up : /\ n \in p5 \cup p1 => y.conf[n] = Conf(t, n)
                            /\ n \notin p5 \cup p1 => y.conf[n] = x.conf[n]
         /\ PortsOfRun(x, y, t, c1, p1, c2, p2, p3, p4)
<1> DEFINE new == NewEnds(t, p2) ends == UNION new freed == UNION NewEnds(t, c2)
           r == RemoveNodes(x, c1)
           a == CreateNodes(r, t, p1)
           f == FreeEnds(a, freed)
           b == CreateVeths(f, t, p2)
           c == ExecCommands(b, p3)
           d == ExecCommands(c, p4)
           e == Reload(d, t, p5)
<1>0. y = RemoveNodes(e, p6)
  BY DEF Run
<1>o. /\ p2 \subseteq DOMAIN t.links
      /\ \A q \in p3 \cup p4 : q = <<q[1], q[2]>> /\ \E l \in p2 : q \in Ends(t, l) /\ ~IsFabric(l)
  BY DEF Orderly
<1>1. Shape(x)
  BY DEF Physical
<1>r. /\ Physical(r) /\ r.up = x.up \ c1
      /\ \A w : w \in r.wires <=> w \in x.wires /\ ~Touches(w, c1)
      /\ \A n \in r.up : r.ports[n] = x.ports[n] /\ r.conf[n] = x.conf[n]
  BY <1>1, RemoveNodesIs, RemoveIsPhysical
<1> HIDE DEF r
<1>s. Shape(r)
  BY <1>r DEF Physical
<1>2. /\ Physical(a) /\ a.up = r.up \cup p1
      /\ \A w : w \in a.wires <=> w \in r.wires /\ ~Touches(w, p1)
      /\ \A n \in a.up : /\ n \in p1 => a.conf[n] = Conf(t, n)
                         /\ n \notin p1 => a.ports[n] = r.ports[n] /\ a.conf[n] = r.conf[n]
  BY <1>r, <1>s, CreateNodesIs, RemoveNodesIs, CreateIsPhysical
<1> HIDE DEF a
<1>3. Shape(a)
  BY <1>2 DEF Physical
<1> HIDE DEF freed
<1>f. /\ f.up = a.up /\ f.conf = a.conf
      /\ \A w : w \in f.wires <=> w \in a.wires /\ w \cap freed = {}
      /\ \A n \in a.up : \A i : i \in f.ports[n] <=>
              /\ i \in a.ports[n] /\ <<n, i>> \notin freed
              /\ \A w \in a.wires : <<n, i>> \in w => w \cap freed = {}
  BY <1>3, FreeEndsIs
<1>g. Physical(f)
  BY <1>2, FreeIsPhysical
<1> HIDE DEF f
<1>h. Shape(f)
  BY <1>g DEF Physical
<1>4. /\ b.up = f.up /\ b.conf = f.conf
      /\ \A w : w \in b.wires <=> w \in new \/ (w \in f.wires /\ w \cap ends = {})
      /\ \A n \in f.up : \A i : i \in b.ports[n] <=>
              /\ i \in f.ports[n] /\ <<n, i>> \notin ends
              /\ \A w \in f.wires : <<n, i>> \in w => w \cap ends = {}
  BY <1>h, CreateVethsIs
<1>5. Physical(b)
  BY <1>o, <1>g, VethsArePhysical
<1>6. \A q \in p3 \cup p4 : q = <<q[1], q[2]>> /\ \E w \in b.wires : q \in w /\ OfRack(w)
  <2> TAKE q \in p3 \cup p4
  <2>1. PICK l \in p2 : q \in Ends(t, l) /\ ~IsFabric(l)
    BY <1>o
  <2>2. Linked(l[1], l[2])
    BY <1>o, LinkEnds
  <2>3. Ends(t, l) \in b.wires
    BY <1>4 DEF NewEnds
  <2> QED BY <1>o, <2>1, <2>2, <2>3, RackWires
<1> HIDE DEF b, new, ends
<1>7. Shape(b)
  BY <1>5 DEF Physical
<1>8. /\ c.up = b.up /\ c.wires = b.wires /\ c.conf = b.conf
      /\ \A n \in b.up : \A i : i \in c.ports[n] <=> i \in b.ports[n] \/ \E q \in p3 : q[1] = n /\ q[2] = i
  BY <1>7, ExecIs
<1>9. Physical(c)
  BY <1>5, <1>6, ExecIsPhysical
<1> HIDE DEF c
<1>10. Shape(c)
  BY <1>9 DEF Physical
<1>11. /\ d.up = c.up /\ d.wires = c.wires /\ d.conf = c.conf
       /\ \A n \in c.up : \A i : i \in d.ports[n] <=> i \in c.ports[n] \/ \E q \in p4 : q[1] = n /\ q[2] = i
  BY <1>10, ExecIs
<1>12. Physical(d)
  BY <1>6, <1>8, <1>9, ExecIsPhysical
<1> HIDE DEF d
<1>13. Shape(d)
  BY <1>12 DEF Physical
<1>14. /\ e.up = d.up /\ e.wires = d.wires /\ e.ports = d.ports
       /\ \A n \in d.up : e.conf[n] = IF n \in p5 THEN Conf(t, n) ELSE d.conf[n]
  BY <1>13, ReloadIs
<1>15. Physical(e)
  BY <1>12, ReloadIsPhysical
<1> HIDE DEF e
<1>17. Shape(e)
  BY <1>15 DEF Physical
<1>18. /\ y.up = e.up \ p6
       /\ \A w : w \in y.wires <=> w \in e.wires /\ ~Touches(w, p6)
       /\ \A n \in y.up : y.ports[n] = e.ports[n] /\ y.conf[n] = e.conf[n]
  BY <1>0, <1>17, RemoveNodesIs
<1>19. Physical(y)
  BY <1>0, <1>15, RemoveIsPhysical
<1>20. /\ y.up = ((x.up \ c1) \cup p1) \ p6 /\ y.up \subseteq a.up
       /\ e.up = a.up /\ d.up = a.up /\ c.up = a.up /\ b.up = a.up /\ f.up = a.up
  BY <1>r, <1>2, <1>f, <1>4, <1>8, <1>11, <1>14, <1>18
<1>21. \A w : w \in y.wires <=>
              /\ ~Touches(w, p6)
              /\ \/ w \in new
                 \/ /\ w \in x.wires /\ ~Touches(w, c1) /\ ~Touches(w, p1)
                    /\ w \cap freed = {} /\ w \cap ends = {}
  BY <1>r, <1>2, <1>f, <1>4, <1>8, <1>11, <1>14, <1>18
<1>22. ASSUME NEW n \in y.up
       PROVE  /\ n \in p5 \cup p1 => y.conf[n] = Conf(t, n)
              /\ n \notin p5 \cup p1 => y.conf[n] = x.conf[n]
  <2>1. n \in a.up /\ y.conf[n] = IF n \in p5 THEN Conf(t, n) ELSE a.conf[n]
    BY <1>f, <1>4, <1>8, <1>11, <1>14, <1>18, <1>20, <1>22
  <2> QED BY <1>2, <1>r, <2>1
<1>23. ASSUME NEW n \in y.up, NEW i
       PROVE  /\ <<n, i>> \in p3 \cup p4 => i \in y.ports[n]
              /\ /\ n \notin c1 \cup p1 /\ i \in x.ports[n] /\ <<n, i>> \notin freed /\ <<n, i>> \notin ends
                 /\ \A w \in x.wires : <<n, i>> \in w => w \cap freed = {} /\ w \cap ends = {}
                 => i \in y.ports[n]
  <2> DEFINE q == <<n, i>>
  <2>1. /\ n \in a.up /\ n \in f.up /\ n \in b.up /\ n \in c.up /\ y.ports[n] = d.ports[n]
        /\ q[1] = n /\ q[2] = i
    BY <1>14, <1>18, <1>20, <1>23
  <2>2. i \in d.ports[n] <=> i \in c.ports[n] \/ \E g \in p4 : g[1] = n /\ g[2] = i
    BY <1>11, <2>1
  <2>3. i \in c.ports[n] <=> i \in b.ports[n] \/ \E g \in p3 : g[1] = n /\ g[2] = i
    BY <1>8, <2>1
  <2>4. q \in p3 \cup p4 => i \in y.ports[n]
    <3> HIDE DEF q
    <3> QED BY <2>1, <2>2, <2>3
  <2>5. ASSUME n \notin c1 \cup p1, i \in x.ports[n], q \notin freed, q \notin ends,
               \A w \in x.wires : q \in w => w \cap freed = {} /\ w \cap ends = {}
        PROVE  i \in y.ports[n]
    <3>1. /\ i \in a.ports[n]
          /\ \A w \in a.wires : q \in w => w \cap freed = {} /\ w \cap ends = {}
      BY <1>2, <1>r, <2>1, <2>5
    <3>2. i \in f.ports[n] /\ \A w \in f.wires : q \in w => w \cap ends = {}
      BY <1>f, <2>1, <2>5, <3>1
    <3>3. i \in b.ports[n]
      BY <1>4, <2>1, <2>5, <3>2
    <3> QED BY <2>1, <2>2, <2>3, <3>3
  <2> QED BY <2>4, <2>5
<1>24. PortsOfRun(x, y, t, c1, p1, c2, p2, p3, p4)
  BY <1>23 DEF PortsOfRun, ends, new, freed
<1> QED BY <1>19, <1>20, <1>21, <1>22, <1>24 DEF ends, new, freed

\* The items that an increment from b to t may have done or begun.
Within(b, t, c1, p1, c2, p2, p3, p4, p6) ==
  /\ c1 \cup p1 \subseteq DOMAIN t.nodes \ DOMAIN b.nodes
  /\ c2 \cup p2 \subseteq DOMAIN t.links \ DOMAIN b.links
  /\ p6 \subseteq DOMAIN b.nodes \ DOMAIN t.nodes
  /\ Orderly(t, c2, p2, p3, p4)

\* All of them, and none cut off.
Throughout(b, t, c1, p1, c2, p2, p3, p4, p5, p6) ==
  /\ c1 = {} /\ c2 = {}
  /\ p1 = DOMAIN t.nodes \ DOMAIN b.nodes
  /\ p2 = DOMAIN t.links \ DOMAIN b.links
  /\ \A n \in p1 : \A i \in Ports(t, n) : <<n, i>> \in p3
  /\ \A l \in p2 : IsAccess(l) /\ l[1] \in DOMAIN b.nodes => <<l[1], t.links[l].ifs[1]>> \in p4
  /\ p5 = {n \in DOMAIN b.nodes \cap DOMAIN t.nodes : Conf(b, n) # Conf(t, n)}
  /\ p6 = DOMAIN b.nodes \ DOMAIN t.nodes

\* A deploy from b to t in phase k has made y of x; in the seventh it has ended.
Deploys(x, b, t, k, y) ==
  \E c1, p1, c2, p2, p3, p4, p5, p6 :
    /\ y = Run(x, t, c1, p1, c2, p2, p3, p4, p5, p6)
    /\ Within(b, t, c1, p1, c2, p2, p3, p4, p6)
    /\ k = 7 => Throughout(b, t, c1, p1, c2, p2, p3, p4, p5, p6)

\* Where a runtime is that has b and was on the way to t: what both have is
\* there, and nothing is there that neither has.
Between(x, b, t) ==
  /\ Physical(x)
  /\ \A n \in DOMAIN b.nodes \cap DOMAIN t.nodes : n \in x.up
  /\ \A n \in x.up : n \in DOMAIN b.nodes \/ n \in DOMAIN t.nodes
  /\ \A l \in DOMAIN b.links \cap DOMAIN t.links : Ends(b, l) \in x.wires
  /\ \A w \in x.wires : w \in NewEnds(b, DOMAIN b.links) \/ w \in NewEnds(t, DOMAIN t.links)
  /\ \A n \in DOMAIN b.nodes \cap DOMAIN t.nodes : \A l \in DOMAIN b.links \cap DOMAIN t.links :
       n \in {l[1], l[2]} /\ ~IsFabric(l) => b.links[l].ifs[EndAt(l, n)] \in x.ports[n]
  /\ \A n \in DOMAIN b.nodes \cap DOMAIN t.nodes : x.conf[n] = Conf(b, n) \/ x.conf[n] = Conf(t, n)

\* The links of a new node are new.
LEMMA NewNodesLinks ==
  ASSUME NEW b, Sound(b), NEW t, NEW n, n \notin DOMAIN b.nodes, NEW l \in At(t, n)
  PROVE  l \in DOMAIN t.links \ DOMAIN b.links
<1>1. l \in DOMAIN t.links /\ n \in {l[1], l[2]}
  BY DEF At
<1> QED BY <1>1, LinkEnds

\* The ports of an increment are ends of new rack links.
LEMMA PortsAreOfNewLinks ==
  ASSUME NEW b, Sound(b), NEW t, Sound(t), NEW e \in Increment(b, t).setup \cup Increment(b, t).attach
  PROVE  e = <<e[1], e[2]>> /\ \E l \in DOMAIN t.links \ DOMAIN b.links : e \in Ends(t, l) /\ ~IsFabric(l)
<1> DEFINE new == DOMAIN t.nodes \ DOMAIN b.nodes links == DOMAIN t.links \ DOMAIN b.links
           here == {k \in links : IsAccess(k) /\ k[1] \in DOMAIN b.nodes}
<1>1. e \in UNION {{n} \X Ports(t, n) : n \in new} \/ e \in {<<l[1], t.links[l].ifs[1]>> : l \in here}
  BY DEF Increment
<1>2. CASE e \in UNION {{n} \X Ports(t, n) : n \in new}
  <2>1. PICK n \in new : e \in {n} \X Ports(t, n)
    BY <1>2
  <2>2. PICK i \in Ports(t, n) : e = <<n, i>>
    BY <2>1
  <2>3. PICK l \in At(t, n) : ~IsFabric(l) /\ i = t.links[l].ifs[EndAt(l, n)]
    BY DEF Ports
  <2>4. l \in links
    BY NewNodesLinks
  <2>5. n \in {l[1], l[2]}
    BY DEF At
  <2>6. e \in Ends(t, l)
    BY <2>2, <2>3, <2>4, <2>5, PortHasWire
  <2> QED BY <2>2, <2>3, <2>4, <2>6
<1>3. CASE e \in {<<l[1], t.links[l].ifs[1]>> : l \in here}
  <2>1. PICK l \in here : e = <<l[1], t.links[l].ifs[1]>>
    BY <1>3
  <2>2. e \in Ends(t, l)
    BY <2>1 DEF Ends
  <2>3. ~IsFabric(l)
    BY DEF IsAccess, IsFabric
  <2> QED BY <2>1, <2>2, <2>3
<1> QED BY <1>1, <1>2, <1>3

\* A deploy that stops in phase k, or does not (k = 7), is an orderly run.
LEMMA DeployIs ==
  ASSUME NEW x, NEW b, Sound(b), NEW t, Sound(t), NEW inc, inc = Increment(b, t),
         NEW k \in 1 .. 7, NEW part, NEW cut,
         k = 7 \/ (part \subseteq Items(inc)[k] /\ cut \subseteq Items(inc)[k])
  PROVE  Deploys(x, b, t, k, DeployIncrement(x, t, inc, k, part, cut))
<1> DEFINE do(j) == IF j < k THEN Items(inc)[j] ELSE IF j = k THEN part ELSE {}
           begun(j) == IF j = k THEN cut ELSE {}
           add == DOMAIN t.nodes \ DOMAIN b.nodes
           links == DOMAIN t.links \ DOMAIN b.links
           reload == {n \in DOMAIN b.nodes \cap DOMAIN t.nodes : Conf(b, n) # Conf(t, n)}
           remove == DOMAIN b.nodes \ DOMAIN t.nodes
           setup == inc.setup
           attach == inc.attach
<1>1. DeployIncrement(x, t, inc, k, part, cut)
      = Run(x, t, begun(1), do(1), begun(2), do(2), do(3), do(4), do(5), do(6))
  BY DEF DeployIncrement, Run
<1>2. inc.add = add /\ inc.links = links /\ inc.reload = reload /\ inc.remove = remove
  BY DEF Increment
<1>3. Items(inc) = <<add, links, setup, attach, reload, remove>>
  BY <1>2 DEF Items
<1>4. \A e \in setup \cup attach :
        e = <<e[1], e[2]>> /\ \E l \in links : e \in Ends(t, l) /\ ~IsFabric(l)
  BY PortsAreOfNewLinks
<1>5. \A n \in add : \A i \in Ports(t, n) : <<n, i>> \in setup
  BY DEF Increment
<1>s. \A l \in links : IsAccess(l) /\ l[1] \in DOMAIN b.nodes => <<l[1], t.links[l].ifs[1]>> \in attach
  BY DEF Increment
<1> HIDE DEF add, links, setup, attach, reload, remove
<1>6. /\ do(1) = IF 1 < k THEN add ELSE IF 1 = k THEN part ELSE {}
      /\ do(2) = IF 2 < k THEN links ELSE IF 2 = k THEN part ELSE {}
      /\ do(3) = IF 3 < k THEN setup ELSE IF 3 = k THEN part ELSE {}
      /\ do(4) = IF 4 < k THEN attach ELSE IF 4 = k THEN part ELSE {}
      /\ do(5) = IF 5 < k THEN reload ELSE IF 5 = k THEN part ELSE {}
      /\ do(6) = IF 6 < k THEN remove ELSE IF 6 = k THEN part ELSE {}
      /\ begun(1) = IF 1 = k THEN cut ELSE {}
      /\ begun(2) = IF 2 = k THEN cut ELSE {}
  BY <1>3
<1>7. /\ k = 1 => part \subseteq add /\ cut \subseteq add
      /\ k = 2 => part \subseteq links /\ cut \subseteq links
      /\ k = 3 => part \subseteq setup
      /\ k = 4 => part \subseteq attach
      /\ k = 5 => part \subseteq reload
      /\ k = 6 => part \subseteq remove
  BY <1>3
<1>8. do(1) \subseteq add /\ do(2) \subseteq links /\ do(3) \subseteq setup /\ do(4) \subseteq attach
      /\ do(6) \subseteq remove /\ begun(1) \subseteq add /\ begun(2) \subseteq links
  BY <1>6, <1>7
<1>9. do(3) # {} \/ do(4) # {} => do(2) = links
  BY <1>6
<1>10. k = 7 => /\ do(1) = add /\ do(2) = links /\ do(3) = setup
                /\ do(4) = attach /\ do(5) = reload /\ do(6) = remove
                /\ begun(1) = {} /\ begun(2) = {}
  BY <1>6
<1>11. Orderly(t, begun(2), do(2), do(3), do(4))
  <2>1. do(2) \subseteq DOMAIN t.links /\ begun(2) \subseteq DOMAIN t.links
    BY <1>8 DEF links
  <2>2. \A e \in do(3) \cup do(4) : e = <<e[1], e[2]>> /\ \E l \in do(2) : e \in Ends(t, l) /\ ~IsFabric(l)
    BY <1>4, <1>8, <1>9
  <2> HIDE DEF do, begun
  <2> QED BY <2>1, <2>2 DEF Orderly
<1> HIDE DEF do, begun
<1>12. Within(b, t, begun(1), do(1), begun(2), do(2), do(3), do(4), do(6))
  BY <1>8, <1>11 DEF Within, add, links, remove
<1>13. k = 7 => Throughout(b, t, begun(1), do(1), begun(2), do(2), do(3), do(4), do(5), do(6))
  BY <1>5, <1>s, <1>10 DEF Throughout, add, links, reload, remove
<1> QED BY <1>1, <1>12, <1>13 DEF Deploys

----------------------------------------------------------------------------
(* Runs and topologies *)

\* A surviving link whose interfaces stay: its wire touches nothing that is new.
LEMMA SurvivingWire ==
  ASSUME NEW b, Sound(b), NEW t, Sound(t), Rewired(b, t) = {},
         NEW l \in DOMAIN b.links \cap DOMAIN t.links, NEW links, links \subseteq DOMAIN t.links \ DOMAIN b.links
  PROVE  /\ Ends(b, l) = Ends(t, l) /\ b.links[l].ifs = t.links[l].ifs
         /\ Ends(b, l) \cap UNION NewEnds(t, links) = {}
<1>1. b.links[l].ifs = t.links[l].ifs
  BY DEF Rewired
<1>2. Ends(b, l) = Ends(t, l)
  BY <1>1 DEF Ends
<1>3. ASSUME NEW e, e \in Ends(b, l), e \in UNION NewEnds(t, links) PROVE FALSE
  <2>1. PICK k \in links : e \in Ends(t, k)
    BY <1>3 DEF NewEnds
  <2>2. k \in DOMAIN t.links /\ l \in DOMAIN t.links /\ k # l
    OBVIOUS
  <2>3. e \in Ends(t, l)
    BY <1>2, <1>3
  <2> QED BY <2>1, <2>2, <2>3, EndsAreOwn
<1> QED BY <1>1, <1>2, <1>3

\* A run leaves it alone, and the ports of its ends.
LEMMA SurvivorStays ==
  ASSUME NEW x, Physical(x), NEW b, Sound(b), NEW t, Sound(t), Rewired(b, t) = {},
         NEW c1, NEW p1, NEW c2, NEW p2, NEW p3, NEW p4, NEW p5, NEW p6,
         Within(b, t, c1, p1, c2, p2, p3, p4, p6),
         NEW y, y = Run(x, t, c1, p1, c2, p2, p3, p4, p5, p6),
         NEW l \in DOMAIN b.links \cap DOMAIN t.links, Ends(b, l) \in x.wires
  PROVE  /\ Ends(b, l) \in y.wires
         /\ ~IsFabric(l) =>
              \A n \in {l[1], l[2]} : n \in y.up /\ b.links[l].ifs[EndAt(l, n)] \in x.ports[n]
                                        => b.links[l].ifs[EndAt(l, n)] \in y.ports[n]
<1> DEFINE w == Ends(b, l) ends == UNION NewEnds(t, p2) freed == UNION NewEnds(t, c2)
<1>1. /\ c1 \cap DOMAIN b.nodes = {} /\ p1 \cap DOMAIN b.nodes = {} /\ p6 \cap DOMAIN t.nodes = {}
      /\ c2 \subseteq DOMAIN t.links \ DOMAIN b.links /\ p2 \subseteq DOMAIN t.links \ DOMAIN b.links
      /\ Orderly(t, c2, p2, p3, p4)
  BY DEF Within
<1>2. /\ l[1] \in DOMAIN b.nodes /\ l[2] \in DOMAIN b.nodes /\ l[1] \in DOMAIN t.nodes /\ l[2] \in DOMAIN t.nodes
  BY LinkEnds
<1>3. \A nodes : Touches(w, nodes) <=> l[1] \in nodes \/ l[2] \in nodes
  BY EndsAre
<1>4. w \cap ends = {} /\ w \cap freed = {}
  BY <1>1, SurvivingWire
<1>5. \A v : v \in y.wires <=>
        /\ ~Touches(v, p6)
        /\ \/ v \in NewEnds(t, p2)
           \/ /\ v \in x.wires /\ ~Touches(v, c1) /\ ~Touches(v, p1)
              /\ v \cap freed = {} /\ v \cap ends = {}
  BY <1>1, RunIs
<1>p. PortsOfRun(x, y, t, c1, p1, c2, p2, p3, p4)
  BY <1>1, RunIs
<1>r. \A n \in y.up : \A i :
        /\ n \notin c1 \cup p1 /\ i \in x.ports[n] /\ <<n, i>> \notin freed /\ <<n, i>> \notin ends
        /\ \A v \in x.wires : <<n, i>> \in v => v \cap freed = {} /\ v \cap ends = {}
        => i \in y.ports[n]
  BY <1>p DEF PortsOfRun
<1>6. ~Touches(w, c1) /\ ~Touches(w, p1) /\ ~Touches(w, p6)
  BY <1>1, <1>2, <1>3
<1>7. w \in x.wires
  OBVIOUS
<1>8. \A u, v \in x.wires : u = v \/ u \cap v = {}
  BY DEF Physical
<1>9. ASSUME ~IsFabric(l), NEW n \in {l[1], l[2]}, n \in y.up, b.links[l].ifs[EndAt(l, n)] \in x.ports[n]
      PROVE  b.links[l].ifs[EndAt(l, n)] \in y.ports[n]
  <2> DEFINE i == b.links[l].ifs[EndAt(l, n)] e == <<n, i>>
  <2>1. e \in w
    BY <1>9, PortHasWire
  <2>2. n \notin c1 \cup p1 /\ i \in x.ports[n] /\ n \in y.up
    BY <1>1, <1>2, <1>9
  <2> HIDE DEF w, ends, freed
  <2>3. e \notin ends /\ e \notin freed
    BY <1>4, <2>1
  <2>4. ASSUME NEW v \in x.wires, e \in v PROVE v \cap freed = {} /\ v \cap ends = {}
    <3>1. v = w
      BY <1>7, <1>8, <2>1, <2>4
    <3> QED BY <3>1, <1>4
  <2> HIDE DEF i
  <2>5. i \in y.ports[n]
    BY <1>r, <2>2, <2>3, <2>4
  <2> QED BY <2>5 DEF i
<1> HIDE DEF w, ends, freed
<1>10. w \in y.wires
  BY <1>4, <1>5, <1>6, <1>7
<1> QED BY <1>9, <1>10 DEF w

\* A deploy that stops leaves the runtime between what it had and what it was to have.
LEMMA PartialRun ==
  ASSUME NEW x, NEW b, Sound(b), NEW t, Sound(t), Between(x, b, t), Rewired(b, t) = {},
         NEW c1, NEW p1, NEW c2, NEW p2, NEW p3, NEW p4, NEW p5, NEW p6,
         Within(b, t, c1, p1, c2, p2, p3, p4, p6),
         NEW y, y = Run(x, t, c1, p1, c2, p2, p3, p4, p5, p6)
  PROVE  Between(y, b, t)
<1> DEFINE B == DOMAIN b.nodes T == DOMAIN t.nodes
<1>1. Physical(x)
  BY DEF Between
<1>2. /\ c1 \subseteq T \ B /\ p1 \subseteq T \ B /\ p6 \subseteq B \ T
      /\ p2 \subseteq DOMAIN t.links \ DOMAIN b.links /\ Orderly(t, c2, p2, p3, p4)
  BY DEF Within
<1>3. /\ Physical(y) /\ y.up = ((x.up \ c1) \cup p1) \ p6
      /\ \A w : w \in y.wires => w \in NewEnds(t, p2) \/ w \in x.wires
      /\ \A n \in y.up : /\ n \in p5 \cup p1 => y.conf[n] = Conf(t, n)
                         /\ n \notin p5 \cup p1 => y.conf[n] = x.conf[n]
  BY <1>1, <1>2, RunIs
<1>4. ASSUME NEW l \in DOMAIN b.links \cap DOMAIN t.links
      PROVE  /\ Ends(b, l) \in y.wires
             /\ ~IsFabric(l) =>
                  \A n \in {l[1], l[2]} : n \in y.up /\ b.links[l].ifs[EndAt(l, n)] \in x.ports[n]
                                            => b.links[l].ifs[EndAt(l, n)] \in y.ports[n]
  <2>1. Ends(b, l) \in x.wires
    BY DEF Between
  <2> QED BY <1>1, <2>1, SurvivorStays
<1>5. \A n \in B \cap T : n \in x.up /\ n \in y.up
  BY <1>2, <1>3 DEF Between
<1>6. \A n \in y.up : n \in B \/ n \in T
  BY <1>2, <1>3 DEF Between
<1>7. \A w \in y.wires : w \in NewEnds(b, DOMAIN b.links) \/ w \in NewEnds(t, DOMAIN t.links)
  BY <1>2, <1>3 DEF Between, NewEnds
<1>8. \A n \in B \cap T : \A l \in DOMAIN b.links \cap DOMAIN t.links :
        n \in {l[1], l[2]} /\ ~IsFabric(l) => b.links[l].ifs[EndAt(l, n)] \in y.ports[n]
  BY <1>4, <1>5 DEF Between
<1>9. \A n \in B \cap T : y.conf[n] = Conf(b, n) \/ y.conf[n] = Conf(t, n)
  BY <1>3, <1>5 DEF Between
<1> QED BY <1>3, <1>4, <1>5, <1>6, <1>7, <1>8, <1>9 DEF Between

\* A new rack link at a surviving node is an access link at its leaf: the peer
\* of a leaf, and the leaves of a server, came with it.
LEMMA NewRackLink ==
  ASSUME NEW b, Sound(b), NEW t, Sound(t), NEW n \in DOMAIN b.nodes,
         NEW l \in DOMAIN t.links \ DOMAIN b.links, n \in {l[1], l[2]}, ~IsFabric(l)
  PROVE  IsAccess(l) /\ n = l[1]
<1> DEFINE B == DOMAIN b.nodes p == l[1] q == l[2]
<1>1. \A k : k \in DOMAIN b.links <=> k \in B \X B /\ Linked(k[1], k[2])
  BY DEF Sound
<1>2. l = <<p, q>> /\ Linked(p, q) /\ p \in DOMAIN t.nodes /\ q \in DOMAIN t.nodes
  BY LinkEnds
<1>3. ~(p \in B /\ q \in B)
  <2> HIDE DEF B
  <2>1. SUFFICES ASSUME p \in B, q \in B PROVE FALSE
    OBVIOUS
  <2>2. l \in B \X B
    BY <1>2, <2>1
  <2>3. Linked(l[1], l[2])
    BY <1>2
  <2> QED BY <1>1, <2>2, <2>3, Zenon
<1>4. IsServer(q) \/ (IsLeaf(p) /\ IsLeaf(q))
  BY DEF IsFabric
<1>5. NodeOK(t, p) /\ NodeOK(t, q) /\ NodeOK(b, n)
  BY <1>2 DEF Sound
<1>6. /\ p = [role |-> p.role, pod |-> p.pod, rack |-> p.rack, i |-> p.i]
      /\ q = [role |-> q.role, pod |-> q.pod, rack |-> q.rack, i |-> q.i]
  BY <1>5 DEF NodeOK, Nodes
<1>7. /\ p.role = "leaf" => p.i \in {1, 2}
      /\ q.role = "leaf" => q.i \in {1, 2}
      /\ n.role \in {"leaf", "server"} => LeafOf(n, 1) \in B /\ LeafOf(n, 2) \in B
  BY <1>5 DEF NodeOK
<1>8. n = p \/ n = q
  OBVIOUS
<1>a. n \in B
  OBVIOUS
<1>9. IsAccess(l) <=> IsServer(q)
  BY DEF IsAccess
<1> HIDE DEF p, q, B
<1>10. CASE IsServer(q)
  <2>1. p.role = "leaf" /\ p.pod = q.pod /\ p.rack = q.rack
    BY <1>2, <1>10 DEF Linked, IsServer
  <2>2. p = LeafOf(q, p.i)
    BY <1>6, <2>1 DEF LeafOf, Node
  <2>3. n # q
    BY <1>a, <1>3, <1>7, <1>10, <2>1, <2>2 DEF IsServer
  <2> QED BY <1>8, <1>9, <1>10, <2>3 DEF p
<1>11. CASE IsLeaf(p) /\ IsLeaf(q)
  <2>1. p.role = "leaf" /\ q.role = "leaf" /\ p.pod = q.pod /\ p.rack = q.rack
    BY <1>2, <1>11 DEF Linked, IsLeaf
  <2>2. p = LeafOf(q, p.i) /\ q = LeafOf(p, q.i)
    BY <1>6, <2>1 DEF LeafOf, Node
  <2> QED BY <1>a, <1>3, <1>7, <1>8, <2>1, <2>2
<1> QED BY <1>4, <1>10, <1>11

\* A deploy that ends leaves the runtime with the new topology, as far on the way
\* to a third one as it was before.
LEMMA FullRun ==
  ASSUME NEW x, NEW b, Sound(b), NEW d, Sound(d), NEW t, Sound(t), Between(x, b, t), Rewired(b, d) = {},
         NEW c1, NEW p1, NEW c2, NEW p2, NEW p3, NEW p4, NEW p5, NEW p6,
         Within(b, d, c1, p1, c2, p2, p3, p4, p6), Throughout(b, d, c1, p1, c2, p2, p3, p4, p5, p6),
         NEW y, y = Run(x, d, c1, p1, c2, p2, p3, p4, p5, p6)
  PROVE  Between(y, d, t)
<1> DEFINE B == DOMAIN b.nodes D == DOMAIN d.nodes T == DOMAIN t.nodes
           BL == DOMAIN b.links DL == DOMAIN d.links TL == DOMAIN t.links
<1>1. Physical(x)
  BY DEF Between
<1>2. /\ c1 = {} /\ c2 = {} /\ p1 = D \ B /\ p2 = DL \ BL /\ p6 = B \ D
      /\ p5 = {n \in B \cap D : Conf(b, n) # Conf(d, n)}
  BY DEF Throughout
<1>o. Orderly(d, c2, p2, p3, p4)
  BY DEF Within
<1>3. /\ Physical(y) /\ y.up = ((x.up \ c1) \cup p1) \ p6
      /\ \A w : w \in y.wires =>
           /\ ~Touches(w, p6)
           /\ w \in NewEnds(d, p2) \/ w \in x.wires
      /\ \A w : ~Touches(w, p6) /\ w \in NewEnds(d, p2) => w \in y.wires
      /\ \A n \in y.up : /\ n \in p5 \cup p1 => y.conf[n] = Conf(d, n)
                         /\ n \notin p5 \cup p1 => y.conf[n] = x.conf[n]
  BY <1>1, <1>o, RunIs
<1>r. PortsOfRun(x, y, d, c1, p1, c2, p2, p3, p4)
  BY <1>1, <1>o, RunIs
<1>p. \A n \in y.up : \A i : n \in p1 /\ i \in Ports(d, n) => i \in y.ports[n]
  <2>1. \A n \in p1 : \A i \in Ports(d, n) : <<n, i>> \in p3
    BY DEF Throughout
  <2> QED BY <1>r, <2>1 DEF PortsOfRun
<1>q. \A n \in y.up : \A l \in p2 : IsAccess(l) /\ l[1] = n /\ n \in B => d.links[l].ifs[1] \in y.ports[n]
  <2>1. \A l \in p2 : IsAccess(l) /\ l[1] \in B => <<l[1], d.links[l].ifs[1]>> \in p4
    BY DEF Throughout
  <2> SUFFICES ASSUME NEW n \in y.up, NEW l \in p2
               PROVE  IsAccess(l) /\ l[1] = n /\ n \in B => d.links[l].ifs[1] \in y.ports[n]
    OBVIOUS
  <2> DEFINE i == d.links[l].ifs[1]
  <2> HIDE DEF i, B
  <2>2. IsAccess(l) /\ l[1] = n /\ n \in B => <<n, i>> \in p4
    BY <2>1 DEF i
  <2>3. <<n, i>> \in p4 => i \in y.ports[n]
    BY <1>r DEF PortsOfRun
  <2> QED BY <2>2, <2>3 DEF i
<1>x. /\ \A n \in B \cap T : n \in x.up
      /\ \A n \in x.up : n \in B \/ n \in T
      /\ \A l \in BL \cap TL : Ends(b, l) \in x.wires
      /\ \A w \in x.wires : w \in NewEnds(b, BL) \/ w \in NewEnds(t, TL)
      /\ \A n \in B \cap T : \A l \in BL \cap TL :
           n \in {l[1], l[2]} /\ ~IsFabric(l) => b.links[l].ifs[EndAt(l, n)] \in x.ports[n]
      /\ \A n \in B \cap T : x.conf[n] = Conf(b, n) \/ x.conf[n] = Conf(t, n)
  BY DEF Between
<1>4. ASSUME NEW l \in BL \cap DL, Ends(b, l) \in x.wires
      PROVE  /\ Ends(b, l) \in y.wires
             /\ ~IsFabric(l) =>
                  \A n \in {l[1], l[2]} : n \in y.up /\ b.links[l].ifs[EndAt(l, n)] \in x.ports[n]
                                            => b.links[l].ifs[EndAt(l, n)] \in y.ports[n]
  BY <1>1, <1>4, SurvivorStays
<1>5. \A l \in BL \cap DL : Ends(b, l) = Ends(d, l) /\ b.links[l].ifs = d.links[l].ifs
  <2> TAKE l \in BL \cap DL
  <2>1. b.links[l].ifs = d.links[l].ifs
    BY DEF Rewired
  <2> QED BY <2>1 DEF Ends
<1>6. \A n \in D \cap T : n \in y.up
  BY <1>2, <1>3, <1>x
<1>7. \A n \in y.up : n \in D \/ n \in T
  BY <1>2, <1>3, <1>x
<1>8. ASSUME NEW l \in DL \cap TL PROVE Ends(d, l) \in y.wires
  <2>1. CASE l \in BL
    BY <2>1, <1>4, <1>5, <1>x
  <2>2. CASE l \notin BL
    <3>1. Ends(d, l) \in NewEnds(d, p2)
      BY <2>2, <1>2 DEF NewEnds
    <3>2. l[1] \in D /\ l[2] \in D
      BY LinkEnds
    <3>3. ~Touches(Ends(d, l), p6)
      BY <3>2, <1>2, EndsAre
    <3> QED BY <1>3, <3>1, <3>3
  <2> QED BY <2>1, <2>2
<1>9. ASSUME NEW w \in y.wires PROVE w \in NewEnds(d, DL) \/ w \in NewEnds(t, TL)
  <2>1. CASE w \in NewEnds(d, p2)
    BY <2>1, <1>2 DEF NewEnds
  <2>2. CASE w \in x.wires /\ w \in NewEnds(b, BL)
    <3>1. PICK l \in BL : w = Ends(b, l)
      BY <2>2 DEF NewEnds
    <3>2. CASE l \in DL
      BY <3>1, <3>2, <1>5 DEF NewEnds
    <3>3. CASE l \notin DL
      <4>1. Supported(b, d)
        BY SoundIsSupported
      <4>2. ~({l[1], l[2]} \subseteq D)
        BY <4>1, <3>3 DEF Supported
      <4>3. l[1] \in B /\ l[2] \in B
        BY LinkEnds
      <4>4. l[1] \in p6 \/ l[2] \in p6
        BY <4>2, <4>3, <1>2
      <4>5. Touches(w, p6)
        BY <3>1, <4>4, EndsAre
      <4> QED BY <4>5, <1>3
    <3> QED BY <3>2, <3>3
  <2>3. CASE w \in x.wires /\ w \in NewEnds(t, TL)
    BY <2>3
  <2> QED BY <1>3, <1>x, <2>1, <2>2, <2>3
<1>10. ASSUME NEW n \in D \cap T, NEW l \in DL \cap TL, n \in {l[1], l[2]}, ~IsFabric(l)
       PROVE  d.links[l].ifs[EndAt(l, n)] \in y.ports[n]
  <2> DEFINE i == d.links[l].ifs[EndAt(l, n)]
  <2>1. n \in y.up
    BY <1>6
  <2>2. CASE n \notin B
    <3>1. i \in Ports(d, n) /\ n \in p1
      BY <2>2, <1>2, <1>10 DEF Ports, At
    <3> HIDE DEF i
    <3>2. i \in y.ports[n]
      BY <2>1, <3>1, <1>p
    <3> QED BY <3>2 DEF i
  <2>3. CASE n \in B /\ l \in BL
    <3>1. Ends(b, l) \in x.wires /\ b.links[l].ifs[EndAt(l, n)] \in x.ports[n] /\ l \in BL \cap DL
      BY <2>3, <1>10, <1>x
    <3>2. b.links[l].ifs[EndAt(l, n)] \in y.ports[n]
      BY <2>1, <3>1, <1>4, <1>10
    <3>3. b.links[l].ifs = d.links[l].ifs
      BY <3>1, <1>5
    <3> QED BY <3>2, <3>3
  <2>4. CASE n \in B /\ l \notin BL
    <3>1. IsAccess(l) /\ n = l[1]
      BY <2>4, <1>10, NewRackLink
    <3>2. l \in p2
      BY <2>4, <1>2
    <3>3. i = d.links[l].ifs[1]
      BY <3>1 DEF EndAt
    <3> HIDE DEF i
    <3>4. i \in y.ports[n]
      BY <2>1, <2>4, <3>1, <3>2, <3>3, <1>q
    <3> QED BY <3>4 DEF i
  <2> QED BY <2>2, <2>3, <2>4
<1>11. ASSUME NEW n \in D \cap T PROVE y.conf[n] = Conf(d, n) \/ y.conf[n] = Conf(t, n)
  <2>1. n \in y.up
    BY <1>6
  <2>2. CASE n \in p5 \cup p1
    BY <2>1, <2>2, <1>3
  <2>3. CASE n \notin p5 \cup p1
    <3>1. n \in B /\ Conf(b, n) = Conf(d, n)
      BY <2>3, <1>2
    <3>2. y.conf[n] = x.conf[n]
      BY <2>1, <2>3, <1>3
    <3> QED BY <3>1, <3>2, <1>x
  <2> QED BY <2>2, <2>3
<1> QED BY <1>3, <1>6, <1>7, <1>8, <1>9, <1>10, <1>11 DEF Between

\* A runtime that has just b is between b and any topology.
LEMMA BetweenAny ==
  ASSUME NEW x, NEW b, Between(x, b, b), NEW t
  PROVE  Between(x, b, t)
BY DEF Between

\* So is one that is deployed from scratch.
LEMMA FreshIsBetween ==
  ASSUME NEW b, Sound(b)
  PROVE  Between(FullDeploy(b), b, b)
<1> DEFINE x == FullDeploy(b) B == DOMAIN b.nodes L == DOMAIN b.links
           v == {Ends(b, l) : l \in L} p == [n \in B |-> Ports(b, n)] c == [n \in B |-> Conf(b, n)]
<1>1. x = [up |-> B, wires |-> v, stale |-> {}, ports |-> p, conf |-> c]
  BY DEF FullDeploy
<1>2. /\ p = [n \in B |-> p[n]] /\ c = [n \in B |-> c[n]] /\ v = NewEnds(b, L)
      /\ \A n \in B : p[n] = Ports(b, n) /\ c[n] = Conf(b, n)
  BY DEF NewEnds
<1> HIDE DEF x, p, c, v, B, L
<1>3. /\ x.up = B /\ x.wires = NewEnds(b, L) /\ x.stale = {} /\ x.ports = p /\ x.conf = c
  BY <1>1, <1>2
<1>4. Shape(x)
  BY <1>1, <1>2, <1>3 DEF Shape
<1>5. ASSUME NEW w \in x.wires, NEW u \in x.wires PROVE w = u \/ w \cap u = {}
  <2>1. PICK l \in L : w = Ends(b, l)
    BY <1>3 DEF NewEnds
  <2>2. PICK k \in L : u = Ends(b, k)
    BY <1>3 DEF NewEnds
  <2>3. ASSUME NEW e, e \in w, e \in u PROVE l = k
    BY <2>1, <2>2, <2>3, EndsAreOwn DEF L
  <2> QED BY <2>1, <2>2, <2>3
<1>6. ASSUME NEW n \in x.up, NEW i \in x.ports[n]
      PROVE  \E w \in x.wires : <<n, i>> \in w /\ OfRack(w)
  <2>1. i \in Ports(b, n)
    BY <1>2, <1>3, <1>6
  <2>2. PICK l \in At(b, n) : ~IsFabric(l) /\ i = b.links[l].ifs[EndAt(l, n)]
    BY <2>1 DEF Ports
  <2>3. l \in DOMAIN b.links /\ n \in {l[1], l[2]}
    BY DEF At
  <2>4. <<n, i>> \in Ends(b, l) /\ OfRack(Ends(b, l))
    BY <2>2, <2>3, PortHasWire
  <2>5. Ends(b, l) \in x.wires
    BY <1>3, <2>3 DEF NewEnds, L
  <2> QED BY <2>4, <2>5
<1>7. Physical(x)
  BY <1>3, <1>4, <1>5, <1>6 DEF Physical
<1>8. \A l \in L : Ends(b, l) \in x.wires
  BY <1>3 DEF NewEnds
<1>9. ASSUME NEW n \in B, NEW l \in L, n \in {l[1], l[2]}, ~IsFabric(l)
      PROVE  b.links[l].ifs[EndAt(l, n)] \in x.ports[n]
  <2> DEFINE i == b.links[l].ifs[EndAt(l, n)]
  <2>1. i \in Ports(b, n)
    BY <1>9 DEF Ports, At, L
  <2> HIDE DEF i
  <2>2. i \in x.ports[n]
    BY <2>1, <1>2, <1>3
  <2> QED BY <2>2 DEF i
<1>10. \A n \in B : x.conf[n] = Conf(b, n)
  BY <1>2, <1>3
<1>11. Between(x, b, b)
  BY <1>3, <1>7, <1>8, <1>9, <1>10 DEF Between, B, L
<1> QED BY <1>11 DEF x

----------------------------------------------------------------------------
(* What lingers *)

\* The runtime when the kernel has torn down what lingers.
Gone(x) == [DropPorts(x, x.stale) EXCEPT !.stale = {}]

\* What the tear-down does: the interfaces that linger leave bridge and bond.
LEMMA GoneIs ==
  ASSUME NEW x, Shape(x), NEW y, y = Gone(x)
  PROVE  /\ Shape(y) /\ y.up = x.up /\ y.wires = x.wires /\ y.stale = {} /\ y.conf = x.conf
         /\ \A n \in x.up : \A i : i \in y.ports[n] <=> i \in x.ports[n] /\ <<n, i>> \notin x.stale
<1> DEFINE z == DropPorts(x, x.stale)
<1>1. /\ Shape(z) /\ z.up = x.up /\ z.wires = x.wires /\ z.conf = x.conf
      /\ \A n \in x.up : z.ports[n] = {i \in x.ports[n] : <<n, i>> \notin x.stale}
  <2> DEFINE s == x.stale
  <2> HIDE DEF s
  <2>1. \A e : e = s => /\ Shape(DropPorts(x, e)) /\ DropPorts(x, e).up = x.up /\ DropPorts(x, e).wires = x.wires
                        /\ DropPorts(x, e).conf = x.conf
                        /\ \A n \in x.up : DropPorts(x, e).ports[n] = {i \in x.ports[n] : <<n, i>> \notin e}
    BY DropPortsIs
  <2> QED BY <2>1 DEF s
<1> HIDE DEF z
<1>2. y = [z EXCEPT !.stale = {}]
  BY DEF z, Gone
<1>3. y = [up |-> x.up, wires |-> x.wires, stale |-> {}, ports |-> z.ports, conf |-> x.conf]
  BY <1>1, <1>2 DEF Shape
<1>4. /\ y.up = x.up /\ y.wires = x.wires /\ y.stale = {} /\ y.ports = z.ports /\ y.conf = x.conf
      /\ z.ports = [n \in x.up |-> z.ports[n]] /\ x.conf = [n \in x.up |-> x.conf[n]]
  BY <1>1, <1>3 DEF Shape
<1>5. Shape(y)
  BY <1>3, <1>4 DEF Shape
<1>6. \A n \in x.up : \A i : i \in y.ports[n] <=> i \in x.ports[n] /\ <<n, i>> \notin x.stale
  BY <1>1, <1>4
<1> QED BY <1>4, <1>5, <1>6

\* It leaves every port that a surviving link needs.
LEMMA GoneIsBetween ==
  ASSUME NEW x, NEW b, Sound(b), NEW t, Between(x, b, t), NEW y, y = Gone(x)
  PROVE  Between(y, b, t)
<1>1. Physical(x) /\ Shape(x)
  BY DEF Between, Physical
<1>2. /\ Shape(y) /\ y.up = x.up /\ y.wires = x.wires /\ y.stale = {} /\ y.conf = x.conf
      /\ \A n \in x.up : \A i : i \in y.ports[n] <=> i \in x.ports[n] /\ <<n, i>> \notin x.stale
  BY <1>1, GoneIs
<1>3. Physical(y)
  <2>1. \A n \in y.up : \A i \in y.ports[n] : \E w \in y.wires : <<n, i>> \in w /\ OfRack(w)
    BY <1>1, <1>2 DEF Physical
  <2> QED BY <1>1, <1>2, <2>1 DEF Physical
<1>4. ASSUME NEW n \in DOMAIN b.nodes \cap DOMAIN t.nodes, NEW l \in DOMAIN b.links \cap DOMAIN t.links,
             n \in {l[1], l[2]}, ~IsFabric(l)
      PROVE  b.links[l].ifs[EndAt(l, n)] \in y.ports[n]
  <2> DEFINE i == b.links[l].ifs[EndAt(l, n)] e == <<n, i>> w == Ends(b, l)
  <2>1. n \in x.up /\ i \in x.ports[n] /\ w \in x.wires
    BY <1>4 DEF Between
  <2>2. e \in w
    BY <1>4, PortHasWire
  <2> HIDE DEF w
  <2>3. e \notin x.stale
    BY <1>1, <2>1, <2>2 DEF Physical
  <2> HIDE DEF i
  <2>4. i \in y.ports[n]
    BY <1>2, <2>1, <2>3
  <2> QED BY <2>4 DEF i
<1> QED BY <1>2, <1>3, <1>4 DEF Between

\* When all of it has passed, a runtime that has just b is the one deployed from scratch.
LEMMA SettledIsFresh ==
  ASSUME NEW x, NEW b, Sound(b), Between(x, b, b), NEW y, y = Gone(x)
  PROVE  y = FullDeploy(b)
<1> DEFINE B == DOMAIN b.nodes L == DOMAIN b.links
           v == {Ends(b, l) : l \in L} p == [n \in B |-> Ports(b, n)] c == [n \in B |-> Conf(b, n)]
<1>1. Between(y, b, b)
  BY GoneIsBetween
<1>2. y.stale = {}
  <2>1. Shape(x)
    BY DEF Between, Physical
  <2> QED BY <2>1, GoneIs
<1>3. Physical(y) /\ Shape(y)
  BY <1>1 DEF Between, Physical
<1>4. y.up = B
  BY <1>1 DEF Between
<1>5. y.wires = v
  BY <1>1 DEF Between, NewEnds
<1>6. \A n \in B : y.conf[n] = c[n]
  BY <1>1 DEF Between
<1>7. ASSUME NEW n \in B PROVE y.ports[n] = p[n]
  <2>1. ASSUME NEW i \in Ports(b, n) PROVE i \in y.ports[n]
    <3>1. PICK l \in At(b, n) : ~IsFabric(l) /\ i = b.links[l].ifs[EndAt(l, n)]
      BY <2>1 DEF Ports
    <3>2. l \in DOMAIN b.links /\ n \in {l[1], l[2]}
      BY DEF At
    <3> QED BY <1>1, <3>1, <3>2 DEF Between
  <2>2. ASSUME NEW i \in y.ports[n] PROVE i \in Ports(b, n)
    <3>1. PICK w \in y.wires : <<n, i>> \in w /\ OfRack(w)
      BY <1>2, <1>3, <1>4, <2>2 DEF Physical
    <3>2. PICK l \in L : w = Ends(b, l)
      BY <1>5
    <3>3. Linked(l[1], l[2])
      BY LinkEnds
    <3>4. l[1] # l[2]
      BY <3>3, EndsDiffer
    <3>5. ~IsFabric(l)
      BY <3>1, <3>2, <3>3, RackWires
    <3>6. n \in {l[1], l[2]} /\ i = b.links[l].ifs[EndAt(l, n)]
      BY <3>1, <3>2, <3>4, EndsAre
    <3> QED BY <3>5, <3>6 DEF Ports, At
  <2> QED BY <2>1, <2>2
<1>8. p = [n \in B |-> p[n]] /\ c = [n \in B |-> c[n]]
  OBVIOUS
<1>9. FullDeploy(b) = [up |-> B, wires |-> v, stale |-> {}, ports |-> p, conf |-> c]
  BY DEF FullDeploy
<1> HIDE DEF B, v, p, c
<1>10. y.ports = p /\ y.conf = c
  <2>1. y.ports = [n \in B |-> y.ports[n]] /\ y.conf = [n \in B |-> y.conf[n]]
    BY <1>3, <1>4 DEF Shape
  <2>2. [n \in B |-> y.ports[n]] = [n \in B |-> p[n]]
    BY <1>7
  <2>3. [n \in B |-> y.conf[n]] = [n \in B |-> c[n]]
    BY <1>6
  <2> QED BY <2>1, <2>2, <2>3, <1>8
<1>11. y = [up |-> y.up, wires |-> y.wires, stale |-> y.stale, ports |-> y.ports, conf |-> y.conf]
  BY <1>3 DEF Shape
<1> QED BY <1>2, <1>4, <1>5, <1>9, <1>10, <1>11

----------------------------------------------------------------------------
(* The runtime *)

\* What is known of the runtime that an increment starts from: no link was left
\* on other interfaces and at most one topology was tried and not made good.
Incremental(x, b, failed) ==
  /\ failed = {} => Between(x, b, b)
  /\ \A t \in failed : failed \subseteq {t} => Between(x, b, t)
RInv ==
  /\ FInv
  /\ \A t \in tried : Sound(t)
  /\ gen # 0 /\ moved = {} => Incremental(live, Deployed, tried)

\* With at most t tried it is between b and t.
LEMMA IncrementalIs ==
  ASSUME NEW x, NEW b, NEW failed, Incremental(x, b, failed), NEW t, failed \subseteq {t}
  PROVE  Between(x, b, t)
<1>1. CASE failed = {}
  BY <1>1, BetweenAny DEF Incremental
<1>2. CASE failed # {}
  BY <1>2 DEF Incremental
<1> QED BY <1>1, <1>2

\* An apply that ends makes its topology the one that is deployed.
LEMMA AppliedIs ==
  ASSUME FInv, NEW x, Applied(x)
  PROVE  Deployed' = desired /\ gen' # 0 /\ live' = x
<1> DEFINE r == [spec |-> spec, topo |-> desired] S == Range(snaps) \cup {r} old == SubSeq(snaps, 1, gen)
<1>1. live' = x /\ gen' = gen + 1 /\ snaps' = Append(old, r)
  BY DEF Applied, SaveGeneration
<1>2. snaps \in Seq(Range(snaps)) /\ gen \in 0 .. Len(snaps)
  BY DEF FInv, History
<1>3. snaps \in Seq(S)
  <2> DEFINE R == Range(snaps)
  <2>1. snaps \in Seq(R)
    BY <1>2
  <2> HIDE DEF r, R
  <2> QED BY <2>1 DEF R
<1>4. r \in S /\ r.topo = desired
  OBVIOUS
<1> HIDE DEF r, S
<1>5. Len(snaps) \in Nat /\ gen \in Nat /\ gen <= Len(snaps)
  BY <1>2, <1>3
<1>6. old \in Seq(S) /\ Len(old) = gen
  BY <1>3, <1>5
<1> HIDE DEF old
<1>7. snaps'[gen + 1] = r
  BY <1>1, <1>4, <1>6
<1>8. gen' # 0 /\ gen' = gen + 1
  BY <1>1, <1>5
<1> QED BY <1>1, <1>4, <1>7, <1>8 DEF Deployed

\* The deploy of an increment that ends takes the runtime to its topology.
LEMMA IncrementEnds ==
  ASSUME FInv, NEW t, Sound(t), Between(live, Deployed, t), Rewired(Deployed, desired) = {}
  PROVE  Between(Incremented, desired, t)
<1> DEFINE b == Deployed inc == Increment(b, desired) x == live
<1>1. Sound(b) /\ Sound(desired)
  BY DeployedIsSound DEF FInv
<1>2. Incremented = DeployIncrement(x, desired, inc, 7, {}, {})
  BY DEF Incremented, Phases
<1> HIDE DEF b, x
<1> DEFINE k == 7 part == {}
<1>k. k \in 1 .. 7 /\ (k = 7 \/ (part \subseteq Items(inc)[k] /\ part \subseteq Items(inc)[k]))
  OBVIOUS
<1>e. Incremented = DeployIncrement(x, desired, inc, k, part, part) /\ k = 7
  BY <1>2
<1> HIDE DEF k, part
<1>p. inc = Increment(b, desired)
  OBVIOUS
<1> HIDE DEF inc
<1>d. Deploys(x, b, desired, k, DeployIncrement(x, desired, inc, k, part, part))
  BY <1>1, <1>k, <1>p, DeployIs
<1>3. PICK c1, p1, c2, p2, p3, p4, p5, p6 :
        /\ DeployIncrement(x, desired, inc, k, part, part) = Run(x, desired, c1, p1, c2, p2, p3, p4, p5, p6)
        /\ Within(b, desired, c1, p1, c2, p2, p3, p4, p6)
        /\ k = 7 => Throughout(b, desired, c1, p1, c2, p2, p3, p4, p5, p6)
  BY <1>d DEF Deploys
<1> QED BY <1>1, <1>e, <1>3, FullRun DEF b, x

\* One that stops leaves it on the way there.
LEMMA IncrementStops ==
  ASSUME FInv, Between(live, Deployed, desired), Rewired(Deployed, desired) = {}, ApplyFails
  PROVE  Between(live', Deployed, desired)
<1> DEFINE b == Deployed inc == Increment(b, desired) x == live
<1>1. Sound(b) /\ Sound(desired)
  BY DeployedIsSound DEF FInv
<1>2. \E k \in 1 .. 7 : \E part, cut :
        /\ k = 7 \/ (part \subseteq Items(inc)[k] /\ cut \subseteq Items(inc)[k])
        /\ live' = DeployIncrement(x, desired, inc, k, part, cut)
  <2>1. CASE live' = Incremented
    BY <2>1 DEF Incremented, Phases
  <2>2. ASSUME NEW k \in 1 .. Phases, NEW left \in Left(Items(inc)[k]), NEW cut \in SUBSET left,
               live' = DeployIncrement(live, desired, inc, k, Items(inc)[k] \ left, cut)
        PROVE  \E i \in 1 .. 7 : \E p, c : /\ i = 7 \/ (p \subseteq Items(inc)[i] /\ c \subseteq Items(inc)[i])
                                           /\ live' = DeployIncrement(x, desired, inc, i, p, c)
    <3>1. k \in 1 .. 7
      BY DEF Phases
    <3> DEFINE items == Items(inc)[k] part == items \ left
    <3>2. part \subseteq items /\ cut \subseteq items
      <4>1. left \in Left(items) /\ cut \subseteq left
        BY <2>2
      <4> HIDE DEF items
      <4>2. PICK f \in [1 .. MaxLeft -> items] : left = Range(f)
        BY <4>1 DEF Left
      <4>3. left \subseteq items
        BY <4>2 DEF Range
      <4> QED BY <4>1, <4>3
    <3>3. live' = DeployIncrement(x, desired, inc, k, part, cut)
      BY <2>2
    <3> HIDE DEF part
    <3> QED BY <3>1, <3>2, <3>3
  <2> QED BY <2>1, <2>2 DEF ApplyFails
<1>3. PICK k \in 1 .. 7 : \E part, cut :
        /\ k = 7 \/ (part \subseteq Items(inc)[k] /\ cut \subseteq Items(inc)[k])
        /\ live' = DeployIncrement(x, desired, inc, k, part, cut)
  BY <1>2
<1>4. PICK part, cut :
        /\ k = 7 \/ (part \subseteq Items(inc)[k] /\ cut \subseteq Items(inc)[k])
        /\ live' = DeployIncrement(x, desired, inc, k, part, cut)
  BY <1>3
<1> HIDE DEF b, x
<1>p. inc = Increment(b, desired)
  OBVIOUS
<1> HIDE DEF inc
<1>d. Deploys(x, b, desired, k, DeployIncrement(x, desired, inc, k, part, cut))
  BY <1>1, <1>4, <1>p, DeployIs
<1>5. PICK c1, p1, c2, p2, p3, p4, p5, p6 :
        /\ DeployIncrement(x, desired, inc, k, part, cut) = Run(x, desired, c1, p1, c2, p2, p3, p4, p5, p6)
        /\ Within(b, desired, c1, p1, c2, p2, p3, p4, p6)
        /\ k = 7 => Throughout(b, desired, c1, p1, c2, p2, p3, p4, p5, p6)
  BY <1>d DEF Deploys
<1> QED BY <1>1, <1>4, <1>5, PartialRun DEF b, x

\* At first nothing is deployed.
LEMMA InitRInv == Init => RInv
BY InitFInv DEF Init, RInv

\* One step per action: an increment that stops leaves the runtime on the way,
\* one that ends brings it there, a deploy from scratch starts afresh.
LEMMA NextRInv == RInv /\ [Next]_vars => RInv'
<1> SUFFICES ASSUME RInv, [Next]_vars PROVE RInv'
  OBVIOUS
<1>0. FInv /\ FInv' /\ \A t \in tried : Sound(t)
  BY NextFInv DEF RInv
<1>b. Sound(Deployed) /\ Sound(desired)
  BY <1>0, DeployedIsSound DEF FInv
<1>k. ASSUME UNCHANGED <<gen, snaps>> PROVE Deployed' = Deployed
  BY <1>k DEF Deployed
<1>1. ASSUME NEW s \in Specs, UpdateTopology(s) PROVE RInv'
  BY <1>0, <1>1, <1>k DEF UpdateTopology, RInv
<1>2. CASE CreatePlan
  BY <1>0, <1>2, <1>k DEF CreatePlan, RInv
<1>3. ASSUME NEW g \in DOMAIN snaps, CreateRollbackPlan(g) PROVE RInv'
  BY <1>0, <1>3, <1>k DEF CreateRollbackPlan, RInv
<1>4. CASE ApplyFull
  <2>1. Applied(FullDeploy(desired)) /\ gen = 0 /\ moved' = {}
    BY <1>4 DEF ApplyFull
  <2>2. Deployed' = desired /\ live' = FullDeploy(desired)
    BY <1>0, <2>1, AppliedIs
  <2>3. tried' = IF tried \subseteq {desired} THEN {} ELSE tried
    BY <2>1 DEF Applied
  <2>4. Between(live', Deployed', Deployed')
    BY <1>b, <2>2, FreshIsBetween
  <2>5. \A t : Between(live', Deployed', t)
    BY <2>4, BetweenAny
  <2> QED BY <1>0, <2>3, <2>5 DEF RInv, Incremental
<1>5. CASE ApplyIncrement
  <2>1. Applied(Incremented) /\ gen # 0 /\ moved' = moved \cup Rewired(Deployed, desired)
    BY <1>5 DEF ApplyIncrement
  <2>2. Deployed' = desired /\ live' = Incremented
    BY <1>0, <2>1, AppliedIs
  <2>3. tried' = IF tried \subseteq {desired} THEN {} ELSE tried
    BY <2>1 DEF Applied
  <2>4. ASSUME moved' = {} PROVE Incremental(live', Deployed', tried')
    <3>1. Incremental(live, Deployed, tried) /\ Rewired(Deployed, desired) = {}
      BY <2>1, <2>4 DEF RInv
    <3>2. ASSUME NEW t, Sound(t), tried \subseteq {t} PROVE Between(live', Deployed', t)
      <4>1. Between(live, Deployed, t)
        BY <3>1, <3>2, IncrementalIs
      <4> QED BY <1>0, <2>2, <3>1, <3>2, <4>1, IncrementEnds
    <3>3. CASE tried \subseteq {desired}
      <4>1. tried' = {}
        BY <2>3, <3>3
      <4>2. Between(live', Deployed', Deployed')
        BY <1>b, <2>2, <3>2, <3>3
      <4> QED BY <4>1, <4>2 DEF Incremental
    <3>4. CASE ~(tried \subseteq {desired})
      <4>1. tried' = tried /\ tried # {}
        BY <2>3, <3>4
      <4> QED BY <1>0, <3>2, <4>1 DEF Incremental
    <3> QED BY <3>3, <3>4
  <2>5. \A t \in tried' : Sound(t)
    BY <1>0, <2>3
  <2> QED BY <1>0, <2>4, <2>5 DEF RInv
<1>6. CASE ApplyFails
  <2>1. /\ SaveGeneration /\ gen' = gen /\ gen # 0
        /\ tried' = tried \cup {desired} /\ moved' = moved \cup Rewired(Deployed, desired)
    BY <1>6 DEF ApplyFails
  <2>2. Deployed' = Deployed
    BY <1>0, <2>1, SaveKeepsHistory
  <2>3. ASSUME moved' = {} PROVE Incremental(live', Deployed', tried')
    <3>1. Incremental(live, Deployed, tried) /\ Rewired(Deployed, desired) = {}
      BY <2>1, <2>3 DEF RInv
    <3>2. ASSUME NEW t \in tried', tried' \subseteq {t} PROVE Between(live', Deployed', t)
      <4>1. t = desired /\ tried \subseteq {desired}
        BY <2>1, <3>2
      <4>2. Between(live, Deployed, desired)
        BY <3>1, <4>1, IncrementalIs
      <4> QED BY <1>0, <1>6, <2>2, <3>1, <4>1, <4>2, IncrementStops
    <3> QED BY <2>1, <3>2 DEF Incremental
  <2>4. \A t \in tried' : Sound(t)
    BY <1>0, <1>b, <2>1
  <2> QED BY <1>0, <2>3, <2>4 DEF RInv
<1>7. CASE RepairLab
  <2>1. /\ live' = FullDeploy(Deployed) /\ tried' = {} /\ UNCHANGED <<gen, snaps>>
    BY <1>7 DEF RepairLab
  <2>2. Deployed' = Deployed
    BY <1>k, <2>1
  <2>3. Between(live', Deployed', Deployed')
    BY <1>b, <2>1, <2>2, FreshIsBetween
  <2> QED BY <1>0, <2>1, <2>3 DEF RInv, Incremental
<1>8. CASE NamespacesGone
  <2>1. /\ live' = Gone(live) /\ UNCHANGED <<gen, snaps>> /\ tried' = tried /\ moved' = moved
    BY <1>8 DEF NamespacesGone, Gone
  <2>2. Deployed' = Deployed
    BY <1>k, <2>1
  <2>3. \A t : Between(live, Deployed, t) => Between(live', Deployed', t)
    BY <1>b, <2>1, <2>2, GoneIsBetween
  <2>4. gen' # 0 /\ moved' = {} => Incremental(live', Deployed', tried')
    BY <2>1, <2>2, <2>3 DEF RInv, Incremental
  <2> QED BY <1>0, <2>1, <2>4 DEF RInv
<1>9. CASE UNCHANGED vars
  BY <1>0, <1>9, <1>k DEF vars, RInv
<1> QED BY <1>1, <1>2, <1>3, <1>4, <1>5, <1>6, <1>7, <1>8, <1>9 DEF Next

\* What an increment has made is what was tried and made good (Applied).
LEMMA RuntimeIsIncremental == Spec => []RInv
BY InitRInv, NextRInv, PTL DEF Spec

----------------------------------------------------------------------------
(* Theorems *)

(***************************************************************************)
(* No loopback, subnet, ASN or interface is ever given to two (NewBuilder, *)
(* restore): what is held keeps its owner, and what is fresh lies above    *)
(* everything held.                                                        *)
(***************************************************************************)
THEOREM ResourcesAreUnshared == Spec => []NoResourceShared
<1>1. FInv => NoResourceShared
  <2> SUFFICES ASSUME FInv PROVE NoResourceShared
    OBVIOUS
  <2> DEFINE t == desired
             routers == {n \in DOMAIN t.nodes : ~IsServer(n)}
             upper == {m \in routers : ~IsLeaf(m)}
             first == {m \in routers : IsLeaf(m) /\ m.i = 1}
             fabric == {l \in DOMAIN t.links : IsFabric(l)}
  <2>1. Unshared(t)
    BY DEF FInv, Sound
  <2>2. routers = Routers(DOMAIN t.nodes)
    BY DEF Routers
  <2>3. \A n \in first : n \in FirstLeaves(DOMAIN t.nodes) /\ n \in routers
    BY DEF FirstLeaves
  <2>4. Distinct([n \in routers |-> t.nodes[n].loopback])
    BY <2>1, <2>2 DEF Unshared, Distinct
  <2>5. Distinct([n \in upper |-> <<n.role, t.nodes[n].asn>>])
    <3>1. \A n, m \in upper : n # m /\ n.role = m.role => t.nodes[n].asn # t.nodes[m].asn
      BY <2>1, <2>2 DEF Unshared
    <3> HIDE DEF upper, t
    <3> QED BY <3>1 DEF Distinct
  <2>6. Distinct([n \in first |-> t.nodes[n].asn])
    <3>1. \A n \in first : NodeOK(t, n) /\ n.role = "leaf" /\ n.i = 1
      BY DEF FInv, Sound, IsLeaf
    <3>2. \A n \in first : t.nodes[n].asn = n.rack /\ n \in Having(DOMAIN t.nodes, "leaf")
      BY <3>1, <2>3 DEF NodeOK, Having
    <3>3. \A n \in first : n = [role |-> n.role, pod |-> n.pod, rack |-> n.rack, i |-> n.i]
      <4>1. \A n \in Nodes : n = [role |-> n.role, pod |-> n.pod, rack |-> n.rack, i |-> n.i]
        BY DEF Nodes
      <4>2. \A n \in first : n \in Nodes
        BY <3>1 DEF NodeOK
      <4> HIDE DEF first
      <4> QED BY <4>1, <4>2
    <3>4. \A n, m \in first : n.rack = m.rack => n.pod = m.pod
      BY <2>1, <3>2 DEF Unshared
    <3> HIDE DEF first, t
    <3>5. \A n, m \in first : n.rack = m.rack => n = m
      BY <3>1, <3>3, <3>4
    <3> QED BY <3>2, <3>5 DEF Distinct
  <2>7. Distinct([n \in first |-> t.nodes[n].net])
    <3>1. \A n, m \in first : n # m => t.nodes[n].net # t.nodes[m].net
      BY <2>1, <2>3 DEF Unshared
    <3> HIDE DEF first, t
    <3> QED BY <3>1 DEF Distinct
  <2>8. Distinct([l \in fabric |-> t.links[l].net])
    <3>1. \A l, k \in fabric : l # k => t.links[l].net # t.links[k].net
      BY <2>1 DEF Unshared, FabricOf
    <3> HIDE DEF fabric, t
    <3> QED BY <3>1 DEF Distinct
  <2>9. \A n \in DOMAIN t.nodes : Distinct([l \in At(t, n) |-> t.links[l].ifs[EndAt(l, n)]])
    <3> TAKE n \in DOMAIN t.nodes
    <3>1. \A l, k \in At(t, n) : l # k => t.links[l].ifs[EndAt(l, n)] # t.links[k].ifs[EndAt(k, n)]
      BY <2>1 DEF Unshared, LinksAt, At
    <3> HIDE DEF t
    <3> QED BY <3>1 DEF Distinct
  <2> QED BY <2>4, <2>5, <2>6, <2>7, <2>8, <2>9 DEF NoResourceShared
<1> QED BY <1>1, HistoryIsSound, PTL

(***************************************************************************)
(* "Unchanged nodes and links rebuild bit-for-bit" (CreatePlan).           *)
(***************************************************************************)
THEOREM ScalingKeepsSurvivors == Spec => SurvivorsKeepTheirs
<1> DEFINE Kept ==
      plan' = "scale" /\ plans' # plans /\ gen # 0 =>
       LET b == Deployed IN
       /\ \A n \in DOMAIN b.nodes \cap DOMAIN desired'.nodes : desired'.nodes[n] = b.nodes[n]
       /\ \A l \in DOMAIN b.links \cap DOMAIN desired'.links : desired'.links[l] = b.links[l]
<1>1. ASSUME FInv, [Next]_vars PROVE Kept
  <2> SUFFICES ASSUME plan' = "scale", plans' # plans PROVE Keeps(Deployed, desired')
    BY DEF Keeps
  <2>1. CreatePlan \/ \E g \in DOMAIN snaps : CreateRollbackPlan(g)
    BY <1>1 DEF Next, vars, UpdateTopology, ApplyFull, ApplyIncrement, Applied, ApplyFails, RepairLab, NamespacesGone
  <2>2. \A g : ~CreateRollbackPlan(g)
    BY DEF CreateRollbackPlan, ReplaceTopology
  <2>3. CreatePlan
    BY <2>1, <2>2
  <2>4. desired' = Build(spec, Deployed)
    BY <2>3 DEF CreatePlan, ReplaceTopology
  <2> QED BY <1>1, <2>4, PlanIsSound
<1>2. FInv /\ [Next]_vars => [Kept]_vars
  BY <1>1
<1>3. Spec => [][Kept]_vars
  BY <1>2, HistoryIsSound, PTL DEF Spec
<1> QED BY <1>3 DEF SurvivorsKeepTheirs

(***************************************************************************)
(* The preview of a scale plan lists every survivor that the apply reloads *)
(* (planChanges against buildIncrement), and no plan removes a link        *)
(* between survivors.                                                      *)
(***************************************************************************)
THEOREM PreviewListsAll == Spec => []PreviewIsComplete
<1>1. FInv => PreviewIsComplete
  <2> SUFFICES ASSUME FInv, plan # "none", gen # 0
               PROVE  /\ plan = "scale" => Increment(Deployed, desired).reload \subseteq Updates(Deployed, desired)
                      /\ Supported(Deployed, desired)
    BY DEF PreviewIsComplete
  <2>1. Sound(Deployed) /\ Sound(desired)
    BY DeployedIsSound DEF FInv
  <2>2. plan = "scale" => Keeps(Deployed, desired)
    BY DEF FInv, ScaledFromDeployed
  <2>3. plan = "scale" => Increment(Deployed, desired).reload \subseteq Updates(Deployed, desired)
    BY <2>1, <2>2, PreviewCovers
  <2> QED BY <2>1, <2>3, SoundIsSupported
<1> QED BY <1>1, HistoryIsSound, PTL

(***************************************************************************)
(* An increment ends where a deploy from scratch would (DeployIncrement):  *)
(* whatever was scaled in and out, and when an apply that failed at any    *)
(* item of any phase was made good, what runs is what the generation says, *)
(* once the kernel has torn down what lingers.                             *)
(***************************************************************************)
THEOREM IncrementsAreDeploys == Spec => []IncrementEqualsDeploy
<1>1. RInv => IncrementEqualsDeploy
  <2> SUFFICES ASSUME RInv, gen # 0, tried = {}, moved = {} PROVE Gone(live) = FullDeploy(Deployed)
    BY DEF IncrementEqualsDeploy, Gone
  <2>1. Sound(Deployed)
    BY DeployedIsSound DEF RInv
  <2>2. Between(live, Deployed, Deployed)
    BY DEF RInv, Incremental
  <2> QED BY <2>1, <2>2, SettledIsFresh
<1> QED BY <1>1, RuntimeIsIncremental, PTL

=============================================================================
