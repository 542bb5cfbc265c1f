---------------------------- MODULE PackageStore ----------------------------
(***************************************************************************)
(* The local package store of dcnetlab-node-agent                          *)
(* (nodeapps/internal/nodeagent/pkgstore.go): the version directories of   *)
(* one package under packages/<name>/, InstallPackage with its download,   *)
(* unpack, digest marker and rename, the garbage collection that ends it,  *)
(* RemovePackage, and the part of Manager.Install that pins a version to a *)
(* program.                                                                *)
(*                                                                         *)
(* Store operations are serialised by pkgMu, which op.pc # "idle" stands   *)
(* for; Manager.Install does not take it, and its entrypoint check and its *)
(* registration are two steps.  os.RemoveAll is not atomic: it unlinks the *)
(* files of a directory one by one, in no given order, and a crash may     *)
(* come between any two of them.  Directories of other packages and the    *)
(* links themselves touch none of this state; that making them may fail    *)
(* does, because the garbage collection is then left out.                  *)
(***************************************************************************)
EXTENDS Integers, FiniteSets, Sequences, Functions

CONSTANTS
  Versions,     \* versions of the package, numbered in the order of their names
  Digests,      \* SHA-256 digests of the archives uploaded as these versions
  Programs,     \* names of the programs clients install
  KeepVersions, \* unreferenced directories the garbage collection retains
  None          \* no such file, directory, version or program

ASSUME StoreAssumptions ==
  /\ Versions \subseteq Nat
  /\ KeepVersions \in Nat \ {0}
  /\ None \notin Versions \cup Digests

VARIABLES
  dir,        \* version directories: the digest in the marker and the archive
              \* the entrypoint came from
  newer,      \* for each existing directory, the ones modified after it
  op,         \* the store operation that holds pkgMu
  programs,   \* Manager.programs (and their meta.json): the version each pins
  installing, \* versions that Manager.Install has checked and not yet registered
  late        \* programs registered since the operation read the references

vars == <<dir, newer, op, programs, installing, late>>

----------------------------------------------------------------------------
(* State *)

\* packages/<name>/<version> and its sibling <version>.tmp.
Dirs     == Versions \X {"", ".tmp"}
Place(v) == <<v, "">>
Temp(v)  == <<v, ".tmp">>

Content == [marker : Digests \cup {None}, entry : Digests \cup {None}]
Pcs     == {"idle", "download", "unpack", "mark", "swap", "gc", "references", "return"}
Op      == [pc : Pcs, version : Versions \cup {None}, digest : Digests \cup {None},
            fresh : BOOLEAN, doomed : Seq(Dirs), kept : SUBSET Versions]
NoOp    == [pc |-> "idle", version |-> None, digest |-> None, fresh |-> FALSE,
            doomed |-> <<>>, kept |-> {}]

ASSUME NoneAssumption == None \notin Content

TypeOK ==
  /\ dir \in [Dirs -> Content \cup {None}]
  /\ newer \in [Dirs -> SUBSET Dirs]
  /\ op \in Op
  /\ programs \in [Programs -> Versions \cup {None}]
  /\ installing \in [Programs -> Versions \cup {None}]
  /\ late \subseteq Programs

Init ==
  /\ dir = [d \in Dirs |-> None]
  /\ newer = [d \in Dirs |-> {}]
  /\ op = NoOp
  /\ programs = [p \in Programs |-> None]
  /\ installing = [p \in Programs |-> None]
  /\ late = {}

Present(d)     == dir[d] # None
HasEntry(v)    == Present(Place(v)) /\ dir[Place(v)].entry # None
Referenced     == {programs[p] : p \in Programs} \ {None}
IfPresent(d)   == IF Present(d) THEN <<d>> ELSE <<>>

\* Directories that no program pins by name, leftovers of installs included.
Garbage(refs)  == {d \in Dirs : Present(d) /\ ~(d[2] = "" /\ d[1] \in refs)}

\* The order of the directories once d is modified, deleted, or renamed, which
\* keeps the modification time.
Touched(d)    == [e \in Dirs |-> IF e # d /\ Present(e) THEN newer[e] \cup {d} ELSE {}]
Forgotten(d)  == [e \in Dirs |-> IF e = d THEN {} ELSE newer[e] \ {d}]
Renamed(t, d) == [e \in Dirs |-> IF e = t THEN {}
                                 ELSE {IF x = t THEN d ELSE x : x \in newer[IF e = d THEN t ELSE e]}]

\* The sequences that list each member of a set once.
Listings(ds)  == Bijection(1 .. Cardinality(ds), ds)

----------------------------------------------------------------------------
(* os.RemoveAll of the directory at the head of op.doomed *)

\* One file is unlinked, which also changes the directory's modification time.
Unlink ==
  /\ op.doomed # <<>>
  /\ LET d == Head(op.doomed)
     IN /\ \/ dir[d].marker # None /\ dir' = [dir EXCEPT ![d].marker = None]
           \/ dir[d].entry # None /\ dir' = [dir EXCEPT ![d].entry = None]
        /\ newer' = Touched(d)
  /\ UNCHANGED <<op, programs, installing, late>>

\* The directory itself, once it is empty.
Rmdir ==
  /\ op.doomed # <<>>
  /\ LET d == Head(op.doomed)
     IN /\ dir[d].marker = None /\ dir[d].entry = None
        /\ dir' = [dir EXCEPT ![d] = None]
        /\ newer' = Forgotten(d)
  /\ op' = [op EXCEPT !.doomed = Tail(@)]
  /\ UNCHANGED <<programs, installing, late>>

----------------------------------------------------------------------------
(* InstallPackage *)

\* A version whose marker holds the wanted digest is a no-op.
AlreadyInstalled(v, g) == Present(Place(v)) /\ dir[Place(v)].marker = g

InstallPackage(v, g) ==
  /\ op.pc = "idle"
  /\ op' = [NoOp EXCEPT !.pc = IF AlreadyInstalled(v, g) THEN "return" ELSE "download",
                        !.version = v, !.digest = g]
  /\ UNCHANGED <<dir, newer, programs, installing, late>>

\* Mutant: leftovers of an interrupted install are not cleared first.
DownloadOverLeftovers ==
  /\ op.pc = "download"
  /\ op' = [op EXCEPT !.pc = "unpack"]
  /\ UNCHANGED <<dir, newer, programs, installing, late>>

\* download returns an archive whose digest it has verified, or fails.
Download ==
  /\ op.pc = "download"
  /\ op' = [op EXCEPT !.pc = "unpack", !.doomed = IfPresent(Temp(op.version))]
  /\ UNCHANGED <<dir, newer, programs, installing, late>>

DownloadFails ==
  /\ op.pc = "download"
  /\ op' = NoOp
  /\ UNCHANGED <<dir, newer, programs, installing, late>>

\* unpack into <version>.tmp and mark the entrypoint executable.
Unpack ==
  /\ op.pc = "unpack" /\ op.doomed = <<>>
  /\ LET t == Temp(op.version)
     IN /\ dir' = [dir EXCEPT ![t] =
             [marker |-> IF @ = None THEN None ELSE @.marker, entry |-> op.digest]]
        /\ newer' = Touched(t)
  /\ op' = [op EXCEPT !.pc = "mark"]
  /\ UNCHANGED <<programs, installing, late>>

\* A malformed archive, or one without the entrypoint: the handler removes
\* what was unpacked and fails.
UnpackFails ==
  /\ op.pc = "mark"
  /\ op' = [NoOp EXCEPT !.pc = "return", !.doomed = <<Temp(op.version)>>]
  /\ UNCHANGED <<dir, newer, programs, installing, late>>

\* The marker goes into the temporary directory; then the old one is deleted.
WriteMarker ==
  /\ op.pc = "mark"
  /\ LET t == Temp(op.version)
     IN /\ dir' = [dir EXCEPT ![t].marker = op.digest]
        /\ newer' = Touched(t)
  /\ op' = [op EXCEPT !.pc = "swap", !.doomed = IfPresent(Place(op.version))]
  /\ UNCHANGED <<programs, installing, late>>

\* os.Rename keeps the directory's own modification time.
Rename ==
  /\ op.pc = "swap" /\ op.doomed = <<>>
  /\ LET t == Temp(op.version)
         d == Place(op.version)
     IN /\ dir' = [dir EXCEPT ![d] = dir[t], ![t] = None]
        /\ newer' = Renamed(t, d)
  /\ op' = [op EXCEPT !.pc = "gc", !.fresh = TRUE]
  /\ UNCHANGED <<programs, installing, late>>

\* A link cannot be made: the handler fails and collects no garbage.
LinksFail ==
  /\ op.pc = "gc"
  /\ op' = NoOp
  /\ UNCHANGED <<dir, newer, programs, installing, late>>

\* Mutant: the references are not consulted.
EvictAll(refs) == {d \in Dirs : Present(d) /\ Cardinality(newer[d]) >= KeepVersions}

\* Mutant: one directory too many is kept.
EvictFewer(refs) == {d \in Garbage(refs) : Cardinality(newer[d] \cap Garbage(refs)) > KeepVersions}

\* Mutant: the directories are sorted the wrong way round.
EvictNewest(refs) ==
  {d \in Garbage(refs) : Cardinality({e \in Garbage(refs) : d \in newer[e]}) >= KeepVersions}

\* The directories gcPackageLocked deletes: all but the KeepVersions newest.
Evicted(refs) == {d \in Garbage(refs) : Cardinality(newer[d] \cap Garbage(refs)) >= KeepVersions}

\* gcPackageLocked reads the references under mu and deletes without it.
GcPackage ==
  /\ op.pc = "gc"
  /\ \E s \in Listings(Evicted(Referenced)) :
       /\ \A i, j \in DOMAIN s : i < j => s[i] \in newer[s[j]]
       /\ op' = [op EXCEPT !.pc = "return", !.kept = Referenced, !.doomed = s]
  /\ late' = {}
  /\ UNCHANGED <<dir, newer, programs, installing>>

Return ==
  /\ op.pc = "return" /\ op.doomed = <<>>
  /\ op' = NoOp
  /\ UNCHANGED <<dir, newer, programs, installing, late>>

----------------------------------------------------------------------------
(* RemovePackage *)

\* os.ReadDir lists the directories in the order of their names.
ByName(ds) ==
  {s \in Listings(ds) : \A i, j \in DOMAIN s :
     i < j => s[i][1] < s[j][1] \/ (s[i][1] = s[j][1] /\ s[i][2] = "")}

\* One version, or all of them; the references are read in a later step.
RemoveVersion(v) ==
  /\ op.pc = "idle"
  /\ Present(Place(v))
  /\ op' = [NoOp EXCEPT !.pc = "references", !.version = v]
  /\ UNCHANGED <<dir, newer, programs, installing, late>>

RemoveAllVersions ==
  /\ op.pc = "idle"
  /\ \E d \in Dirs : Present(d)
  /\ op' = [NoOp EXCEPT !.pc = "references"]
  /\ UNCHANGED <<dir, newer, programs, installing, late>>

RemoveUnreferenced ==
  /\ op.pc = "references"
  /\ LET asked == IF op.version = None THEN Dirs ELSE {Place(op.version)}
     IN \E s \in ByName(asked \cap Garbage(Referenced)) :
          op' = [op EXCEPT !.pc = "return", !.kept = Referenced, !.doomed = s]
  /\ late' = {}
  /\ UNCHANGED <<dir, newer, programs, installing>>

----------------------------------------------------------------------------
(* Manager.Install and Remove, and the end of the process *)

\* entrypointPath looks at the store without taking pkgMu.
CheckEntrypoint(p, v) ==
  /\ installing[p] = None
  /\ HasEntry(v)
  /\ installing' = [installing EXCEPT ![p] = v]
  /\ UNCHANGED <<dir, newer, op, programs, late>>

\* The critical section of mu that replaces the definition.
RegisterProgram(p) ==
  /\ installing[p] # None
  /\ programs' = [programs EXCEPT ![p] = installing[p]]
  /\ installing' = [installing EXCEPT ![p] = None]
  /\ late' = late \cup {p}
  /\ UNCHANGED <<dir, newer, op>>

\* A program that runs is not replaced.
RegisterRefused(p) ==
  /\ installing[p] # None
  /\ installing' = [installing EXCEPT ![p] = None]
  /\ UNCHANGED <<dir, newer, op, programs, late>>

RemoveProgram(p) ==
  /\ programs[p] # None
  /\ programs' = [programs EXCEPT ![p] = None]
  /\ UNCHANGED <<dir, newer, op, installing, late>>

\* The agent dies and NewManager reads the definitions back.
Crash ==
  /\ op' = NoOp
  /\ installing' = [p \in Programs |-> None]
  /\ late' = {}
  /\ UNCHANGED <<dir, newer, programs>>

----------------------------------------------------------------------------

Next ==
  \/ Unlink \/ Rmdir
  \/ \E v \in Versions, g \in Digests : InstallPackage(v, g)
  \/ Download \/ DownloadFails \/ Unpack \/ UnpackFails \/ WriteMarker \/ Rename
  \/ LinksFail \/ GcPackage \/ Return
  \/ \E v \in Versions : RemoveVersion(v)
  \/ RemoveAllVersions \/ RemoveUnreferenced
  \/ \E p \in Programs, v \in Versions : CheckEntrypoint(p, v)
  \/ \E p \in Programs : RegisterProgram(p) \/ RegisterRefused(p) \/ RemoveProgram(p)
  \/ Crash

Spec == Init /\ [][Next]_vars

----------------------------------------------------------------------------
(* Properties *)

\* A step deletes or replaces the entrypoint of an installed version.
LosesEntry(v) == HasEntry(v) /\ ~HasEntry(v)'

(***************************************************************************)
(* A directory never holds the marker of one archive and the entrypoint of *)
(* another, whatever crashes interrupted earlier installs: InstallPackage  *)
(* clears <version>.tmp before it unpacks there, and writes the marker     *)
(* last.                                                                   *)
(***************************************************************************)
NoMixedVersion ==
  \A d \in Dirs : Present(d) /\ dir[d].marker # None /\ dir[d].entry # None
                    => dir[d].marker = dir[d].entry

(***************************************************************************)
(* A version that a program pins loses its entrypoint only while an        *)
(* install replaces it, or when every program that pins it was registered  *)
(* after the garbage collection or RemovePackage had read the references.  *)
(***************************************************************************)
RemovalSparesReferences ==
  [][\A v \in Versions : LosesEntry(v)
       => \/ op.pc = "swap"
          \/ \A p \in Programs : programs[p] = v => p \in late]_vars

(***************************************************************************)
(* An InstallPackage that fetched its version returns with it complete and *)
(* marked: the garbage collection at its end, which goes by modification   *)
(* time and counts leftovers of crashed installs, never evicts it.         *)
(***************************************************************************)
FreshInstallSurvives ==
  op.pc = "return" /\ op.fresh
    => dir[Place(op.version)] = [marker |-> op.digest, entry |-> op.digest]

(***************************************************************************)
(* When such an InstallPackage succeeds, at most KeepVersions directories   *)
(* are left that no program pinned when the references were read, the      *)
(* leftovers of crashed installs included.                                 *)
(***************************************************************************)
GarbageIsBounded ==
  op.pc = "return" /\ op.fresh /\ op.doomed = <<>>
    => Cardinality(Garbage(op.kept)) <= KeepVersions

=============================================================================
