------------------------- MODULE LabProgramsProofs -------------------------
(***************************************************************************)
(* Proofs about LabPrograms and TrafficScenarios, for any servers, program *)
(* names, versions and handlers, and any number of records and scenarios.  *)
(*                                                                         *)
(* The invariant of LabPrograms says of each operation in flight where its *)
(* steps can be (InStep), how the documents it read relate to the records  *)
(* as they are now (Held), and what it has achieved as long as nothing     *)
(* overlapped it (AloneOK).  That of TrafficScenarios adds of each flow    *)
(* the operation it waits for (Runs), what is gone for good (Removes), and *)
(* the records it has created as long as nothing overlapped it (Settles).  *)
(***************************************************************************)
EXTENDS TrafficScenarios, FiniteSetTheorems, TLAPS

----------------------------------------------------------------------------
(* The inductive invariant *)

Active(c) == call[c].pc # "idle"

PcsOf(op) ==
  CASE op = "create"  -> {"insert", "install", "start", "store", "done"}
    [] op = "start"   -> {"install", "start", "store", "done"}
    [] op = "stop"    -> {"stop", "store", "done"}
    [] op = "upgrade" -> {"stop", "install", "start", "store", "done"}
    [] op = "delete"  -> {"remove", "delete", "done"}
    [] op = "list"    -> {"idle", "query", "refresh", "done"}
    [] op = "apply"   -> {"deploy", "scan", "prune", "list", "restore", "install", "start", "store", "done"}
    [] op = "repair"  -> {"deploy", "done"}

\* The steps of each operation, and the document it works on.
InStep(c) ==
  LET k == call[c]
  IN /\ k.pc \in PcsOf(k.op)
     /\ k.op \in {"create", "start", "stop", "upgrade", "delete"} \/ k.pc \in {"install", "start", "store"}
          => k.doc \in Doc
     /\ k.op \in {"start", "stop", "upgrade", "delete"} \/ k.pc \in {"install", "start", "store"}
          => k.doc.id # 0

\* A document names a record that exists, with its name and server, or one that
\* was deleted.
Tracks(d) ==
  /\ d \in Doc /\ d.id \in Ids
  /\ d.id <= lastId
  /\ rows[d.id] # None => rows[d.id].name = d.row.name /\ rows[d.id].server = d.row.server

Held(c) ==
  LET k == call[c]
  IN /\ k.doc \in Doc /\ k.doc.id # 0 => Tracks(k.doc)
     /\ IsFiniteSet(k.read)
     /\ \A d \in k.read : Tracks(d)
     /\ \A d \in ToSet(k.todo) : Tracks(d)

\* Every creation under way still finds an id within the bound.
Inserting == {d \in Handlers : call[d].pc = "insert"}
Room == lastId + Cardinality(Inserting) <= MaxId

\* The agent has the version that a record names.
Installed(r) == OnAgent(r) # None /\ OnAgent(r).version = r.version

ToRun(r) == r.desired = "Running"
ToBoot(r) == r.desired = "Running" \/ r.name \in AutoStart

\* What the calls of the agent have led to when the record is to be written.
Reached(k) ==
  LET r == k.doc.row
  IN /\ k.op = "start" => Agrees(r, ToRun(r))
     /\ k.op = "upgrade" /\ base # None => Agrees(r, ToRun(r))
     /\ k.op = "stop" => r.desired = "Stopped" /\ OnAgent(r) # None /\ ~OnAgent(r).wanted
     /\ k.op = "delete" /\ k.deployed => OnAgent(r) = None

\* An operation on one program.
OneDone(k) ==
  /\ k.pc = "start" /\ k.op \in {"start", "upgrade"} => Installed(k.doc.row)
  /\ k.pc = "start" /\ k.op = "upgrade" => ToRun(k.doc.row)
  /\ k.pc \in {"store", "delete"} => Reached(k)
  /\ k.pc = "done" /\ k.ok /\ k.op \in {"start", "stop", "upgrade", "delete"}
       => Reached(k) /\ rows[k.doc.id] = IF k.op = "delete" THEN None ELSE k.doc.row

Restored(i) == Agrees(rows[i], ToBoot(rows[i]))

\* The records an apply has yet to look at, and the one it restores.
Pending(k) ==
  {i \in Records : \/ DocOf(i) \in ToSet(k.todo)
                   \/ k.pc \in {"install", "start", "store"} /\ i = k.doc.id}

\* What an apply has pruned and restored so far.
Swept(k) ==
  /\ k.pc = "prune" => \A i \in Records : rows[i].server \in k.gone => DocOf(i) \in ToSet(k.todo)
  /\ k.pc \in {"list", "restore", "install", "start", "store"} \/ (k.pc = "done" /\ k.ok)
       => \A i \in Records : rows[i].server \notin k.gone
  /\ k.pc \in {"restore", "install", "start", "store"}
       => /\ \A d \in ToSet(k.todo) : rows[d.id] = d.row
          /\ \A i \in Records : rows[i].server \in k.scope /\ i \notin Pending(k) => Restored(i)
  /\ k.pc = "done" /\ k.ok => \A i \in Records : rows[i].server \in k.scope => Restored(i)

\* Where it is with the program it restores.
Restoring(k) ==
  /\ k.pc \in {"install", "start", "store"} => rows[k.doc.id] = k.doc.row
  /\ k.pc = "start" => Installed(k.doc.row) /\ ToBoot(k.doc.row)
  /\ k.pc = "store" => Agrees(k.doc.row, ToBoot(k.doc.row))

PlanDone(k) == Swept(k) /\ Restoring(k)

Achieved(k) == IF k.op = "apply" THEN PlanDone(k) ELSE OneDone(k)

\* As long as nothing has overlapped it.
AloneOK(c) ==
  Active(c) /\ call[c].alone => Achieved(call[c]) /\ \A d \in Handlers \ {c} : ~Active(d)

Calls == \A c \in Handlers : InStep(c)
Documents == \A c \in Handlers : Held(c)
Serial == \A c \in Handlers : AloneOK(c)

IInv == TypeOK /\ Calls /\ Documents /\ Room /\ OneRecordPerServer /\ Serial

----------------------------------------------------------------------------
(* Sequences, records and constants *)

\* The elements of a sequence are its head and the elements of its tail.
LEMMA HeadTail ==
  ASSUME NEW S, NEW q \in Seq(S), q # <<>>
  PROVE  /\ Head(q) \in S /\ Tail(q) \in Seq(S)
         /\ ToSet(q) = {Head(q)} \cup ToSet(Tail(q))
<1>1. Head(q) \in S /\ Tail(q) \in Seq(S) /\ Len(q) \in Nat /\ Len(q) > 0 /\ Len(Tail(q)) = Len(q) - 1
  OBVIOUS
<1>2. \A i \in 1 .. Len(q) - 1 : Tail(q)[i] = q[i + 1]
  OBVIOUS
<1>3. Head(q) = q[1] /\ DOMAIN q = 1 .. Len(q) /\ DOMAIN Tail(q) = 1 .. Len(q) - 1
  BY <1>1
<1>4. ASSUME NEW x \in ToSet(q) PROVE x \in {Head(q)} \cup ToSet(Tail(q))
  <2>1. PICK i \in 1 .. Len(q) : x = q[i]
    BY <1>3 DEF ToSet
  <2>2. CASE i = 1
    BY <1>3, <2>1, <2>2
  <2>3. CASE i # 1
    <3>1. i - 1 \in 1 .. Len(q) - 1 /\ (i - 1) + 1 = i
      BY <1>1, <2>3
    <3>2. x = Tail(q)[i - 1] /\ i - 1 \in DOMAIN Tail(q)
      BY <1>2, <1>3, <2>1, <3>1
    <3> QED BY <3>2 DEF ToSet
  <2> QED BY <2>2, <2>3
<1>5. ASSUME NEW x \in {Head(q)} \cup ToSet(Tail(q)) PROVE x \in ToSet(q)
  <2>1. CASE x = Head(q)
    <3>1. 1 \in DOMAIN q
      BY <1>1, <1>3
    <3> QED BY <1>3, <2>1, <3>1 DEF ToSet
  <2>2. CASE x \in ToSet(Tail(q))
    <3>1. PICK i \in 1 .. Len(q) - 1 : x = Tail(q)[i]
      BY <1>3, <2>2 DEF ToSet
    <3>2. i + 1 \in 1 .. Len(q) /\ x = q[i + 1]
      BY <1>1, <1>2, <3>1
    <3> QED BY <1>3, <3>2 DEF ToSet
  <2> QED BY <2>1, <2>2
<1> QED BY <1>1, <1>4, <1>5

\* An empty sequence has no elements.
LEMMA EmptySet == ToSet(<<>>) = {}
  BY DEF ToSet

\* Listed enumerates the documents it is given.
LEMMA ListedLists ==
  ASSUME NEW S \in SUBSET Doc, IsFiniteSet(S), NEW q \in Listed(S)
  PROVE  q \in Seq(Doc) /\ ToSet(q) = S
<1>1. Cardinality(S) \in Nat
  BY FS_CardinalityType
<1>2. q \in [1 .. Cardinality(S) -> S] /\ ToSet(q) = S
  BY DEF Listed
<1>3. q \in [1 .. Cardinality(S) -> Doc]
  BY <1>2
<1> QED BY <1>1, <1>2, <1>3

\* A handler without an operation.
LEMMA IdleShape ==
  /\ Idle \in Call
  /\ Idle.pc = "idle" /\ Idle.op = "list" /\ Idle.doc = None /\ Idle.todo = <<>> /\ Idle.read = {}
  /\ Idle.gone = {} /\ Idle.scope = {} /\ Idle.alone = TRUE /\ ~Idle.ok /\ ~Idle.deployed
<1>1. <<>> \in Seq(Doc)
  OBVIOUS
<1> QED BY <1>1 DEF Idle, Call, Pcs

\* A document has an id and a row.
LEMMA DocShape ==
  ASSUME NEW d \in Doc
  PROVE  /\ d # None /\ d.id \in Ids \cup {0} /\ d.row \in Row
         /\ d.row.name \in Names /\ d.row.server \in Servers /\ d.row.version \in Versions
         /\ d.row.desired \in {"Running", "Stopped"} /\ d = [id |-> d.id, row |-> d.row]
<1>1. d # None
  BY NoneAssumption
<1>2. d.id \in Ids \cup {0} /\ d.row \in Row /\ d = [id |-> d.id, row |-> d.row]
  BY DEF Doc
<1>3. d.row.name \in Names /\ d.row.server \in Servers /\ d.row.version \in Versions
      /\ d.row.desired \in {"Running", "Stopped"}
  BY <1>2 DEF Row
<1> QED BY <1>1, <1>2, <1>3

\* A record is read as a document that tracks it.
LEMMA RecordTracks ==
  ASSUME TypeOK, NEW i \in Records
  PROVE  /\ i \in Ids /\ i # 0 /\ i <= lastId
         /\ DocOf(i) \in Doc /\ DocOf(i).id = i /\ DocOf(i).row = rows[i] /\ rows[i] \in Row
         /\ Tracks(DocOf(i))
<1>1. i \in Ids /\ rows[i] \in Row /\ rows[i] # None
  BY DEF TypeOK, Records
<1>2. DocOf(i) \in Doc /\ DocOf(i).id = i /\ DocOf(i).row = rows[i]
  BY <1>1 DEF DocOf, Doc
<1>3. i # 0 /\ i <= lastId
  <2>1. i \in Nat /\ lastId \in Nat /\ i # 0
    BY <1>1, ProgramsAssumptions DEF Ids, TypeOK, ProgramsAssumptions
  <2>2. ~(i > lastId)
    BY <1>1 DEF TypeOK
  <2> QED BY <2>1, <2>2
<1>4. Tracks(DocOf(i))
  BY <1>1, <1>2, <1>3 DEF Tracks
<1> QED BY <1>1, <1>2, <1>3, <1>4

\* The documents of the records on some servers are finitely many, and track them.
LEMMA DocsOnShape ==
  ASSUME TypeOK, NEW S
  PROVE  /\ DocsOn(S) \in SUBSET Doc /\ IsFiniteSet(DocsOn(S))
         /\ \A d \in DocsOn(S) : Tracks(d)
         /\ \A i \in Records : rows[i].server \in S => DocOf(i) \in DocsOn(S)
<1> DEFINE I == {i \in Records : rows[i].server \in S}
<1>1. DocsOn(S) = {DocOf(i) : i \in I}
  BY DEF DocsOn
<1>2. IsFiniteSet(Ids)
  BY FS_Interval, ProgramsAssumptions DEF Ids, ProgramsAssumptions
<1>3. IsFiniteSet(I)
  BY <1>2, FS_Subset DEF Records
<1>4. IsFiniteSet({DocOf(i) : i \in I})
  <2>1. \A i, j \in I : DocOf(i) = DocOf(j) => i = j
    BY DEF DocOf
  <2> HIDE DEF I
  <2> DEFINE f == [i \in I |-> DocOf(i)]
  <2>2. f \in Surjection(I, {DocOf(i) : i \in I})
    BY DEF Surjection
  <2> QED BY <1>3, <2>2, FS_Surjection
<1>5. \A d \in DocsOn(S) : d \in Doc /\ Tracks(d)
  BY <1>1, RecordTracks
<1>6. \A i \in Records : rows[i].server \in S => DocOf(i) \in DocsOn(S)
  BY <1>1
<1> QED BY <1>1, <1>4, <1>5, <1>6

----------------------------------------------------------------------------
(* A step of one handler *)

\* The operation a step belongs to.
LEMMA OpOfPc ==
  ASSUME TypeOK, NEW c \in Handlers, InStep(c)
  PROVE  LET k == call[c]
         IN /\ k \in Call
            /\ k.pc = "insert" => k.op = "create"
            /\ k.pc \in {"install", "start"} => k.op \in {"create", "start", "upgrade", "apply"}
            /\ k.pc = "store" => k.op \in {"create", "start", "stop", "upgrade", "apply"}
            /\ k.pc = "stop" => k.op \in {"stop", "upgrade"}
            /\ k.pc \in {"remove", "delete"} => k.op = "delete"
            /\ k.pc \in {"idle", "query", "refresh"} => k.op = "list"
            /\ k.pc \in {"scan", "prune", "list", "restore"} => k.op = "apply"
            /\ k.pc = "deploy" => k.op \in {"apply", "repair"}
<1>1. call[c] \in Call
      /\ call[c].op \in {"create", "start", "stop", "upgrade", "delete", "list", "apply", "repair"}
  BY DEF TypeOK, Call
<1>2. call[c].pc \in PcsOf(call[c].op)
  BY DEF InStep
<1> QED BY <1>1, <1>2 DEF PcsOf

\* Writing one handler's entry leaves the others alone.
LEMMA Written ==
  ASSUME TypeOK, NEW c \in Handlers, NEW r \in Call, call' = [call EXCEPT ![c] = r]
  PROVE  call' \in [Handlers -> Call] /\ call'[c] = r /\ \A d \in Handlers \ {c} : call'[d] = call[d]
  BY DEF TypeOK

\* What no step of an operation changes.
Same(k, r) == r.op = k.op /\ r.on = k.on /\ r.gone = k.gone /\ r.scope = k.scope /\ r.alone = k.alone

\* Goto moves a handler on.
LEMMA GotoMoves ==
  ASSUME TypeOK, NEW c \in Handlers, NEW p \in Pcs, Goto(c, p)
  PROVE  /\ call' \in [Handlers -> Call] /\ \A d \in Handlers \ {c} : call'[d] = call[d]
         /\ LET k == call[c]
                r == call'[c]
            IN /\ Same(k, r) /\ r.pc = p /\ r.doc = k.doc /\ r.read = k.read /\ r.todo = k.todo
               /\ r.ok = k.ok /\ r.deployed = k.deployed
<1> DEFINE r == [call[c] EXCEPT !.pc = p]
<1>1. call[c] \in Call
  BY DEF TypeOK
<1>2. call' = [call EXCEPT ![c] = r]
  BY DEF Goto
<1>3. /\ r \in Call /\ Same(call[c], r) /\ r.pc = p /\ r.doc = call[c].doc /\ r.read = call[c].read
      /\ r.todo = call[c].todo /\ r.ok = call[c].ok /\ r.deployed = call[c].deployed
  BY <1>1 DEF Call, Same
<1> HIDE DEF r
<1> QED BY <1>2, <1>3, Written

\* Finish ends an operation.
LEMMA FinishMoves ==
  ASSUME TypeOK, NEW c \in Handlers, NEW b \in BOOLEAN, Finish(c, b)
  PROVE  /\ call' \in [Handlers -> Call] /\ \A d \in Handlers \ {c} : call'[d] = call[d]
         /\ LET k == call[c]
                r == call'[c]
            IN /\ Same(k, r) /\ r.pc = "done" /\ r.doc = k.doc /\ r.read = k.read /\ r.todo = k.todo
               /\ r.ok = b /\ r.deployed = k.deployed
<1> DEFINE r == [call[c] EXCEPT !.pc = "done", !.ok = b]
<1>1. call[c] \in Call
  BY DEF TypeOK
<1>2. call' = [call EXCEPT ![c] = r]
  BY DEF Finish
<1>3. /\ r \in Call /\ Same(call[c], r) /\ r.pc = "done" /\ r.doc = call[c].doc /\ r.read = call[c].read
      /\ r.todo = call[c].todo /\ r.ok = b /\ r.deployed = call[c].deployed
  BY <1>1 DEF Call, Same, Pcs
<1> HIDE DEF r
<1> QED BY <1>2, <1>3, Written

\* No step gives a record another name or server, or a deleted id a new record.
Kept ==
  /\ lastId <= lastId'
  /\ \A i \in Ids : i <= lastId /\ rows'[i] # None =>
       rows[i] # None /\ rows'[i].name = rows[i].name /\ rows'[i].server = rows[i].server

\* So documents go on tracking their records.
LEMMA KeptTracks ==
  ASSUME TypeOK, TypeOK', Kept, NEW d, Tracks(d)
  PROVE  Tracks(d)'
<1>1. d \in Doc /\ d.id \in Ids /\ d.id <= lastId
  BY DEF Tracks
<1>2. d.id <= lastId'
  <2>1. d.id \in Int /\ lastId \in Int /\ lastId' \in Int /\ lastId <= lastId'
    BY <1>1 DEF TypeOK, Ids, Kept
  <2> QED BY <1>1, <2>1
<1>3. rows'[d.id] # None => rows'[d.id].name = d.row.name /\ rows'[d.id].server = d.row.server
  BY <1>1 DEF Kept, Tracks
<1> QED BY <1>1, <1>2, <1>3 DEF Tracks

\* And names stay unique while no record is added.
LEMMA KeptUnique ==
  ASSUME TypeOK, TypeOK', Kept, lastId' = lastId, OneRecordPerServer
  PROVE  OneRecordPerServer'
<1>1. ASSUME NEW i \in Records' PROVE i \in Records /\ rows'[i].name = rows[i].name /\ rows'[i].server = rows[i].server
  <2>1. i \in Ids /\ rows'[i] # None
    BY DEF Records
  <2>2. i <= lastId
    <3>1. ~(i > lastId')
      BY <2>1 DEF TypeOK
    <3>2. i \in Int /\ lastId \in Int
      BY <2>1 DEF Ids, TypeOK
    <3> QED BY <3>1, <3>2
  <2> QED BY <2>1, <2>2 DEF Kept, Records
<1> QED BY <1>1 DEF OneRecordPerServer

\* Where the table is as before.
LEMMA SameTable ==
  ASSUME TypeOK, UNCHANGED <<rows, lastId>>
  PROVE  Kept /\ Records' = Records /\ \A i : DocOf(i)' = DocOf(i)
<1>1. lastId \in Int
  BY DEF TypeOK
<1> QED BY <1>1 DEF Kept, Records, DocOf

\* A step that begins no creation leaves room for those under way.
LEMMA RoomKept ==
  ASSUME IInv, NEW c \in Handlers, lastId' = lastId,
         \A d \in Handlers \ {c} : call'[d] = call[d], call'[c].pc # "insert"
  PROVE  Room'
<1>1. Inserting' \subseteq Inserting
  BY DEF Inserting
<1>2. IsFiniteSet(Inserting)
  BY FS_Subset, ProgramsAssumptions DEF ProgramsAssumptions, Inserting
<1>3. Cardinality(Inserting') <= Cardinality(Inserting) /\ Cardinality(Inserting') \in Nat
      /\ Cardinality(Inserting) \in Nat
  BY <1>1, <1>2, FS_Subset, FS_CardinalityType
<1>4. lastId \in Int /\ MaxId \in Int /\ lastId + Cardinality(Inserting) <= MaxId
  BY ProgramsAssumptions DEF ProgramsAssumptions, IInv, TypeOK, Room
<1> QED BY <1>3, <1>4 DEF Room

\* A step of c in flight: where c is alone, the others are not in flight.
LEMMA StepKeeps ==
  ASSUME IInv, TypeOK', NEW c \in Handlers, Active(c), Kept, OneRecordPerServer', Room',
         \A d \in Handlers \ {c} : call'[d] = call[d],
         InStep(c)', Held(c)',
         Active(c)' /\ call'[c].alone => call[c].alone,
         Active(c)' /\ call'[c].alone /\ Achieved(call[c]) => Achieved(call[c])'
  PROVE  IInv'
<1>1. \A d \in Handlers \ {c} : Active(d)' = Active(d)
  BY DEF Active
<1>2. ASSUME NEW d \in Handlers PROVE InStep(d)'
  <2>1. CASE d = c
    BY <2>1
  <2>2. CASE d # c
    BY <2>2 DEF InStep, IInv, Calls
  <2> QED BY <2>1, <2>2
<1>3. ASSUME NEW d \in Handlers PROVE Held(d)'
  <2>1. CASE d = c
    BY <2>1
  <2>2. CASE d # c
    <3>1. call'[d] = call[d] /\ Held(d)
      BY <2>2 DEF IInv, Documents
    <3>2. \A x : Tracks(x) => Tracks(x)'
      BY KeptTracks DEF IInv
    <3> QED BY <3>1, <3>2 DEF Held
  <2> QED BY <2>1, <2>2
<1>4. ASSUME NEW d \in Handlers PROVE AloneOK(d)'
  <2>1. CASE d = c
    BY <1>1, <2>1 DEF AloneOK, IInv, Serial
  <2>2. CASE d # c
    <3>1. call'[d] = call[d] /\ Active(d)' = Active(d)
      BY <1>1, <2>2
    <3>2. ~(Active(d) /\ call[d].alone)
      BY <2>2 DEF AloneOK, IInv, Serial
    <3> QED BY <3>1, <3>2 DEF AloneOK
  <2> QED BY <2>1, <2>2
<1> QED BY <1>2, <1>3, <1>4 DEF IInv, Calls, Documents, Serial

\* Such a step that leaves the table as it is.
LEMMA QuietStep ==
  ASSUME IInv, TypeOK', NEW c \in Handlers, Active(c), UNCHANGED <<rows, lastId>>,
         \A d \in Handlers \ {c} : call'[d] = call[d],
         InStep(c)', Held(c)', call'[c].pc # "insert",
         Active(c)' /\ call'[c].alone => call[c].alone,
         Active(c)' /\ call'[c].alone /\ Achieved(call[c]) => Achieved(call[c])'
  PROVE  IInv'
<1>1. Kept /\ OneRecordPerServer'
  BY SameTable, KeptUnique DEF IInv
<1>2. Room'
  BY RoomKept
<1> QED BY <1>1, <1>2, StepKeeps

\* A handler that keeps its documents, or drops some, still tracks their records.
LEMMA HeldStays ==
  ASSUME IInv, TypeOK', Kept, NEW c \in Handlers,
         call'[c].doc = call[c].doc, call'[c].read \subseteq call[c].read,
         ToSet(call'[c].todo) \subseteq ToSet(call[c].todo)
  PROVE  Held(c)'
<1>1. \A x : Tracks(x) => Tracks(x)'
  BY KeptTracks DEF IInv
<1>2. Held(c)
  BY DEF IInv, Documents
<1>3. IsFiniteSet(call'[c].read)
  BY <1>2, FS_Subset DEF Held
<1> QED BY <1>1, <1>2, <1>3 DEF Held

----------------------------------------------------------------------------
(* What a call of an agent changes *)

Slot(q, r) == q.server = r.server /\ q.name = r.name

\* A definition known to an agent.
LEMMA OnAgentShape ==
  ASSUME TypeOK, NEW r \in Row
  PROVE  /\ OnAgent(r) \in Definition \cup {None}
         /\ OnAgent(r) # None => Alive(r.server) /\ OnAgent(r) \in Definition
<1>1. r.server \in Servers /\ r.name \in Names
  BY DEF Row
<1>2. agents[r.server] \in Agent \cup {None}
  BY <1>1 DEF TypeOK
<1>3. CASE Alive(r.server)
  <2>1. agents[r.server] \in Agent
    BY <1>2, <1>3 DEF Alive
  <2>2. agents[r.server][r.name] \in Definition \cup {None}
    BY <1>1, <2>1 DEF Agent
  <2> QED BY <1>3, <2>2 DEF OnAgent
<1>4. CASE ~Alive(r.server)
  BY <1>4 DEF OnAgent
<1> QED BY <1>3, <1>4

\* Put changes the definition of one program on one server.
LEMMA PutOn ==
  ASSUME TypeOK, NEW r \in Row, NEW d \in Definition \cup {None}, Alive(r.server), agents' = Put(r, d)
  PROVE  /\ agents' \in [Servers -> Agent \cup {None}]
         /\ \A q \in Row : OnAgent(q)' = IF Slot(q, r) THEN d ELSE OnAgent(q)
<1> DEFINE s == r.server
           n == r.name
           a == [agents[s] EXCEPT ![n] = d]
<1>1. s \in Servers /\ n \in Names
  BY DEF Row
<1>2. agents \in [Servers -> Agent \cup {None}] /\ agents[s] \in Agent
  BY <1>1 DEF TypeOK, Alive
<1>3. a \in Agent /\ a[n] = d /\ \A m \in Names \ {n} : a[m] = agents[s][m]
  BY <1>1, <1>2 DEF Agent
<1>4. agents' = [agents EXCEPT ![s] = a]
  BY DEF Put
<1>5. a # None /\ agents[s] # None
  BY <1>2, <1>3, NoneAssumption
<1> HIDE DEF a
<1>6. agents' \in [Servers -> Agent \cup {None}] /\ agents'[s] = a /\ \A x \in Servers \ {s} : agents'[x] = agents[x]
  BY <1>1, <1>2, <1>3, <1>4
<1>7. ASSUME NEW q \in Row PROVE OnAgent(q)' = IF Slot(q, r) THEN d ELSE OnAgent(q)
  <2>1. q.server \in Servers /\ q.name \in Names
    BY DEF Row
  <2>2. CASE q.server = s
    <3>1. OnAgent(q)' = a[q.name] /\ OnAgent(q) = agents[s][q.name]
      BY <1>5, <1>6, <2>2 DEF OnAgent, Alive
    <3> QED BY <1>3, <2>1, <2>2, <3>1 DEF Slot
  <2>3. CASE q.server # s
    <3>1. agents'[q.server] = agents[q.server]
      BY <1>6, <2>1, <2>3
    <3> QED BY <2>3, <3>1 DEF OnAgent, Alive, Slot
  <2> QED BY <2>2, <2>3
<1> QED BY <1>6, <1>7

\* At most the definition of one program changes.
OnlyAt(r) == \A q \in Row : ~Slot(q, r) => OnAgent(q)' = OnAgent(q)

\* Where no agent has changed.
LEMMA SameAgents ==
  ASSUME agents' = agents
  PROVE  \A q : OnAgent(q)' = OnAgent(q)
  BY DEF OnAgent, Alive

\* What a record says is about the definition of its program only.
LEMMA SameView ==
  ASSUME NEW r, OnAgent(r)' = OnAgent(r), NEW w
  PROVE  Agrees(r, w)' = Agrees(r, w) /\ Installed(r)' = Installed(r)
  BY DEF Agrees, Installed

\* While an apply restores one program, what it did for the others stands.
LEMMA OthersStand ==
  ASSUME IInv, NEW c \in Handlers, call[c].pc \in {"install", "start"}, call[c].op = "apply",
         UNCHANGED <<rows, lastId>>, OnlyAt(call[c].doc.row),
         Swept(call[c]), Restoring(call[c]),
         Same(call[c], call'[c]), call'[c].doc = call[c].doc, call'[c].todo = call[c].todo,
         call'[c].pc \in {"install", "start", "store"} \/ (call'[c].pc = "done" /\ ~call'[c].ok)
  PROVE  Swept(call[c])'
<1> DEFINE k == call[c]
           x == call'[c]
           r == k.doc.row
<1>1. TypeOK /\ k.doc \in Doc /\ r \in Row
  BY DocShape DEF IInv, Calls, InStep
<1>2. Records' = Records /\ \A i : DocOf(i)' = DocOf(i)
  BY <1>1, SameTable
<1>3. x.gone = k.gone /\ x.scope = k.scope /\ x.todo = k.todo /\ x.doc = k.doc
  BY DEF Same
<1>4. rows[k.doc.id] = r
  BY DEF Restoring
<1>5. \A i \in Records : rows[i].server \notin k.gone
  BY DEF Swept
<1>6. \A d \in ToSet(k.todo) : rows[d.id] = d.row
  BY DEF Swept
<1> HIDE DEF k, x, r
<1>7. ASSUME x.pc # "done" PROVE \A i \in Records : rows[i].server \in k.scope /\ i \notin Pending(call[c])' => Restored(i)'
  <2>1. x.pc \in {"install", "start", "store"} /\ k.pc \in {"install", "start"}
    BY <1>7 DEF x, k
  <2>2. SUFFICES ASSUME NEW i \in Records, rows[i].server \in k.scope, i \notin Pending(call[c])'
                 PROVE  Restored(i)'
    OBVIOUS
  <2>3. i # k.doc.id /\ i \notin Pending(k)
    BY <1>2, <1>3, <2>1, <2>2 DEF Pending, x
  <2>4. Restored(i)
    BY <2>1, <2>2, <2>3 DEF Swept, k
  <2>5. rows[i] \in Row /\ i \in Ids
    BY <1>1, <2>2, RecordTracks
  <2>6. k.doc.id \in Records
    <3>1. k.doc.id \in Ids
      BY <2>1, DocShape DEF IInv, Calls, InStep, k
    <3>2. r # None
      BY <1>1, NoneAssumption
    <3> QED BY <1>4, <3>1, <3>2 DEF Records
  <2>7. ~Slot(rows[i], r)
    BY <1>4, <2>2, <2>3, <2>6 DEF Slot, IInv, OneRecordPerServer
  <2>8. OnAgent(rows[i])' = OnAgent(rows[i])
    BY <2>5, <2>7 DEF OnlyAt, r, k
  <2> QED BY <2>4, <2>8, SameView DEF Restored, ToBoot, Agrees, OnAgent, Alive
<1>8. CASE x.pc = "done"
  BY <1>8 DEF Swept, x
<1>9. CASE x.pc # "done"
  <2>1. x.pc \in {"install", "start", "store"}
    BY <1>9 DEF x
  <2> QED BY <1>2, <1>3, <1>5, <1>6, <1>7, <1>9, <2>1 DEF Swept, x
<1> QED BY <1>8, <1>9

----------------------------------------------------------------------------
(* Steps that call an agent *)

\* A handler that calls an agent about the program it works on.
LEMMA AgentStep ==
  ASSUME IInv, NEW c \in Handlers, Active(c), call[c].doc \in Doc,
         agents' \in [Servers -> Agent \cup {None}],
         UNCHANGED <<nodes, base, packages, rows, lastId>>,
         call' \in [Handlers -> Call], \A d \in Handlers \ {c} : call'[d] = call[d],
         Same(call[c], call'[c]), call'[c].read = call[c].read, call'[c].todo = call[c].todo,
         call'[c].doc \in Doc, call'[c].doc.id = call[c].doc.id,
         call'[c].doc.row.name = call[c].doc.row.name, call'[c].doc.row.server = call[c].doc.row.server,
         call'[c].pc # "insert",
         InStep(c)',
         Achieved(call[c]) => Achieved(call[c])'
  PROVE  IInv'
<1>1. TypeOK'
  BY DEF IInv, TypeOK
<1>2. Held(c)'
  <2>1. Kept
    BY SameTable DEF IInv
  <2>2. \A x : Tracks(x) => Tracks(x)'
    BY <1>1, <2>1, KeptTracks DEF IInv
  <2>3. Held(c)
    BY DEF IInv, Documents
  <2>4. call'[c].doc.id # 0 => Tracks(call[c].doc)
    BY <2>3 DEF Held
  <2>5. Tracks(call[c].doc) => Tracks(call'[c].doc)
    BY DEF Tracks
  <2>6. call'[c].doc.id # 0 => Tracks(call[c].doc)'
    BY <2>2, <2>4, <2>5 DEF Tracks
  <2> QED BY <2>2, <2>3, <2>6 DEF Held
<1>3. call'[c].alone = call[c].alone
  BY DEF Same
<1> QED BY <1>1, <1>2, <1>3, QuietStep

\* What ensureOnAgent leaves on the agent.
LEMMA InstallLeaves ==
  ASSUME TypeOK, NEW c \in Handlers, NEW r \in Row, r = call[c].doc.row, InstallDefinition(c)
  PROVE  /\ agents' \in [Servers -> Agent \cup {None}] /\ OnlyAt(r)
         /\ Installed(r)' /\ Agrees(r, FALSE)'
<1> DEFINE d == [version |-> r.version, wanted |-> FALSE, running |-> FALSE]
<1>1. r \in Row /\ r.version \in Versions
  BY DEF Row
<1>2. d \in Definition /\ d.version = r.version /\ d.wanted = FALSE
  BY <1>1 DEF Definition
<1>3. Alive(r.server) /\ agents' = Put(r, d)
  BY DEF InstallDefinition
<1>4. d # None
  BY <1>2, NoneAssumption
<1> HIDE DEF d
<1>5. agents' \in [Servers -> Agent \cup {None}]
      /\ \A q \in Row : OnAgent(q)' = IF Slot(q, r) THEN d ELSE OnAgent(q)
  BY <1>1, <1>2, <1>3, PutOn
<1>6. OnAgent(r)' = d
  BY <1>1, <1>5 DEF Slot
<1>7. OnlyAt(r)
  BY <1>5 DEF OnlyAt
<1> QED BY <1>2, <1>4, <1>5, <1>6, <1>7 DEF Installed, Agrees

\* ensureOnAgent: an apply or an upgrade goes on to start what is to run.
LEMMA EnsureOnAgentOK ==
  ASSUME IInv, NEW c \in Handlers, EnsureOnAgent(c) PROVE IInv'
<1> DEFINE k == call[c]
           x == call'[c]
<1>1. /\ TypeOK /\ InStep(c) /\ k.pc = "install" /\ Active(c)
      /\ k.op \in {"create", "start", "upgrade", "apply"} /\ k.doc \in Doc /\ k.doc.id # 0
  BY OpOfPc DEF IInv, Calls, EnsureOnAgent, Active, InStep
<1>r. PICK r \in Row : r = k.doc.row
  BY <1>1, DocShape
<1>2. InstallDefinition(c) /\ Goto(c, AfterInstall(c)) /\ UNCHANGED <<nodes, base, packages, rows, lastId>>
  BY DEF EnsureOnAgent
<1>3. /\ agents' \in [Servers -> Agent \cup {None}] /\ OnlyAt(r)
      /\ Installed(r)' /\ Agrees(r, FALSE)'
  BY <1>1, <1>r, <1>2, InstallLeaves
<1>4. /\ AfterInstall(c) \in {"start", "store"}
      /\ AfterInstall(c) = "start" /\ k.op = "upgrade" => ToRun(r)
      /\ AfterInstall(c) = "store" => /\ k.op # "start"
                                      /\ k.op = "upgrade" => ~ToRun(r)
                                      /\ k.op = "apply" => ~ToBoot(r)
      /\ AfterInstall(c) = "start" /\ k.op = "apply" => ToBoot(r)
  BY <1>1, <1>r DEF AfterInstall, ToRun, ToBoot
<1>5. /\ call' \in [Handlers -> Call] /\ \A d \in Handlers \ {c} : call'[d] = call[d]
      /\ Same(k, x) /\ x.pc = AfterInstall(c) /\ x.doc = k.doc /\ x.read = k.read /\ x.todo = k.todo
  BY <1>1, <1>2, <1>4, GotoMoves DEF Pcs
<1>6. x.op = k.op /\ x.deployed = call'[c].deployed
  BY <1>5 DEF Same
<1> HIDE DEF k, x
<1>7. InStep(c)'
  BY <1>1, <1>4, <1>5, <1>6 DEF InStep, PcsOf, x
<1>8. ASSUME Achieved(call[c]) PROVE Achieved(call[c])'
  <2>1. CASE k.op = "apply"
    <3>1. Swept(call[c]) /\ Restoring(call[c])
      BY <1>8, <2>1 DEF Achieved, PlanDone, k
    <3>2. Swept(call[c])'
      BY <1>1, <1>2, <1>3, <1>4, <1>5, <2>1, <3>1, <1>r, OthersStand DEF k, x
    <3>3. rows[k.doc.id] = r
      BY <1>1, <1>r, <3>1 DEF Restoring, k
    <3>4. Restoring(call[c])'
      <4>1. x.pc = "start" => ToBoot(r)
        BY <1>4, <1>5, <2>1
      <4>2. x.pc = "store" => Agrees(r, ToBoot(r))'
        BY <1>3, <1>4, <1>5, <2>1 DEF Agrees, ToBoot
      <4>3. rows'[x.doc.id] = x.doc.row
        BY <1>r, <1>2, <1>5, <3>3
      <4> QED BY <1>r, <1>3, <1>5, <4>1, <4>2, <4>3 DEF Restoring, x, Installed, Agrees, OnAgent, Alive, ToBoot
    <3> QED BY <1>6, <2>1, <3>2, <3>4 DEF Achieved, PlanDone, x
  <2>2. CASE k.op # "apply"
    <3>1. x.pc = "store" /\ x.op = "upgrade" => Agrees(r, ToRun(r))'
      BY <1>3, <1>4, <1>5, <1>6 DEF Agrees, ToRun
    <3>2. x.pc = "store" => x.op \in {"create", "upgrade"}
      BY <1>1, <1>4, <1>5, <1>6, <2>2
    <3>3. x.pc = "store" => Reached(call[c])'
      BY <1>r, <1>5, <3>1, <3>2 DEF Reached, x, Agrees, OnAgent, Alive, ToRun
    <3>4. x.pc \in {"start", "store"} /\ (x.pc = "start" /\ x.op = "upgrade" => ToRun(r))
      BY <1>4, <1>5, <1>6
    <3>5. OneDone(call[c])'
      BY <1>r, <1>3, <1>5, <3>3, <3>4 DEF OneDone, x, Installed, OnAgent, Alive, ToRun
    <3> QED BY <1>6, <2>2, <3>5 DEF Achieved, x
  <2> QED BY <2>1, <2>2
<1> QED BY <1>1, <1>2, <1>3, <1>4, <1>5, <1>7, <1>8, AgentStep DEF k, x

\* A failed operation, a creation, a listing and a repair promise nothing.
LEMMA NothingClaimed ==
  ASSUME NEW c \in Handlers,
         call'[c].op \in {"create", "list", "repair"} \/ (call'[c].pc = "done" /\ ~call'[c].ok)
  PROVE  Achieved(call[c])'
  BY DEF Achieved, PlanDone, Swept, Restoring, OneDone, Reached

\* How an operation ends, or goes on, after a failed call.
LEMMA AbortMoves ==
  ASSUME TypeOK, NEW c \in Handlers, AbortUnlessCreate(c)
  PROVE  /\ call' \in [Handlers -> Call] /\ \A d \in Handlers \ {c} : call'[d] = call[d]
         /\ LET k == call[c]
                r == call'[c]
            IN /\ Same(k, r) /\ r.doc = k.doc /\ r.read = k.read /\ r.todo = k.todo
               /\ (k.op = "create" /\ r.pc = "store") \/ (k.op # "create" /\ r.pc = "done" /\ ~r.ok)
<1>1. CASE call[c].op = "create"
  <2>1. Goto(c, "store")
    BY <1>1 DEF AbortUnlessCreate
  <2>2. "store" \in Pcs
    BY DEF Pcs
  <2> QED BY <1>1, <2>1, <2>2, GotoMoves
<1>2. CASE call[c].op # "create"
  <2>1. Finish(c, FALSE)
    BY <1>2 DEF AbortUnlessCreate
  <2> QED BY <1>2, <2>1, FinishMoves
<1> QED BY <1>1, <1>2

\* Where no agent has changed, none has anywhere but in one place.
LEMMA SameOnlyAt ==
  ASSUME TypeOK, UNCHANGED agents, NEW r
  PROVE  agents' \in [Servers -> Agent \cup {None}] /\ OnlyAt(r)
  BY DEF TypeOK, OnlyAt, OnAgent, Alive

\* A failed ensureOnAgent, with or without effect, and restoreOne's next try.
LEMMA EnsureFailsOK ==
  ASSUME IInv, NEW c \in Handlers, EnsureFails(c) PROVE IInv'
<1> DEFINE k == call[c]
           x == call'[c]
<1>1. /\ TypeOK /\ InStep(c) /\ k.pc = "install" /\ Active(c) /\ k \in Call
      /\ k.op \in {"create", "start", "upgrade", "apply"} /\ k.doc \in Doc /\ k.doc.id # 0
  BY OpOfPc DEF IInv, Calls, EnsureFails, Active, InStep
<1>2. UNCHANGED <<nodes, base, packages, rows, lastId>>
  BY DEF EnsureFails
<1>3. PICK r \in Row : r = k.doc.row
  BY <1>1, DocShape
<1>4. agents' \in [Servers -> Agent \cup {None}] /\ OnlyAt(r)
  BY <1>1, <1>3, InstallLeaves, SameOnlyAt DEF EnsureFails
<1>5. CASE AbortUnlessCreate(c)
  <2>1. /\ call' \in [Handlers -> Call] /\ \A d \in Handlers \ {c} : call'[d] = call[d]
        /\ Same(k, x) /\ x.doc = k.doc /\ x.read = k.read /\ x.todo = k.todo
        /\ (k.op = "create" /\ x.pc = "store") \/ (k.op # "create" /\ x.pc = "done" /\ ~x.ok)
    BY <1>1, <1>5, AbortMoves
  <2>2. x.op = k.op
    BY <2>1 DEF Same
  <2> HIDE DEF k, x
  <2>3. InStep(c)'
    BY <1>1, <2>1, <2>2 DEF InStep, PcsOf, x
  <2>4. Achieved(call[c])'
    BY <2>1, <2>2, NothingClaimed DEF x
  <2> QED BY <1>1, <1>2, <1>4, <2>1, <2>3, <2>4, AgentStep DEF k, x
<1>6. CASE k.op = "apply" /\ UNCHANGED call
  <2>1. x = k /\ Same(k, x) /\ call' \in [Handlers -> Call]
    BY <1>1, <1>6 DEF Same, TypeOK
  <2>2. InStep(c)'
    BY <1>1, <1>6 DEF InStep
  <2>3. ASSUME Achieved(call[c]) PROVE Achieved(call[c])'
    <3>1. Swept(call[c]) /\ Restoring(call[c])
      BY <1>6, <2>3 DEF Achieved, PlanDone
    <3>2. Swept(call[c])'
      BY <1>1, <1>2, <1>3, <1>4, <1>6, <2>1, <3>1, OthersStand
    <3>3. Restoring(call[c])'
      BY <1>1, <1>2, <1>6, <3>1 DEF Restoring
    <3> QED BY <1>6, <3>2, <3>3 DEF Achieved, PlanDone
  <2> HIDE DEF k, x
  <2>4. x.doc = k.doc /\ x.read = k.read /\ x.todo = k.todo /\ x.pc # "insert"
    BY <1>1, <2>1
  <2> QED BY <1>1, <1>2, <1>4, <1>6, <2>1, <2>2, <2>3, <2>4, AgentStep DEF k, x
<1> QED BY <1>5, <1>6 DEF EnsureFails

\* A definition that is started or stopped.
LEMMA SetWanted ==
  ASSUME TypeOK, NEW r \in Row, OnAgent(r) # None, NEW w \in BOOLEAN, NEW u \in BOOLEAN,
         agents' = Put(r, [OnAgent(r) EXCEPT !.wanted = w, !.running = u])
  PROVE  /\ agents' \in [Servers -> Agent \cup {None}] /\ OnlyAt(r)
         /\ OnAgent(r)' # None /\ OnAgent(r)'.wanted = w
         /\ OnAgent(r)'.version = OnAgent(r).version
<1> DEFINE d == [OnAgent(r) EXCEPT !.wanted = w, !.running = u]
<1>1. OnAgent(r) \in Definition /\ Alive(r.server)
  BY OnAgentShape
<1>2. d \in Definition /\ d.wanted = w /\ d.version = OnAgent(r).version
  BY <1>1 DEF Definition
<1>3. d # None
  BY <1>2, NoneAssumption
<1> HIDE DEF d
<1>4. agents' = Put(r, d)
  BY DEF d
<1>5. agents' \in [Servers -> Agent \cup {None}]
      /\ \A q \in Row : OnAgent(q)' = IF Slot(q, r) THEN d ELSE OnAgent(q)
  BY <1>1, <1>2, <1>4, PutOn
<1>6. OnAgent(r)' = d
  BY <1>5 DEF Slot
<1> QED BY <1>2, <1>3, <1>5, <1>6 DEF OnlyAt

\* The handler goes on to record another desired state.
SetDesired(c, D) == call' = [call EXCEPT ![c].pc = "store", ![c].doc.row.desired = D]

\* A document whose desired state is changed.
LEMMA DesiredSet ==
  ASSUME TypeOK, NEW c \in Handlers, call[c].doc \in Doc, NEW D \in {"Running", "Stopped"},
         SetDesired(c, D)
  PROVE  /\ call' \in [Handlers -> Call] /\ \A d \in Handlers \ {c} : call'[d] = call[d]
         /\ LET k == call[c]
                x == call'[c]
            IN /\ Same(k, x) /\ x.pc = "store" /\ x.read = k.read /\ x.todo = k.todo
               /\ x.doc \in Doc /\ x.doc.id = k.doc.id /\ x.doc.row \in Row
               /\ x.doc.row.name = k.doc.row.name /\ x.doc.row.server = k.doc.row.server
               /\ x.doc.row.version = k.doc.row.version /\ x.doc.row.desired = D
               /\ D = k.doc.row.desired => x.doc = k.doc
<1> DEFINE k == call[c]
           r == [k.doc.row EXCEPT !.desired = D]
           d == [k.doc EXCEPT !.row = r]
           x == [k EXCEPT !.pc = "store", !.doc = d]
<1>1. k \in Call /\ k.doc.row \in Row
  BY DocShape DEF TypeOK
<1>2. /\ r \in Row /\ r.name = k.doc.row.name /\ r.server = k.doc.row.server
      /\ r.version = k.doc.row.version /\ r.desired = D
      /\ D = k.doc.row.desired => r = k.doc.row
  BY <1>1 DEF Row
<1>3. x = [k EXCEPT !.pc = "store", !.doc.row.desired = D] /\ call' = [call EXCEPT ![c] = x]
  BY DEF SetDesired
<1> HIDE DEF r
<1>4. d \in Doc /\ d.id = k.doc.id /\ d.row = r /\ (r = k.doc.row => d = k.doc)
  BY <1>2 DEF Doc
<1> HIDE DEF d
<1>5. x \in Call /\ Same(k, x) /\ x.pc = "store" /\ x.read = k.read /\ x.todo = k.todo /\ x.doc = d
  BY <1>1, <1>4 DEF Call, Same, Pcs
<1> HIDE DEF x
<1>6. call' \in [Handlers -> Call] /\ call'[c] = x /\ \A e \in Handlers \ {c} : call'[e] = call[e]
  BY <1>3, <1>5, Written
<1> QED BY <1>2, <1>4, <1>5, <1>6

\* Start: the definition is wanted, and the desired state to be recorded.
LEMMA AgentStartOK ==
  ASSUME IInv, NEW c \in Handlers, AgentStart(c) PROVE IInv'
<1> DEFINE k == call[c]
           x == call'[c]
           D == DesiredAfterStart(k)
<1>1. /\ TypeOK /\ InStep(c) /\ k.pc = "start" /\ Active(c) /\ k \in Call
      /\ k.op \in {"create", "start", "upgrade", "apply"} /\ k.doc \in Doc /\ k.doc.id # 0
  BY OpOfPc DEF IInv, Calls, AgentStart, Active, InStep
<1>2. UNCHANGED <<nodes, base, packages, rows, lastId>>
  BY DEF AgentStart
<1>3. PICK r \in Row : r = k.doc.row
  BY <1>1, DocShape
<1>4. /\ agents' \in [Servers -> Agent \cup {None}] /\ OnlyAt(r)
      /\ OnAgent(r)' # None /\ OnAgent(r)'.wanted = TRUE
      /\ OnAgent(r)'.version = OnAgent(r).version
  BY <1>1, <1>3, SetWanted DEF AgentStart
<1>5. D \in {"Running", "Stopped"} /\ (k.op # "start" => D = r.desired)
      /\ (k.op = "start" => D = IF r.name \in Oneshot THEN "Stopped" ELSE "Running")
  BY <1>1, <1>3, DocShape DEF DesiredAfterStart
<1>6. call' = [call EXCEPT ![c].pc = "store", ![c].doc.row.desired = D]
  BY DEF AgentStart
<1> HIDE DEF D
<1>7. /\ call' \in [Handlers -> Call] /\ \A d \in Handlers \ {c} : call'[d] = call[d]
      /\ Same(k, x) /\ x.pc = "store" /\ x.read = k.read /\ x.todo = k.todo
      /\ x.doc \in Doc /\ x.doc.id = k.doc.id /\ x.doc.row \in Row
      /\ x.doc.row.name = r.name /\ x.doc.row.server = r.server
      /\ x.doc.row.version = r.version /\ x.doc.row.desired = D
      /\ D = r.desired => x.doc = k.doc
  <2>1. PICK E \in {"Running", "Stopped"} : E = D
    BY <1>5
  <2>2. SetDesired(c, E)
    BY <1>6, <2>1 DEF SetDesired
  <2>3. /\ call' \in [Handlers -> Call] /\ \A d \in Handlers \ {c} : call'[d] = call[d]
        /\ Same(k, x) /\ x.pc = "store" /\ x.read = k.read /\ x.todo = k.todo
        /\ x.doc \in Doc /\ x.doc.id = k.doc.id /\ x.doc.row \in Row
        /\ x.doc.row.name = k.doc.row.name /\ x.doc.row.server = k.doc.row.server
        /\ x.doc.row.version = k.doc.row.version /\ x.doc.row.desired = E
        /\ E = k.doc.row.desired => x.doc = k.doc
    BY <1>1, <2>2, DesiredSet
  <2> QED BY <1>3, <2>1, <2>3
<1>8. x.op = k.op
  BY <1>7 DEF Same
<1>9. PICK q \in Row : q = x.doc.row
  BY <1>7
<1> HIDE DEF k, x
<1>10. OnAgent(q)' = OnAgent(r)'
  BY <1>7, <1>9 DEF OnAgent, Alive
<1>11. InStep(c)'
  BY <1>1, <1>7, <1>8 DEF InStep, PcsOf, x
<1>12. Installed(r) => Agrees(q, TRUE)'
  <2>1. Installed(r) => OnAgent(q)'.version = q.version
    BY <1>4, <1>7, <1>9, <1>10 DEF Installed
  <2> QED BY <1>4, <1>10, <2>1 DEF Agrees
<1>13. ASSUME Achieved(call[c]) PROVE Achieved(call[c])'
  <2>1. CASE k.op = "apply"
    <3>1. Swept(call[c]) /\ Restoring(call[c])
      BY <1>13, <2>1 DEF Achieved, PlanDone, k
    <3>2. x.doc = k.doc /\ q = r
      BY <1>3, <1>5, <1>7, <1>9, <2>1
    <3>3. Swept(call[c])'
      BY <1>1, <1>2, <1>3, <1>4, <1>7, <2>1, <3>1, <3>2, OthersStand DEF k, x
    <3>4. Installed(r) /\ ToBoot(r) /\ rows[k.doc.id] = r
      BY <1>1, <1>3, <3>1 DEF Restoring, k
    <3>5. Agrees(r, ToBoot(r))'
      BY <1>12, <3>2, <3>4 DEF Agrees
    <3>6. x.doc.row = r /\ rows'[x.doc.id] = r
      BY <1>2, <1>3, <3>2, <3>4
    <3>7. Restoring(call[c])'
      BY <1>7, <3>5, <3>6 DEF Restoring, x, Agrees, OnAgent, Alive, ToBoot
    <3> QED BY <1>8, <2>1, <3>3, <3>7 DEF Achieved, PlanDone, x
  <2>2. CASE k.op \in {"start", "upgrade"}
    <3>1. Installed(r) /\ (k.op = "upgrade" => ToRun(r))
      BY <1>1, <1>3, <1>13, <2>2 DEF Achieved, OneDone, k
    <3>2. Agrees(q, TRUE)'
      BY <1>12, <3>1
    <3>3. q.name \notin Oneshot => ToRun(q)
      BY <1>5, <1>7, <1>9, <2>2, <3>1 DEF ToRun
    <3>4. Agrees(q, ToRun(q))'
      BY <3>2, <3>3 DEF Agrees, ToRun
    <3>5. Reached(call[c])'
      BY <1>8, <1>9, <2>2, <3>4 DEF Reached, x, Agrees, OnAgent, Alive, ToRun
    <3> QED BY <1>7, <1>8, <2>2, <3>5 DEF Achieved, OneDone, x
  <2>3. CASE k.op = "create"
    BY <1>8, <2>3, NothingClaimed DEF x
  <2> QED BY <1>1, <2>1, <2>2, <2>3
<1>14. /\ x.doc.row.name = k.doc.row.name /\ x.doc.row.server = k.doc.row.server
       /\ x.pc # "insert"
  BY <1>3, <1>7
<1> QED BY <1>1, <1>2, <1>4, <1>7, <1>11, <1>13, <1>14, AgentStep DEF k, x

\* A failed call, whatever it did to the agent.
LEMMA FailedCallOK ==
  ASSUME IInv, NEW c \in Handlers, call[c].pc = "start",
         UNCHANGED <<nodes, base, packages, rows, lastId>>,
         agents' \in [Servers -> Agent \cup {None}],
         AbortUnlessCreate(c)
  PROVE  IInv'
<1> DEFINE k == call[c]
           x == call'[c]
<1>1. /\ TypeOK /\ InStep(c) /\ Active(c)
      /\ k.op \in {"create", "start", "upgrade", "apply"} /\ k.doc \in Doc /\ k.doc.id # 0
  BY OpOfPc DEF IInv, Calls, Active, InStep
<1>2. /\ call' \in [Handlers -> Call] /\ \A d \in Handlers \ {c} : call'[d] = call[d]
      /\ Same(k, x) /\ x.doc = k.doc /\ x.read = k.read /\ x.todo = k.todo
      /\ (k.op = "create" /\ x.pc = "store") \/ (k.op # "create" /\ x.pc = "done" /\ ~x.ok)
  BY <1>1, AbortMoves
<1>3. x.op = k.op
  BY <1>2 DEF Same
<1> HIDE DEF k, x
<1>4. InStep(c)'
  BY <1>1, <1>2, <1>3 DEF InStep, PcsOf, x
<1>5. Achieved(call[c])'
  BY <1>2, <1>3, NothingClaimed DEF x
<1> QED BY <1>1, <1>2, <1>4, <1>5, AgentStep DEF k, x

\* A failed start ends the operation, except a creation.
LEMMA AgentStartFailsOK ==
  ASSUME IInv, NEW c \in Handlers, AgentStartFails(c) PROVE IInv'
<1>1. TypeOK /\ call[c].doc \in Doc /\ call[c].doc.row \in Row
  BY DocShape DEF IInv, Calls, InStep, AgentStartFails
<1>2. PICK r \in Row : r = call[c].doc.row
  BY <1>1
<1>3. agents' \in [Servers -> Agent \cup {None}]
  <2>1. CASE UNCHANGED agents
    BY <1>1, <2>1 DEF TypeOK
  <2>2. ASSUME OnAgent(r) # None, NEW up \in BOOLEAN,
               agents' = Put(r, [OnAgent(r) EXCEPT !.wanted = TRUE, !.running = @ \/ up])
        PROVE  agents' \in [Servers -> Agent \cup {None}]
    <3>1. OnAgent(r) \in Definition
      BY <1>1, <2>2, OnAgentShape
    <3>2. (OnAgent(r).running \/ up) \in BOOLEAN
      BY <3>1 DEF Definition
    <3> QED BY <1>1, <2>2, <3>2, SetWanted
  <2> QED BY <1>2, <2>1, <2>2 DEF AgentStartFails
<1> QED BY <1>3, FailedCallOK DEF AgentStartFails

\* Stop: an upgrade goes on, a stop has its effect recorded.
LEMMA AgentStopOK ==
  ASSUME IInv, NEW c \in Handlers, AgentStop(c) PROVE IInv'
<1> DEFINE k == call[c]
           x == call'[c]
<1>1. /\ TypeOK /\ InStep(c) /\ k.pc = "stop" /\ Active(c) /\ k \in Call
      /\ k.op \in {"stop", "upgrade"} /\ k.doc \in Doc /\ k.doc.id # 0
  BY OpOfPc DEF IInv, Calls, AgentStop, Active, InStep
<1>2. UNCHANGED <<nodes, base, packages, rows, lastId>>
  BY DEF AgentStop
<1>3. PICK r \in Row : r = k.doc.row
  BY <1>1, DocShape
<1>4. /\ agents' \in [Servers -> Agent \cup {None}]
      /\ OnAgent(r)' # None /\ OnAgent(r)'.wanted = FALSE
  BY <1>1, <1>3, SetWanted DEF AgentStop
<1>5. CASE k.op = "upgrade"
  <2>1. Goto(c, "install") /\ "install" \in Pcs
    BY <1>5 DEF AgentStop, Goto, Pcs
  <2>2. /\ call' \in [Handlers -> Call] /\ \A d \in Handlers \ {c} : call'[d] = call[d]
        /\ Same(k, x) /\ x.pc = "install" /\ x.doc = k.doc /\ x.read = k.read /\ x.todo = k.todo
    BY <1>1, <2>1, GotoMoves
  <2>3. x.op = k.op
    BY <2>2 DEF Same
  <2> HIDE DEF k, x
  <2>4. InStep(c)'
    BY <1>1, <1>5, <2>2, <2>3 DEF InStep, PcsOf, x
  <2>5. Achieved(call[c])'
    BY <1>5, <2>2, <2>3 DEF Achieved, OneDone, x
  <2> QED BY <1>1, <1>2, <1>4, <2>2, <2>4, <2>5, AgentStep DEF k, x
<1>6. CASE k.op = "stop"
  <2>1. SetDesired(c, "Stopped")
    BY <1>6 DEF AgentStop, SetDesired
  <2>2. /\ call' \in [Handlers -> Call] /\ \A d \in Handlers \ {c} : call'[d] = call[d]
        /\ Same(k, x) /\ x.pc = "store" /\ x.read = k.read /\ x.todo = k.todo
        /\ x.doc \in Doc /\ x.doc.id = k.doc.id /\ x.doc.row \in Row
        /\ x.doc.row.name = k.doc.row.name /\ x.doc.row.server = k.doc.row.server
        /\ x.doc.row.desired = "Stopped"
    BY <1>1, <2>1, DesiredSet
  <2>3. x.op = k.op
    BY <2>2 DEF Same
  <2>4. PICK q \in Row : q = x.doc.row
    BY <2>2
  <2> HIDE DEF k, x
  <2>5. OnAgent(q)' = OnAgent(r)'
    BY <1>3, <2>2, <2>4 DEF OnAgent, Alive
  <2>6. InStep(c)'
    BY <1>1, <1>6, <2>2, <2>3 DEF InStep, PcsOf, x
  <2>7. Reached(call[c])'
    BY <1>4, <1>6, <2>2, <2>3, <2>4, <2>5 DEF Reached, x, OnAgent, Alive
  <2>8. Achieved(call[c])'
    BY <1>6, <2>2, <2>3, <2>7 DEF Achieved, OneDone, x
  <2> QED BY <1>1, <1>2, <1>4, <2>2, <2>6, <2>8, AgentStep DEF k, x
<1> QED BY <1>1, <1>5, <1>6

\* A failed stop ends a stop; an upgrade goes on.
LEMMA AgentStopFailsOK ==
  ASSUME IInv, NEW c \in Handlers, AgentStopFails(c) PROVE IInv'
<1> DEFINE k == call[c]
           x == call'[c]
<1>1. /\ TypeOK /\ InStep(c) /\ k.pc = "stop" /\ Active(c) /\ k \in Call
      /\ k.op \in {"stop", "upgrade"} /\ k.doc \in Doc /\ k.doc.id # 0
  BY OpOfPc DEF IInv, Calls, AgentStopFails, Active, InStep
<1>2. UNCHANGED <<nodes, base, packages, rows, lastId>>
  BY DEF AgentStopFails
<1>3. PICK r \in Row : r = k.doc.row
  BY <1>1, DocShape
<1>4. agents' \in [Servers -> Agent \cup {None}]
  <2>1. CASE UNCHANGED agents
    BY <1>1, <2>1 DEF TypeOK
  <2>2. ASSUME OnAgent(r) # None, NEW up \in BOOLEAN,
               agents' = Put(r, [OnAgent(r) EXCEPT !.wanted = FALSE, !.running = @ /\ up])
        PROVE  agents' \in [Servers -> Agent \cup {None}]
    <3>1. OnAgent(r) \in Definition
      BY <1>1, <2>2, OnAgentShape
    <3>2. (OnAgent(r).running /\ up) \in BOOLEAN
      BY <3>1 DEF Definition
    <3> QED BY <1>1, <2>2, <3>2, SetWanted
  <2> QED BY <1>3, <2>1, <2>2 DEF AgentStopFails
<1>5. /\ call' \in [Handlers -> Call] /\ \A d \in Handlers \ {c} : call'[d] = call[d]
      /\ Same(k, x) /\ x.doc = k.doc /\ x.read = k.read /\ x.todo = k.todo
      /\ (k.op = "upgrade" /\ x.pc = "install") \/ (x.pc = "done" /\ ~x.ok)
  <2>1. CASE k.op = "upgrade"
    <3>1. Goto(c, "install") /\ "install" \in Pcs
      BY <2>1 DEF AgentStopFails, Pcs
    <3> QED BY <1>1, <2>1, <3>1, GotoMoves
  <2>2. CASE k.op # "upgrade"
    <3>1. Finish(c, FALSE)
      BY <2>2 DEF AgentStopFails
    <3> QED BY <1>1, <3>1, FinishMoves
  <2> QED BY <2>1, <2>2
<1>6. x.op = k.op
  BY <1>5 DEF Same
<1> HIDE DEF k, x
<1>7. InStep(c)'
  BY <1>1, <1>5, <1>6 DEF InStep, PcsOf, x
<1>8. Achieved(call[c])'
  <2>1. CASE k.op = "upgrade" /\ x.pc = "install"
    BY <1>6, <2>1 DEF Achieved, OneDone, x
  <2>2. CASE x.pc = "done" /\ ~x.ok
    BY <2>2, NothingClaimed DEF x
  <2> QED BY <1>5, <2>1, <2>2
<1> QED BY <1>1, <1>2, <1>4, <1>5, <1>7, <1>8, AgentStep DEF k, x

\* Remove: the definition is gone, or the call was in vain.
LEMMA AgentRemoveOK ==
  ASSUME IInv, NEW c \in Handlers, AgentRemove(c) PROVE IInv'
<1> DEFINE k == call[c]
           x == call'[c]
<1>1. /\ TypeOK /\ InStep(c) /\ k.pc = "remove" /\ Active(c) /\ k \in Call
      /\ k.op = "delete" /\ k.doc \in Doc /\ k.doc.id # 0
  BY OpOfPc DEF IInv, Calls, AgentRemove, Active, InStep
<1>2. UNCHANGED <<nodes, base, packages, rows, lastId>>
  BY DEF AgentRemove
<1>3. PICK r \in Row : r = k.doc.row
  BY <1>1, DocShape
<1>4. CASE Alive(r.server) /\ agents' = Put(r, None) /\ Goto(c, "delete")
  <2>1. /\ agents' \in [Servers -> Agent \cup {None}]
        /\ \A q \in Row : OnAgent(q)' = IF Slot(q, r) THEN None ELSE OnAgent(q)
    BY <1>1, <1>4, PutOn
  <2>2. OnAgent(r)' = None
    BY <2>1 DEF Slot
  <2>3. /\ call' \in [Handlers -> Call] /\ \A d \in Handlers \ {c} : call'[d] = call[d]
        /\ Same(k, x) /\ x.pc = "delete" /\ x.doc = k.doc /\ x.read = k.read /\ x.todo = k.todo
    BY <1>1, <1>4, GotoMoves DEF Pcs
  <2>4. x.op = k.op
    BY <2>3 DEF Same
  <2> HIDE DEF k, x
  <2>5. InStep(c)'
    BY <1>1, <2>3, <2>4 DEF InStep, PcsOf, x
  <2>6. Achieved(call[c])'
    BY <1>1, <1>3, <2>2, <2>3, <2>4 DEF Achieved, OneDone, Reached, x, OnAgent, Alive
  <2> QED BY <1>1, <1>2, <2>1, <2>3, <2>5, <2>6, AgentStep DEF k, x
<1>5. CASE UNCHANGED agents /\ call' = [call EXCEPT ![c].pc = "delete", ![c].deployed = FALSE]
  <2> DEFINE y == [k EXCEPT !.pc = "delete", !.deployed = FALSE]
  <2>1. call' = [call EXCEPT ![c] = y]
    BY <1>5
  <2>2. /\ y \in Call /\ Same(k, y) /\ y.pc = "delete" /\ y.doc = k.doc /\ y.read = k.read /\ y.todo = k.todo
        /\ y.deployed = FALSE
    BY <1>1 DEF Call, Pcs, Same
  <2> HIDE DEF y
  <2>3. call' \in [Handlers -> Call] /\ x = y /\ \A d \in Handlers \ {c} : call'[d] = call[d]
    BY <1>1, <2>1, <2>2, Written
  <2>4. x.op = k.op /\ agents' \in [Servers -> Agent \cup {None}]
    BY <1>1, <1>5, <2>2, <2>3 DEF Same, TypeOK
  <2> HIDE DEF k, x
  <2>5. InStep(c)'
    BY <1>1, <2>2, <2>3, <2>4 DEF InStep, PcsOf, x
  <2>6. Achieved(call[c])'
    BY <1>1, <2>2, <2>3, <2>4 DEF Achieved, OneDone, Reached, x
  <2> QED BY <1>1, <1>2, <2>2, <2>3, <2>4, <2>5, <2>6, AgentStep DEF k, x
<1> QED BY <1>3, <1>4, <1>5 DEF AgentRemove

----------------------------------------------------------------------------
(* Statements on the programs table *)

\* What the table's own steps keep of it.
TableOK ==
  /\ rows' \in [Ids -> Row \cup {None}]
  /\ \A i \in Ids : i > lastId => rows'[i] = None
  /\ Kept

\* UPDATE writes back a document that tracks its record.
LEMMA UpdatedKeeps ==
  ASSUME TypeOK, NEW d, Tracks(d), rows' = Updated(d), lastId' = lastId
  PROVE  /\ TableOK
         /\ rows[d.id] # None => rows'[d.id] = d.row
<1>1. d \in Doc /\ d.id \in Ids /\ d.row \in Row /\ d.id \in Int /\ lastId \in Int /\ d.id <= lastId
  BY DocShape DEF Tracks, Ids, TypeOK
<1>2. CASE rows[d.id] = None
  <2>1. rows' = rows
    BY <1>2 DEF Updated
  <2> QED BY <1>1, <1>2, <2>1 DEF TypeOK, Kept, TableOK
<1>3. CASE rows[d.id] # None
  <2>1. rows' = [rows EXCEPT ![d.id] = d.row]
    BY <1>3 DEF Updated
  <2>2. rows' \in [Ids -> Row \cup {None}] /\ rows'[d.id] = d.row /\ \A i \in Ids \ {d.id} : rows'[i] = rows[i]
    BY <1>1, <2>1 DEF TypeOK
  <2>3. ASSUME NEW i \in Ids, i > lastId PROVE rows'[i] = None
    <3>1. i # d.id
      BY <1>1, <2>3
    <3> QED BY <2>2, <2>3, <3>1 DEF TypeOK
  <2>4. Kept
    BY <1>1, <1>3, <2>2 DEF Kept, Tracks
  <2> QED BY <2>2, <2>3, <2>4 DEF TableOK
<1> QED BY <1>2, <1>3

\* DELETE leaves nothing of the record.
LEMMA ErasedKeeps ==
  ASSUME TypeOK, NEW i \in Ids, rows' = [rows EXCEPT ![i] = None], lastId' = lastId
  PROVE  /\ TableOK
         /\ rows'[i] = None /\ \A j \in Ids \ {i} : rows'[j] = rows[j]
<1>1. lastId \in Int
  BY DEF TypeOK
<1>2. rows' \in [Ids -> Row \cup {None}] /\ rows'[i] = None /\ \A j \in Ids \ {i} : rows'[j] = rows[j]
  BY DEF TypeOK
<1> QED BY <1>1, <1>2 DEF TypeOK, Kept, TableOK

\* A step of c that writes records or deletes them.
LEMMA TableStep ==
  ASSUME IInv, NEW c \in Handlers, Active(c), TableOK,
         UNCHANGED <<nodes, base, packages, lastId, agents>>,
         call' \in [Handlers -> Call], \A d \in Handlers \ {c} : call'[d] = call[d],
         Same(call[c], call'[c]), call'[c].doc = call[c].doc, call'[c].read \subseteq call[c].read,
         ToSet(call'[c].todo) \subseteq ToSet(call[c].todo), call'[c].pc # "insert",
         InStep(c)',
         Achieved(call[c]) => Achieved(call[c])'
  PROVE  IInv'
<1>1. TypeOK' /\ Kept
  BY DEF IInv, TypeOK, TableOK
<1>2. OneRecordPerServer' /\ Room'
  BY <1>1, KeptUnique, RoomKept DEF IInv
<1>3. Held(c)'
  BY <1>1, HeldStays
<1>4. call'[c].alone = call[c].alone
  BY DEF Same
<1> QED BY <1>1, <1>2, <1>3, <1>4, StepKeeps

\* What the agents have been told stands where neither they nor the document change.
LEMMA ReachedStays ==
  ASSUME NEW c \in Handlers, Reached(call[c]), UNCHANGED <<agents, base>>,
         call'[c].op = call[c].op, call'[c].doc = call[c].doc, call'[c].deployed = call[c].deployed
  PROVE  Reached(call[c])'
  BY DEF Reached, Agrees, OnAgent, Alive, ToRun

\* DeleteProgram deletes the record at last.
LEMMA DeleteRowOK ==
  ASSUME IInv, NEW c \in Handlers, DeleteRow(c) PROVE IInv'
<1> DEFINE k == call[c]
           x == call'[c]
           f == rows[k.doc.id] # None
<1>1. /\ TypeOK /\ InStep(c) /\ k.pc = "delete" /\ Active(c) /\ k \in Call
      /\ k.op = "delete" /\ k.doc \in Doc /\ k.doc.id # 0 /\ k.doc.id \in Ids
  BY OpOfPc, DocShape DEF IInv, Calls, DeleteRow, Active, InStep
<1>2. UNCHANGED <<nodes, base, packages, lastId, agents>>
  BY DEF DeleteRow
<1>3. TableOK /\ rows'[k.doc.id] = None
  BY <1>1, <1>2, ErasedKeeps DEF DeleteRow
<1>4. f \in BOOLEAN /\ Finish(c, f)
  BY DEF DeleteRow
<1> HIDE DEF f
<1>5. /\ call' \in [Handlers -> Call] /\ \A d \in Handlers \ {c} : call'[d] = call[d]
      /\ Same(k, x) /\ x.pc = "done" /\ x.doc = k.doc /\ x.read = k.read /\ x.todo = k.todo
      /\ x.deployed = k.deployed
  BY <1>1, <1>4, FinishMoves
<1>6. x.op = k.op
  BY <1>5 DEF Same
<1> HIDE DEF k, x
<1>7. InStep(c)'
  BY <1>1, <1>5, <1>6 DEF InStep, PcsOf, x
<1>8. ASSUME Achieved(call[c]) PROVE Achieved(call[c])'
  <2>1. Reached(call[c])
    BY <1>1, <1>8 DEF Achieved, OneDone, k
  <2>2. Reached(call[c])'
    BY <1>2, <1>5, <1>6, <2>1, ReachedStays DEF k, x
  <2> QED BY <1>1, <1>3, <1>5, <1>6, <2>2 DEF Achieved, OneDone, x
<1> QED BY <1>1, <1>2, <1>3, <1>5, <1>7, <1>8, TableStep DEF k, x

\* INSERT takes a new id, unless the name is taken on that server.
LEMMA InsertProgramOK ==
  ASSUME IInv, NEW c \in Handlers, InsertProgram(c) PROVE IInv'
<1> DEFINE k == call[c]
           x == call'[c]
           r == k.doc.row
           n == lastId + 1
<1>1. /\ TypeOK /\ InStep(c) /\ k.pc = "insert" /\ Active(c) /\ k \in Call
      /\ k.op = "create" /\ k.doc \in Doc /\ r \in Row
  BY OpOfPc, DocShape DEF IInv, Calls, InsertProgram, Active, InStep
<1>2. UNCHANGED <<nodes, base, packages, agents>>
  BY DEF InsertProgram
<1>3. CASE Violates(r)
  <2>1. Finish(c, FALSE) /\ UNCHANGED <<rows, lastId>>
    BY <1>3 DEF InsertProgram
  <2>2. /\ call' \in [Handlers -> Call] /\ \A d \in Handlers \ {c} : call'[d] = call[d]
        /\ Same(k, x) /\ x.pc = "done" /\ x.doc = k.doc /\ x.read = k.read /\ x.todo = k.todo /\ ~x.ok
    BY <1>1, <2>1, FinishMoves
  <2>3. x.op = k.op
    BY <2>2 DEF Same
  <2> HIDE DEF k, x, r
  <2>4. InStep(c)' /\ Achieved(call[c])'
    BY <1>1, <2>2, <2>3, NothingClaimed DEF InStep, PcsOf, x
  <2>5. TableOK
    BY <1>1, <2>1, SameTable DEF TypeOK, TableOK
  <2> QED BY <1>1, <1>2, <2>1, <2>2, <2>4, <2>5, TableStep DEF k, x
<1>4. CASE ~Violates(r)
  <2>1. rows' = [rows EXCEPT ![n] = r] /\ lastId' = n
    BY <1>4 DEF InsertProgram
  <2>2. IsFiniteSet(Inserting) /\ c \in Inserting
    BY <1>1, FS_Subset, ProgramsAssumptions DEF ProgramsAssumptions, Inserting
  <2>3. IsFiniteSet(Inserting \ {c}) /\ Cardinality(Inserting \ {c}) = Cardinality(Inserting) - 1
        /\ Cardinality(Inserting \ {c}) \in Nat /\ Cardinality(Inserting) \in Nat
    BY <2>2, FS_RemoveElement, FS_CardinalityType
  <2>4. lastId \in Nat /\ MaxId \in Nat /\ lastId + Cardinality(Inserting) <= MaxId
    BY ProgramsAssumptions DEF ProgramsAssumptions, IInv, TypeOK, Room
  <2>5. n \in Ids /\ n \in Nat /\ n > lastId /\ n <= MaxId /\ n # 0
    BY <2>3, <2>4 DEF Ids
  <2>6. rows' \in [Ids -> Row \cup {None}] /\ rows'[n] = r /\ \A i \in Ids \ {n} : rows'[i] = rows[i]
    BY <1>1, <2>1, <2>5 DEF TypeOK
  <2> DEFINE e == [k.doc EXCEPT !.id = n]
             p == IF k.deployed THEN "install" ELSE "done"
             y == [k EXCEPT !.doc = e, !.ok = ~k.deployed, !.pc = p]
  <2>7. call' = [call EXCEPT ![c] = y]
    BY <1>4 DEF InsertProgram
  <2>8. e \in Doc /\ e.id = n /\ e.row = r
    BY <1>1, <2>5 DEF Doc
  <2>9. p \in {"install", "done"}
    OBVIOUS
  <2> HIDE DEF e, p
  <2>10. y \in Call /\ Same(k, y) /\ y.pc = p /\ y.doc = e /\ y.read = k.read /\ y.todo = k.todo
    BY <1>1, <2>8, <2>9 DEF Call, Pcs, Same
  <2> HIDE DEF y
  <2>11. call' \in [Handlers -> Call] /\ x = y /\ \A d \in Handlers \ {c} : call'[d] = call[d]
    BY <1>1, <2>7, <2>10, Written
  <2>12. x.op = "create" /\ x.alone = k.alone
    BY <1>1, <2>10, <2>11 DEF Same
  <2> HIDE DEF k, x, r, n
  <2>13. \A i \in Ids : i > n => rows'[i] = None
    <3>1. ASSUME NEW i \in Ids, i > n PROVE rows'[i] = None
      <4>1. i > lastId /\ i # n
        BY <2>4, <2>5, <3>1 DEF Ids
      <4> QED BY <1>1, <2>6, <4>1 DEF TypeOK
    <3> QED BY <3>1
  <2>14. TypeOK'
    <3>1. n \in 0 .. MaxId
      BY <2>4, <2>5
    <3> QED BY <1>1, <1>2, <2>1, <2>6, <2>11, <2>13, <3>1 DEF TypeOK, n
  <2>15. Kept
    <3>1. lastId <= lastId'
      BY <2>1, <2>4, <2>5
    <3>2. \A i \in Ids : i <= lastId => i # n
      BY <2>4, <2>5 DEF Ids
    <3> QED BY <2>6, <3>1, <3>2 DEF Kept
  <2>16. OneRecordPerServer'
    <3>1. \A i \in Records' : i \in Ids /\ (i # n => i \in Records /\ rows'[i] = rows[i])
      BY <2>6 DEF Records
    <3>2. \A i \in Records : ~(rows[i].name = r.name /\ rows[i].server = r.server)
      BY <1>4 DEF Violates, Taken, Records
    <3> QED BY <2>6, <3>1, <3>2 DEF OneRecordPerServer, IInv
  <2>17. Room'
    <3>1. Inserting' = Inserting \ {c}
      BY <2>9, <2>10, <2>11 DEF Inserting, x
    <3> QED BY <2>1, <2>3, <2>4, <3>1 DEF Room, n
  <2>18. InStep(c)'
    BY <2>5, <2>8, <2>9, <2>10, <2>11, <2>12 DEF InStep, PcsOf, x
  <2>19. Held(c)'
    <3>1. \A z : Tracks(z) => Tracks(z)'
      BY <1>1, <2>14, <2>15, KeptTracks
    <3>2. Held(c)
      BY DEF IInv, Documents
    <3>3. Tracks(call[c].doc)'
      BY <2>1, <2>4, <2>5, <2>6, <2>8, <2>10, <2>11 DEF Tracks, x, n
    <3> QED BY <2>10, <2>11, <3>1, <3>2, <3>3 DEF Held, x, k
  <2>20. Achieved(call[c])'
    BY <2>12, NothingClaimed DEF x
  <2> QED BY <1>1, <2>11, <2>12, <2>14, <2>15, <2>16, <2>17, <2>18, <2>19, <2>20, StepKeeps DEF x, k
<1> QED BY <1>3, <1>4

\* The record of what an operation did is written, if it still exists.
LEMMA StoreProgramOK ==
  ASSUME IInv, NEW c \in Handlers, StoreProgram(c) PROVE IInv'
<1> DEFINE k == call[c]
           x == call'[c]
           f == rows[k.doc.id] # None
<1>1. /\ TypeOK /\ InStep(c) /\ k.pc = "store" /\ Active(c) /\ k \in Call
      /\ k.op \in {"create", "start", "stop", "upgrade", "apply"} /\ k.doc \in Doc /\ k.doc.id # 0
      /\ k.doc.row \in Row /\ k.doc.id \in Ids
  BY OpOfPc, DocShape DEF IInv, Calls, StoreProgram, Active, InStep
<1>2. UNCHANGED <<nodes, base, packages, lastId, agents>>
  BY DEF StoreProgram
<1>3. Tracks(k.doc)
  BY <1>1 DEF IInv, Documents, Held
<1>4. rows' = Updated(k.doc)
  BY DEF StoreProgram
<1>5. TableOK /\ (f => rows'[k.doc.id] = k.doc.row)
  BY <1>1, <1>2, <1>3, <1>4, UpdatedKeeps
<1>6. CASE f /\ k.op = "apply"
  <2>1. Goto(c, "restore") /\ "restore" \in Pcs
    BY <1>6 DEF StoreProgram, Pcs
  <2>2. /\ call' \in [Handlers -> Call] /\ \A d \in Handlers \ {c} : call'[d] = call[d]
        /\ Same(k, x) /\ x.pc = "restore" /\ x.doc = k.doc /\ x.read = k.read /\ x.todo = k.todo
    BY <1>1, <2>1, GotoMoves
  <2>3. x.op = k.op /\ x.gone = k.gone /\ x.scope = k.scope
    BY <2>2 DEF Same
  <2> HIDE DEF k, x, f
  <2>4. InStep(c)'
    BY <1>1, <1>6, <2>2, <2>3 DEF InStep, PcsOf, x
  <2>5. ASSUME Achieved(call[c]) PROVE Achieved(call[c])'
    <3>1. Swept(k) /\ Restoring(k)
      BY <1>6, <2>5 DEF Achieved, PlanDone, k
    <3>2. rows[k.doc.id] = k.doc.row /\ Agrees(k.doc.row, ToBoot(k.doc.row))
      BY <1>1, <3>1 DEF Restoring
    <3>3. rows' = rows
      BY <1>1, <1>4, <3>2 DEF Updated, TypeOK
    <3>4. Records' = Records /\ \A i : DocOf(i)' = DocOf(i)
      BY <1>1, <1>2, <3>3, SameTable
    <3>5. \A i \in Records : rows[i].server \in k.scope /\ i \notin Pending(k) => Restored(i)
      BY <1>1, <3>1 DEF Swept
    <3>6. Restored(k.doc.id)
      BY <3>2 DEF Restored
    <3>7. \A i \in Records : i \notin Pending(call[c])' => i \notin Pending(k) \/ i = k.doc.id
      BY <1>1, <2>2, <3>4 DEF Pending, x
    <3>8. \A i \in Records : Restored(i)' = Restored(i)
      BY <1>2, <3>3 DEF Restored, Agrees, OnAgent, Alive, ToBoot
    <3>9. \A i \in Records : rows[i].server \in k.scope /\ i \notin Pending(call[c])' => Restored(i)'
      BY <3>5, <3>6, <3>7, <3>8
    <3>10. (\A i \in Records : rows[i].server \notin k.gone) /\ \A d \in ToSet(k.todo) : rows[d.id] = d.row
      BY <1>1, <3>1 DEF Swept
    <3>11. Swept(call[c])'
      BY <2>2, <2>3, <3>3, <3>4, <3>9, <3>10 DEF Swept, x
    <3>12. Restoring(call[c])'
      BY <2>2 DEF Restoring, x
    <3> QED BY <1>6, <2>3, <3>11, <3>12 DEF Achieved, PlanDone, x
  <2> QED BY <1>1, <1>2, <1>5, <2>2, <2>4, <2>5, TableStep DEF k, x
<1>7. CASE ~(f /\ k.op = "apply")
  <2>1. Finish(c, f) /\ f \in BOOLEAN
    BY <1>7 DEF StoreProgram
  <2> HIDE DEF f
  <2>2. /\ call' \in [Handlers -> Call] /\ \A d \in Handlers \ {c} : call'[d] = call[d]
        /\ Same(k, x) /\ x.pc = "done" /\ x.doc = k.doc /\ x.read = k.read /\ x.todo = k.todo
        /\ x.ok = f /\ x.deployed = k.deployed
    BY <1>1, <2>1, FinishMoves
  <2>3. x.op = k.op
    BY <2>2 DEF Same
  <2> HIDE DEF k, x
  <2>4. InStep(c)'
    BY <1>1, <2>2, <2>3 DEF InStep, PcsOf, x
  <2>5. ASSUME Achieved(call[c]) PROVE Achieved(call[c])'
    <3>1. CASE ~f \/ k.op = "create"
      BY <2>2, <2>3, <3>1, NothingClaimed DEF x
    <3>2. CASE f /\ k.op # "create"
      <4>1. k.op \in {"start", "stop", "upgrade"}
        BY <1>1, <1>7, <3>2
      <4>2. Reached(call[c])
        BY <1>1, <2>5, <4>1 DEF Achieved, OneDone, k
      <4>3. Reached(call[c])'
        BY <1>2, <2>2, <2>3, <4>2, ReachedStays DEF k, x
      <4>4. rows'[x.doc.id] = x.doc.row
        BY <1>5, <2>2, <3>2
      <4> QED BY <2>2, <2>3, <4>1, <4>3, <4>4 DEF Achieved, OneDone, x
    <3> QED BY <3>1, <3>2
  <2> QED BY <1>1, <1>2, <1>5, <2>2, <2>4, <2>5, TableStep DEF k, x
<1> QED BY <1>6, <1>7

----------------------------------------------------------------------------
(* ListPrograms *)

\* The documents of one server are set aside to be refreshed.
LEMMA QueryAgentOK ==
  ASSUME IInv, NEW c \in Handlers, QueryAgent(c) PROVE IInv'
<1> DEFINE k == call[c]
           x == call'[c]
<1>1. TypeOK /\ InStep(c) /\ k.pc = "query" /\ Active(c) /\ k \in Call /\ k.op = "list"
  BY OpOfPc DEF IInv, Calls, QueryAgent, Active, InStep
<1>2. UNCHANGED <<nodes, base, packages, rows, lastId, agents>>
  BY DEF QueryAgent
<1>3. /\ k.read \in SUBSET Doc /\ IsFiniteSet(k.read) /\ \A d \in k.read : Tracks(d)
      /\ k.doc \in Doc /\ k.doc.id # 0 => Tracks(k.doc)
  <2>1. k.read \in SUBSET Doc
    BY <1>1 DEF Call
  <2> QED BY <2>1 DEF IInv, Documents, Held
<1>4. PICK d0 \in k.read :
        LET s == d0.row.server
            group == {e \in k.read : e.row.server = s}
            known == {e \in group : OnAgent(e.row) # None}
        IN \E docs \in {<<>>} \cup Listed(known) :
             call' = [call EXCEPT ![c].pc = "refresh", ![c].todo = docs, ![c].read = @ \ group]
  BY DEF QueryAgent
<1> DEFINE group == {e \in k.read : e.row.server = d0.row.server}
           known == {e \in group : OnAgent(e.row) # None}
<1>5. PICK docs \in {<<>>} \cup Listed(known) :
        call' = [call EXCEPT ![c].pc = "refresh", ![c].todo = docs, ![c].read = @ \ group]
  BY <1>4
<1>6. docs \in Seq(Doc) /\ ToSet(docs) \subseteq k.read
  <2>1. CASE docs = <<>>
    <3>1. <<>> \in Seq(Doc)
      OBVIOUS
    <3> QED BY <2>1, <3>1, EmptySet
  <2>2. CASE docs \in Listed(known)
    <3>1. known \in SUBSET k.read /\ known \in SUBSET Doc
      BY <1>3
    <3> HIDE DEF known
    <3>2. IsFiniteSet(known)
      BY <1>3, <3>1, FS_Subset
    <3>3. docs \in Seq(Doc) /\ ToSet(docs) = known
      BY <2>2, <3>1, <3>2, ListedLists
    <3> QED BY <3>1, <3>3
  <2> QED BY <1>5, <2>1, <2>2
<1> DEFINE R == k.read \ group
           y == [k EXCEPT !.pc = "refresh", !.todo = docs, !.read = R]
<1>7. call' = [call EXCEPT ![c] = y]
  BY <1>5
<1>8. R \subseteq k.read
  OBVIOUS
<1> HIDE DEF R
<1>9. /\ y \in Call /\ Same(k, y) /\ y.pc = "refresh" /\ y.doc = k.doc /\ y.read = R /\ y.todo = docs
  BY <1>1, <1>3, <1>6, <1>8 DEF Call, Pcs, Same
<1> HIDE DEF y
<1>10. call' \in [Handlers -> Call] /\ x = y /\ \A d \in Handlers \ {c} : call'[d] = call[d]
  BY <1>1, <1>7, <1>9, Written
<1>11. x.op = "list" /\ x.alone = k.alone
  BY <1>1, <1>9, <1>10 DEF Same
<1> HIDE DEF k, x, group, known
<1>12. TypeOK'
  BY <1>1, <1>2, <1>10 DEF TypeOK
<1>13. Held(c)'
  <2>1. \A z : Tracks(z) => Tracks(z)'
    BY <1>1, <1>2, <1>12, SameTable, KeptTracks
  <2>2. IsFiniteSet(R)
    BY <1>3, <1>8, FS_Subset
  <2> QED BY <1>3, <1>6, <1>8, <1>9, <1>10, <2>1, <2>2 DEF Held, x
<1>14. InStep(c)' /\ Achieved(call[c])'
  BY <1>9, <1>10, <1>11, NothingClaimed DEF InStep, PcsOf, x
<1>15. x.pc # "insert"
  BY <1>9, <1>10
<1> QED BY <1>1, <1>2, <1>10, <1>11, <1>12, <1>13, <1>14, <1>15, QuietStep DEF x, k

\* Each record is written back with its status.
LEMMA RefreshStatusOK ==
  ASSUME IInv, NEW c \in Handlers, RefreshStatus(c) PROVE IInv'
<1> DEFINE k == call[c]
           x == call'[c]
<1>1. /\ TypeOK /\ InStep(c) /\ k.pc = "refresh" /\ Active(c) /\ k \in Call /\ k.op = "list"
      /\ k.todo \in Seq(Doc)
  BY OpOfPc DEF IInv, Calls, RefreshStatus, Active, InStep, Call
<1>2. UNCHANGED <<nodes, base, packages, lastId, agents>>
  BY DEF RefreshStatus
<1>3. /\ TableOK /\ call' \in [Handlers -> Call] /\ \A d \in Handlers \ {c} : call'[d] = call[d]
      /\ Same(k, x) /\ x.doc = k.doc /\ x.read = k.read /\ ToSet(x.todo) \subseteq ToSet(k.todo)
      /\ x.pc \in {"query", "refresh", "done"}
  <2>1. CASE k.todo = <<>>
    <3>1. UNCHANGED rows
      BY <2>1 DEF RefreshStatus
    <3>2. TableOK
      BY <1>1, <1>2, <3>1, SameTable DEF TypeOK, TableOK
    <3>3. Finish(c, TRUE) \/ Goto(c, "query")
      BY <2>1 DEF RefreshStatus
    <3>4. "query" \in Pcs
      BY DEF Pcs
    <3> QED BY <1>1, <3>2, <3>3, <3>4, FinishMoves, GotoMoves
  <2>2. CASE k.todo # <<>>
    <3> DEFINE y == [k EXCEPT !.todo = Tail(k.todo)]
    <3>1. rows' = Updated(Head(k.todo)) /\ call' = [call EXCEPT ![c] = y]
      BY <2>2 DEF RefreshStatus
    <3>2. Head(k.todo) \in Doc /\ Tail(k.todo) \in Seq(Doc)
          /\ ToSet(k.todo) = {Head(k.todo)} \cup ToSet(Tail(k.todo))
      BY <1>1, <2>2, HeadTail
    <3>3. Tracks(Head(k.todo))
      BY <3>2 DEF IInv, Documents, Held
    <3>4. TableOK
      BY <1>1, <1>2, <3>1, <3>3, UpdatedKeeps
    <3>5. y \in Call /\ Same(k, y) /\ y.doc = k.doc /\ y.read = k.read /\ y.todo = Tail(k.todo) /\ y.pc = "refresh"
      BY <1>1, <3>2 DEF Call, Same
    <3> HIDE DEF y
    <3>6. call' \in [Handlers -> Call] /\ x = y /\ \A d \in Handlers \ {c} : call'[d] = call[d]
      BY <1>1, <3>1, <3>5, Written
    <3> QED BY <3>2, <3>4, <3>5, <3>6
  <2> QED BY <2>1, <2>2
<1>4. x.op = "list" /\ x.read \subseteq k.read /\ x.pc # "insert"
  BY <1>1, <1>3 DEF Same
<1> HIDE DEF k, x
<1>5. InStep(c)' /\ Achieved(call[c])'
  BY <1>3, <1>4, NothingClaimed DEF InStep, PcsOf, x
<1> QED BY <1>1, <1>2, <1>3, <1>4, <1>5, TableStep DEF k, x

----------------------------------------------------------------------------
(* Steps of an apply or a repair *)

\* A deploy empties the agents it recreates.
LEMMA DeployTopologyOK ==
  ASSUME IInv, NEW c \in Handlers, DeployTopology(c) PROVE IInv'
<1> DEFINE k == call[c]
           x == call'[c]
<1>1. /\ TypeOK /\ InStep(c) /\ k.pc = "deploy" /\ Active(c) /\ k \in Call /\ k.op \in {"apply", "repair"}
  BY OpOfPc DEF IInv, Calls, DeployTopology, Active, InStep
<1>2. UNCHANGED <<nodes, base, packages, rows, lastId>>
  BY DEF DeployTopology
<1>3. /\ call' \in [Handlers -> Call] /\ \A d \in Handlers \ {c} : call'[d] = call[d]
      /\ Same(k, x) /\ x.doc = k.doc /\ x.read = k.read /\ x.todo = k.todo
      /\ (k.op = "repair" /\ x.pc = "done") \/ (k.op = "apply" /\ x.pc = "scan")
  <2>1. CASE k.op = "repair"
    <3>1. Finish(c, TRUE)
      BY <2>1 DEF DeployTopology
    <3> QED BY <1>1, <2>1, <3>1, FinishMoves
  <2>2. CASE k.op = "apply"
    <3>1. Goto(c, "scan") /\ "scan" \in Pcs
      BY <2>2 DEF DeployTopology, Pcs
    <3> QED BY <1>1, <2>2, <3>1, GotoMoves
  <2> QED BY <1>1, <2>1, <2>2
<1>4. x.op = k.op /\ x.alone = k.alone
  BY <1>3 DEF Same
<1>5. Fresh \in Agent
  BY DEF Fresh, Agent
<1>6. agents' \in [Servers -> Agent \cup {None}]
  BY <1>1, <1>5 DEF DeployTopology, TypeOK
<1> HIDE DEF k, x
<1>7. TypeOK'
  BY <1>1, <1>2, <1>3, <1>6 DEF TypeOK
<1>8. Held(c)'
  BY <1>1, <1>2, <1>3, <1>7, SameTable, HeldStays DEF k, x
<1>9. InStep(c)' /\ x.pc # "insert"
  BY <1>1, <1>3, <1>4 DEF InStep, PcsOf, x
<1>10. Achieved(call[c])'
  <2>1. CASE k.op = "repair"
    BY <1>4, <2>1, NothingClaimed DEF x
  <2>2. CASE k.op = "apply"
    BY <1>3, <1>4, <2>2 DEF Achieved, PlanDone, Swept, Restoring, x
  <2> QED BY <1>1, <2>1, <2>2
<1> QED BY <1>1, <1>2, <1>3, <1>4, <1>7, <1>8, <1>9, <1>10, QuietStep DEF k, x

\* A scan reads the documents of some servers.
LEMMA ScanStep ==
  ASSUME IInv, NEW c \in Handlers, Active(c), call[c].op = "apply", NEW S,
         NEW p \in {"prune", "restore"}, NEW docs \in Listed(DocsOn(S)),
         call' = [call EXCEPT ![c].pc = p, ![c].todo = docs],
         UNCHANGED <<nodes, base, packages, rows, lastId, agents>>,
         (/\ Achieved(call[c]) /\ call'[c].pc = p /\ Same(call[c], call'[c])
          /\ ToSet(call'[c].todo) = DocsOn(S)) => Achieved(call[c])'
  PROVE  IInv'
<1> DEFINE k == call[c]
           x == call'[c]
           y == [k EXCEPT !.pc = p, !.todo = docs]
<1>1. TypeOK /\ k \in Call
  BY DEF IInv, TypeOK
<1>2. DocsOn(S) \in SUBSET Doc /\ IsFiniteSet(DocsOn(S)) /\ \A d \in DocsOn(S) : Tracks(d)
  BY <1>1, DocsOnShape
<1>3. docs \in Seq(Doc) /\ ToSet(docs) = DocsOn(S)
  BY <1>2, ListedLists
<1>4. call' = [call EXCEPT ![c] = y]
  OBVIOUS
<1>5. y \in Call /\ Same(k, y) /\ y.pc = p /\ y.todo = docs /\ y.doc = k.doc /\ y.read = k.read
  BY <1>1, <1>3 DEF Call, Same, Pcs
<1> HIDE DEF y
<1>6. call' \in [Handlers -> Call] /\ x = y /\ \A d \in Handlers \ {c} : call'[d] = call[d]
  BY <1>1, <1>4, <1>5, Written
<1>7. x.op = "apply" /\ x.alone = k.alone
  BY <1>5, <1>6 DEF Same
<1> HIDE DEF k, x
<1>8. TypeOK'
  BY <1>1, <1>6 DEF TypeOK
<1>9. Held(c)'
  <2>1. \A z : Tracks(z) => Tracks(z)'
    BY <1>1, <1>8, SameTable, KeptTracks
  <2>2. Held(c)
    BY DEF IInv, Documents
  <2>3. \A d \in ToSet(x.todo) : Tracks(d)
    BY <1>2, <1>3, <1>5, <1>6
  <2> QED BY <1>5, <1>6, <2>1, <2>2, <2>3 DEF Held, k, x
<1>10. InStep(c)' /\ x.pc # "insert"
  BY <1>5, <1>6, <1>7 DEF InStep, PcsOf, x
<1>11. Achieved(call[c]) => Achieved(call[c])'
  BY <1>3, <1>5, <1>6 DEF k, x
<1> QED BY <1>6, <1>7, <1>8, <1>9, <1>10, <1>11, QuietStep DEF k, x

\* The scan that a prune begins with finds every record to be pruned.
LEMMA ListForPruneOK ==
  ASSUME IInv, NEW c \in Handlers, ListForPrune(c) PROVE IInv'
<1>1. TypeOK /\ call[c].pc = "scan" /\ Active(c) /\ call[c].op = "apply"
  BY OpOfPc DEF IInv, Calls, ListForPrune, Active
<1>2. UNCHANGED <<nodes, base, packages, rows, lastId, agents>>
  BY DEF ListForPrune
<1>3. PICK S : S = call[c].gone
  OBVIOUS
<1>4. PICK docs \in Listed(DocsOn(S)) : call' = [call EXCEPT ![c].pc = "prune", ![c].todo = docs]
  BY <1>3 DEF ListForPrune
<1>5. ASSUME call'[c].pc = "prune", Same(call[c], call'[c]), ToSet(call'[c].todo) = DocsOn(S)
      PROVE  Achieved(call[c])'
  <2>1. \A i \in Records : rows[i].server \in S => DocOf(i) \in DocsOn(S)
    BY <1>1, DocsOnShape
  <2>2. Records' = Records /\ \A i : DocOf(i)' = DocOf(i)
    BY <1>1, <1>2, SameTable
  <2>3. call'[c].op = "apply" /\ call'[c].gone = S
    BY <1>1, <1>3, <1>5 DEF Same
  <2>4. Swept(call[c])'
    BY <1>2, <1>5, <2>1, <2>2, <2>3 DEF Swept
  <2> QED BY <1>5, <2>3, <2>4 DEF Achieved, PlanDone, Restoring
<1> QED BY <1>1, <1>2, <1>4, <1>5, ScanStep

\* The scan that a restore begins with finds every record to be restored.
LEMMA ListForRestoreOK ==
  ASSUME IInv, NEW c \in Handlers, ListForRestore(c) PROVE IInv'
<1>1. TypeOK /\ call[c].pc = "list" /\ Active(c) /\ call[c].op = "apply"
  BY OpOfPc DEF IInv, Calls, ListForRestore, Active
<1>2. UNCHANGED <<nodes, base, packages, rows, lastId, agents>>
  BY DEF ListForRestore
<1>3. PICK S : S = call[c].scope
  OBVIOUS
<1>4. PICK docs \in Listed(DocsOn(S)) : call' = [call EXCEPT ![c].pc = "restore", ![c].todo = docs]
  BY <1>3 DEF ListForRestore
<1>5. ASSUME Achieved(call[c]), call'[c].pc = "restore", Same(call[c], call'[c]),
             ToSet(call'[c].todo) = DocsOn(S)
      PROVE  Achieved(call[c])'
  <2>1. \A i \in Records : rows[i].server \in S => DocOf(i) \in DocsOn(S)
    BY <1>1, DocsOnShape
  <2>2. Records' = Records /\ \A i : DocOf(i)' = DocOf(i)
    BY <1>1, <1>2, SameTable
  <2>3. call'[c].op = "apply" /\ call'[c].gone = call[c].gone /\ call'[c].scope = S
    BY <1>1, <1>3, <1>5 DEF Same
  <2>4. \A d \in DocsOn(S) : rows[d.id] = d.row
    BY <1>1, RecordTracks DEF DocsOn
  <2>5. \A i \in Records : rows[i].server \notin call[c].gone
    BY <1>1, <1>5 DEF Achieved, PlanDone, Swept
  <2>6. \A i \in Records : rows[i].server \in S => i \in Pending(call[c])'
    BY <1>5, <2>1, <2>2 DEF Pending
  <2>7. Swept(call[c])'
    BY <1>2, <1>5, <2>2, <2>3, <2>4, <2>5, <2>6 DEF Swept
  <2> QED BY <1>5, <2>3, <2>7 DEF Achieved, PlanDone, Restoring
<1> QED BY <1>1, <1>2, <1>4, <1>5, ScanStep

\* One record after the other is pruned, until none is left.
LEMMA PruneProgramOK ==
  ASSUME IInv, NEW c \in Handlers, PruneProgram(c) PROVE IInv'
<1> DEFINE k == call[c]
           x == call'[c]
           h == Head(k.todo)
<1>1. /\ TypeOK /\ InStep(c) /\ k.pc = "prune" /\ Active(c) /\ k \in Call /\ k.op = "apply"
      /\ k.todo \in Seq(Doc)
  BY OpOfPc DEF IInv, Calls, PruneProgram, Active, InStep, Call
<1>2. UNCHANGED <<nodes, base, packages, lastId, agents>>
  BY DEF PruneProgram
<1>3. ASSUME Achieved(call[c])
      PROVE  \A i \in Records : rows[i].server \in k.gone => DocOf(i) \in ToSet(k.todo)
  BY <1>1, <1>3 DEF Achieved, PlanDone, Swept
<1>4. CASE k.todo = <<>>
  <2>1. Goto(c, "list") /\ "list" \in Pcs /\ UNCHANGED rows
    BY <1>4 DEF PruneProgram, Pcs
  <2>2. /\ call' \in [Handlers -> Call] /\ \A d \in Handlers \ {c} : call'[d] = call[d]
        /\ Same(k, x) /\ x.pc = "list" /\ x.doc = k.doc /\ x.read = k.read /\ x.todo = k.todo
    BY <1>1, <2>1, GotoMoves
  <2>3. x.op = k.op /\ x.gone = k.gone
    BY <2>2 DEF Same
  <2> HIDE DEF k, x, h
  <2>4. TableOK /\ Records' = Records
    BY <1>1, <1>2, <2>1, SameTable DEF TypeOK, TableOK
  <2>5. InStep(c)'
    BY <1>1, <2>2, <2>3 DEF InStep, PcsOf, x
  <2>6. ASSUME Achieved(call[c]) PROVE Achieved(call[c])'
    <3>1. \A i \in Records : rows[i].server \notin k.gone
      BY <1>3, <1>4, <2>6, EmptySet
    <3> QED BY <1>1, <2>1, <2>2, <2>3, <2>4, <3>1 DEF Achieved, PlanDone, Swept, Restoring, x
  <2>7. x.read \subseteq k.read /\ ToSet(x.todo) \subseteq ToSet(k.todo) /\ x.pc # "insert"
    BY <2>2
  <2> QED BY <1>1, <1>2, <2>2, <2>4, <2>5, <2>6, <2>7, TableStep DEF k, x
<1>5. CASE k.todo # <<>>
  <2>1. rows' = [rows EXCEPT ![h.id] = None]
    BY <1>5 DEF PruneProgram
  <2>2. h \in Doc /\ Tail(k.todo) \in Seq(Doc) /\ ToSet(k.todo) = {h} \cup ToSet(Tail(k.todo))
    BY <1>1, <1>5, HeadTail
  <2>3. h.id \in Ids
    BY <2>2 DEF IInv, Documents, Held, Tracks
  <2>4. TableOK /\ rows'[h.id] = None /\ \A j \in Ids \ {h.id} : rows'[j] = rows[j]
    BY <1>1, <1>2, <2>1, <2>3, ErasedKeeps
  <2>5. CASE rows[h.id] = None
    <3>1. Finish(c, FALSE)
      BY <1>5, <2>5 DEF PruneProgram
    <3>2. /\ call' \in [Handlers -> Call] /\ \A d \in Handlers \ {c} : call'[d] = call[d]
          /\ Same(k, x) /\ x.pc = "done" /\ ~x.ok /\ x.doc = k.doc /\ x.read = k.read /\ x.todo = k.todo
      BY <1>1, <3>1, FinishMoves
    <3>3. x.op = k.op
      BY <3>2 DEF Same
    <3> HIDE DEF k, x, h
    <3>4. InStep(c)' /\ Achieved(call[c])'
      BY <1>1, <3>2, <3>3, NothingClaimed DEF InStep, PcsOf, x
    <3>5. x.read \subseteq k.read /\ ToSet(x.todo) \subseteq ToSet(k.todo) /\ x.pc # "insert"
      BY <3>2
    <3> QED BY <1>1, <1>2, <2>4, <3>2, <3>4, <3>5, TableStep DEF k, x
  <2>6. CASE rows[h.id] # None
    <3> DEFINE y == [k EXCEPT !.todo = Tail(k.todo)]
    <3>1. call' = [call EXCEPT ![c] = y]
      BY <1>5, <2>6 DEF PruneProgram
    <3>2. y \in Call /\ Same(k, y) /\ y.pc = "prune" /\ y.doc = k.doc /\ y.read = k.read /\ y.todo = Tail(k.todo)
      BY <1>1, <2>2 DEF Call, Same
    <3> HIDE DEF y
    <3>3. call' \in [Handlers -> Call] /\ x = y /\ \A d \in Handlers \ {c} : call'[d] = call[d]
      BY <1>1, <3>1, <3>2, Written
    <3>4. x.op = k.op /\ x.gone = k.gone
      BY <3>2, <3>3 DEF Same
    <3> HIDE DEF k, x, h
    <3>5. InStep(c)'
      BY <1>1, <3>2, <3>3, <3>4 DEF InStep, PcsOf, x
    <3>6. ASSUME Achieved(call[c]) PROVE Achieved(call[c])'
      <4>1. ASSUME NEW i \in Records', rows'[i].server \in k.gone
            PROVE  DocOf(i)' \in ToSet(x.todo)
        <5>1. i \in Ids /\ i # h.id /\ i \in Records /\ rows'[i] = rows[i]
          BY <2>4, <4>1 DEF Records
        <5>2. DocOf(i) \in ToSet(k.todo)
          BY <1>3, <3>6, <4>1, <5>1
        <5>3. DocOf(i) # h /\ DocOf(i)' = DocOf(i)
          BY <5>1 DEF DocOf
        <5> QED BY <2>2, <3>2, <3>3, <5>2, <5>3
      <4>2. Swept(call[c])'
        BY <3>2, <3>3, <3>4, <4>1 DEF Swept, x
      <4> QED BY <1>1, <3>2, <3>3, <3>4, <4>2 DEF Achieved, PlanDone, Restoring, x
    <3>7. x.read \subseteq k.read /\ ToSet(x.todo) \subseteq ToSet(k.todo) /\ x.pc # "insert" /\ Same(k, x) /\ x.doc = k.doc
      BY <2>2, <3>2, <3>3
    <3> QED BY <1>1, <1>2, <2>4, <3>3, <3>5, <3>6, <3>7, TableStep DEF k, x
  <2> QED BY <2>5, <2>6
<1> QED BY <1>4, <1>5

\* RestorePrograms goes on to the next program, or ends the apply.
LEMMA RestoreNextOK ==
  ASSUME IInv, NEW c \in Handlers, RestoreNext(c) PROVE IInv'
<1> DEFINE k == call[c]
           x == call'[c]
           h == Head(k.todo)
<1>1. /\ TypeOK /\ InStep(c) /\ k.pc = "restore" /\ Active(c) /\ k \in Call /\ k.op = "apply"
      /\ k.todo \in Seq(Doc)
  BY OpOfPc DEF IInv, Calls, RestoreNext, Active, InStep, Call
<1>2. UNCHANGED <<nodes, packages, rows, lastId, agents>>
  BY DEF RestoreNext
<1>3. Records' = Records /\ (\A i : DocOf(i)' = DocOf(i)) /\ Kept
  BY <1>1, <1>2, SameTable
<1>4. \A i \in Records : Restored(i)' = Restored(i)
  BY <1>2 DEF Restored, Agrees, OnAgent, Alive, ToBoot
<1>5. ASSUME Achieved(call[c])
      PROVE  /\ \A i \in Records : rows[i].server \notin k.gone
             /\ \A d \in ToSet(k.todo) : rows[d.id] = d.row
             /\ \A i \in Records : rows[i].server \in k.scope /\ DocOf(i) \notin ToSet(k.todo) => Restored(i)
  BY <1>1, <1>5 DEF Achieved, PlanDone, Swept, Pending
<1>6. CASE k.todo = <<>>
  <2>1. Finish(c, TRUE) /\ base' = nodes
    BY <1>6 DEF RestoreNext
  <2>2. /\ call' \in [Handlers -> Call] /\ \A d \in Handlers \ {c} : call'[d] = call[d]
        /\ Same(k, x) /\ x.pc = "done" /\ x.doc = k.doc /\ x.read = k.read /\ x.todo = k.todo
    BY <1>1, <2>1, FinishMoves
  <2>3. x.op = k.op /\ x.gone = k.gone /\ x.scope = k.scope /\ x.alone = k.alone
    BY <2>2 DEF Same
  <2> HIDE DEF k, x, h
  <2>4. TypeOK'
    BY <1>1, <1>2, <2>1, <2>2 DEF TypeOK
  <2>5. InStep(c)' /\ x.pc # "insert"
    BY <1>1, <2>2, <2>3 DEF InStep, PcsOf, x
  <2>6. Held(c)'
    BY <1>3, <2>2, <2>4, HeldStays DEF k, x
  <2>7. ASSUME Achieved(call[c]) PROVE Achieved(call[c])'
    <3>1. \A i \in Records : rows[i].server \notin k.gone /\ (rows[i].server \in k.scope => Restored(i))
      BY <1>5, <1>6, <2>7, EmptySet
    <3>2. Swept(call[c])'
      BY <1>2, <1>3, <1>4, <2>2, <2>3, <3>1 DEF Swept, x
    <3> QED BY <1>1, <2>2, <2>3, <3>2 DEF Achieved, PlanDone, Restoring, x
  <2> QED BY <1>1, <1>2, <2>2, <2>3, <2>4, <2>5, <2>6, <2>7, QuietStep DEF k, x
<1>7. CASE k.todo # <<>>
  <2> DEFINE y == [k EXCEPT !.pc = "install", !.doc = h, !.todo = Tail(k.todo)]
  <2>1. call' = [call EXCEPT ![c] = y] /\ UNCHANGED base
    BY <1>7 DEF RestoreNext
  <2>2. h \in Doc /\ Tail(k.todo) \in Seq(Doc) /\ ToSet(k.todo) = {h} \cup ToSet(Tail(k.todo))
    BY <1>1, <1>7, HeadTail
  <2>3. Tracks(h) /\ h.id # 0
    <3>1. Tracks(h)
      BY <2>2 DEF IInv, Documents, Held
    <3> QED BY <3>1 DEF Tracks, Ids
  <2> HIDE DEF h
  <2>4. y \in Call /\ Same(k, y) /\ y.pc = "install" /\ y.doc = h /\ y.read = k.read /\ y.todo = Tail(k.todo)
    BY <1>1, <2>2 DEF Call, Same, Pcs
  <2> HIDE DEF y
  <2>5. call' \in [Handlers -> Call] /\ x = y /\ \A d \in Handlers \ {c} : call'[d] = call[d]
    BY <1>1, <2>1, <2>4, Written
  <2>6. x.op = k.op /\ x.gone = k.gone /\ x.scope = k.scope /\ x.alone = k.alone
    BY <2>4, <2>5 DEF Same
  <2> HIDE DEF k, x
  <2>7. TypeOK'
    BY <1>1, <1>2, <2>1, <2>5 DEF TypeOK
  <2>8. InStep(c)' /\ x.pc # "insert"
    BY <1>1, <2>2, <2>3, <2>4, <2>5, <2>6 DEF InStep, PcsOf, x
  <2>9. Held(c)'
    <3>1. \A z : Tracks(z) => Tracks(z)'
      BY <1>1, <1>3, <2>7, KeptTracks
    <3>2. Held(c)
      BY DEF IInv, Documents
    <3>3. Tracks(call[c].doc)'
      BY <2>3, <2>4, <2>5, <3>1 DEF x, Tracks
    <3> QED BY <2>2, <2>4, <2>5, <3>1, <3>2, <3>3 DEF Held, k, x
  <2>10. ASSUME Achieved(call[c]) PROVE Achieved(call[c])'
    <3>1. rows'[x.doc.id] = x.doc.row
      BY <1>2, <1>5, <2>2, <2>4, <2>5, <2>10
    <3>2. ASSUME NEW i \in Records, rows[i].server \in k.scope, i \notin Pending(call[c])'
          PROVE  Restored(i)'
      <4>1. DocOf(i) \notin ToSet(x.todo) /\ i # x.doc.id
        BY <1>3, <2>4, <2>5, <3>2 DEF Pending, x
      <4>2. DocOf(i) # h
        BY <2>4, <2>5, <4>1 DEF DocOf
      <4>3. DocOf(i) \notin ToSet(k.todo)
        BY <2>2, <2>4, <2>5, <4>1, <4>2
      <4> QED BY <1>4, <1>5, <2>10, <3>2, <4>3
    <3>3. \A d \in ToSet(x.todo) : rows[d.id] = d.row
      BY <1>5, <2>2, <2>4, <2>5, <2>10
    <3>4. \A i \in Records : rows[i].server \notin k.gone
      BY <1>5, <2>10
    <3>5. Swept(call[c])'
      BY <1>2, <1>3, <2>4, <2>5, <2>6, <3>2, <3>3, <3>4 DEF Swept, x
    <3>6. Restoring(call[c])'
      BY <2>4, <2>5, <3>1 DEF Restoring, x
    <3> QED BY <1>1, <2>6, <3>5, <3>6 DEF Achieved, PlanDone, x
  <2> QED BY <1>1, <1>2, <2>5, <2>6, <2>7, <2>8, <2>9, <2>10, QuietStep DEF k, x
<1> QED BY <1>6, <1>7

----------------------------------------------------------------------------
(* Requests *)

\* A request begins, and overlaps what is in flight.
LEMMA BeginMoves ==
  ASSUME TypeOK, NEW c \in Handlers, NEW r \in Call, Begin(c, r)
  PROVE  /\ call' \in [Handlers -> Call]
         /\ LET x == call'[c]
            IN /\ x.pc = r.pc /\ x.op = r.op /\ x.doc = r.doc /\ x.read = r.read /\ x.todo = r.todo
               /\ x.ok = r.ok /\ x.deployed = r.deployed
               /\ x.alone => \A d \in Handlers \ {c} : ~Active(d)
         /\ \A d \in Handlers \ {c} :
              LET k == call[d]
                  x == call'[d]
              IN /\ x.pc = k.pc /\ x.op = k.op /\ x.doc = k.doc /\ x.read = k.read /\ x.todo = k.todo
                 /\ x.pc # "idle" => ~x.alone
<1> DEFINE free == \A e \in Handlers \ {c} : call[e].pc = "idle"
           over(d) == IF call[d].pc = "idle" THEN call[d] ELSE [call[d] EXCEPT !.alone = FALSE]
           x == [r EXCEPT !.alone = free]
<1>1. call' = [d \in Handlers |-> IF d = c THEN x ELSE over(d)]
  BY DEF Begin
<1>2. free \in BOOLEAN /\ (free => \A d \in Handlers \ {c} : ~Active(d))
  BY DEF Active
<1> HIDE DEF free
<1>3. /\ x \in Call /\ x.pc = r.pc /\ x.op = r.op /\ x.doc = r.doc /\ x.read = r.read /\ x.todo = r.todo
      /\ x.ok = r.ok /\ x.deployed = r.deployed /\ x.alone = free
  BY <1>2 DEF Call
<1> HIDE DEF x
<1>4. ASSUME NEW d \in Handlers
      PROVE  /\ over(d) \in Call /\ over(d).pc = call[d].pc /\ over(d).op = call[d].op
             /\ over(d).doc = call[d].doc /\ over(d).read = call[d].read /\ over(d).todo = call[d].todo
             /\ over(d).pc # "idle" => ~over(d).alone
  <2>1. call[d] \in Call
    BY DEF TypeOK
  <2> QED BY <2>1 DEF Call
<1> HIDE DEF over
<1>5. call' \in [Handlers -> Call] /\ call'[c] = x /\ \A d \in Handlers \ {c} : call'[d] = over(d)
  BY <1>1, <1>3, <1>4
<1> QED BY <1>2, <1>3, <1>4, <1>5

\* What a request starts from.
Opening(r) ==
  /\ r.pc \in PcsOf(r.op) \ {"idle", "start"} /\ ~r.ok /\ r.todo = <<>>
  /\ IsFiniteSet(r.read) /\ \A d \in r.read : Tracks(d)
  /\ r.op \in {"create", "start", "stop", "upgrade", "delete"} => r.doc \in Doc
  /\ r.op \in {"start", "stop", "upgrade", "delete"} => Tracks(r.doc)
  /\ r.op = "create" => r.doc.id = 0 /\ r.pc \in {"insert", "done"}
  /\ r.op \in {"list", "apply", "repair"} => r.doc = None
  /\ r.op = "apply" => r.pc = "deploy"
  /\ r.pc = "delete" => ~r.deployed
  /\ r.pc = "store" => r.op = "upgrade" /\ base = None

\* A request that is accepted, or refused at once.
LEMMA RequestKeeps ==
  ASSUME IInv, NEW c \in Handlers, call[c].pc = "idle", NEW r \in Call, Opening(r), Begin(c, r),
         nodes' \in SUBSET Servers, UNCHANGED <<base, packages, rows, lastId, agents>>,
         r.pc = "insert" => lastId + Cardinality(Inserting) < MaxId
  PROVE  IInv'
<1> DEFINE x == call'[c]
<1>1. /\ call' \in [Handlers -> Call]
      /\ x.pc = r.pc /\ x.op = r.op /\ x.doc = r.doc /\ x.read = r.read /\ x.todo = r.todo
      /\ x.ok = r.ok /\ x.deployed = r.deployed
      /\ x.alone => \A d \in Handlers \ {c} : ~Active(d)
  BY BeginMoves DEF IInv
<1>2. ASSUME NEW d \in Handlers \ {c}
      PROVE  /\ call'[d].pc = call[d].pc /\ call'[d].op = call[d].op /\ call'[d].doc = call[d].doc
             /\ call'[d].read = call[d].read /\ call'[d].todo = call[d].todo
             /\ call'[d].pc # "idle" => ~call'[d].alone
  BY BeginMoves DEF IInv
<1> HIDE DEF x
<1>3. TypeOK'
  BY <1>1 DEF IInv, TypeOK
<1>4. Kept /\ OneRecordPerServer' /\ \A z : Tracks(z) => Tracks(z)'
  BY <1>3, SameTable, KeptUnique, KeptTracks DEF IInv
<1>5. ASSUME NEW d \in Handlers PROVE InStep(d)' /\ Held(d)'
  <2>1. CASE d = c
    <3>1. x.op \in {"create", "start", "stop", "upgrade", "delete", "list", "apply", "repair"}
      BY <1>1 DEF Call, x
    <3>2. x.op \in {"start", "stop", "upgrade", "delete"} => x.doc.id # 0
      BY <1>1 DEF Opening, Tracks, Ids
    <3>3. x.pc \in {"install", "start", "store"} => x.op \in {"start", "stop", "upgrade"}
      BY <1>1, <3>1 DEF Opening, PcsOf
    <3>4. InStep(c)'
      BY <1>1, <3>2, <3>3 DEF Opening, InStep, x
    <3>5. x.doc \in Doc /\ x.doc.id # 0 => Tracks(x.doc)
      BY <1>1, <3>1, NoneAssumption DEF Opening
    <3>6. x.doc \in Doc /\ x.doc.id # 0 => Tracks(call[c].doc)'
      BY <1>4, <3>5 DEF x, Tracks
    <3>7. Held(c)'
      BY <1>1, <1>4, <3>6, EmptySet DEF Opening, Held, x
    <3> QED BY <2>1, <3>4, <3>7
  <2>2. CASE d # c
    <3>1. InStep(d) /\ Held(d)
      BY DEF IInv, Calls, Documents
    <3>2. InStep(d)'
      BY <1>2, <2>2, <3>1 DEF InStep
    <3>3. Held(d)'
      BY <1>2, <1>4, <2>2, <3>1 DEF Held
    <3> QED BY <3>2, <3>3
  <2> QED BY <2>1, <2>2
<1>6. Room'
  <2>1. IsFiniteSet(Inserting)
    BY FS_Subset, ProgramsAssumptions DEF ProgramsAssumptions, Inserting
  <2>2. lastId \in Nat /\ MaxId \in Nat /\ Cardinality(Inserting) \in Nat /\ lastId + Cardinality(Inserting) <= MaxId
    BY <2>1, FS_CardinalityType, ProgramsAssumptions DEF ProgramsAssumptions, IInv, TypeOK, Room
  <2>3. CASE r.pc = "insert"
    <3>1. c \notin Inserting /\ Inserting' = Inserting \cup {c}
      BY <1>1, <1>2, <2>3 DEF Inserting, x
    <3>2. Cardinality(Inserting') = Cardinality(Inserting) + 1
      BY <2>1, <3>1, FS_AddElement
    <3> QED BY <2>2, <2>3, <3>2 DEF Room
  <2>4. CASE r.pc # "insert"
    <3>1. Inserting' \subseteq Inserting
      BY <1>1, <1>2, <2>4 DEF Inserting, x
    <3>2. Cardinality(Inserting') <= Cardinality(Inserting) /\ Cardinality(Inserting') \in Nat
      BY <2>1, <3>1, FS_Subset, FS_CardinalityType
    <3> QED BY <2>2, <3>2 DEF Room
  <2> QED BY <2>3, <2>4
<1>7. ASSUME NEW d \in Handlers PROVE AloneOK(d)'
  <2>1. CASE d = c
    <3>1. x.alone => \A e \in Handlers \ {c} : ~Active(e)'
      BY <1>1, <1>2 DEF Active
    <3>2. x.op = "apply" => PlanDone(call[c])'
      BY <1>1 DEF Opening, PlanDone, Swept, Restoring, x
    <3>3. x.op # "apply" => OneDone(call[c])'
      <4>1. x.pc = "store" => Reached(call[c])'
        BY <1>1 DEF Opening, Reached, x
      <4>2. x.pc = "delete" => Reached(call[c])'
        <5>1. x.pc = "delete" => x.op = "delete"
          BY <1>1 DEF Opening, PcsOf, Call
        <5> QED BY <1>1, <5>1 DEF Opening, Reached, x
      <4> QED BY <1>1, <4>1, <4>2 DEF Opening, OneDone, x
    <3> QED BY <2>1, <3>1, <3>2, <3>3 DEF AloneOK, Achieved, x
  <2>2. CASE d # c
    BY <1>2, <2>2 DEF AloneOK, Active
  <2> QED BY <2>1, <2>2
<1> QED BY <1>3, <1>4, <1>5, <1>6, <1>7 DEF IInv, Calls, Documents, Serial

\* A handler with a request about one program.
Req(o, on, dep, d, p) == [Idle EXCEPT !.op = o, !.on = on, !.deployed = dep, !.doc = d, !.pc = p]

\* Such a request is one to start from.
LEMMA OneRequest ==
  ASSUME IInv, NEW o \in {"create", "start", "stop", "upgrade", "delete"}, NEW d \in Doc,
         NEW p \in PcsOf(o) \ {"idle", "start"}, NEW on \in BOOLEAN, NEW dep \in BOOLEAN,
         IF o = "create" THEN d.id = 0 /\ p \in {"insert", "done"} ELSE Tracks(d),
         p = "delete" => ~dep,
         p = "store" => o = "upgrade" /\ base = None
  PROVE  LET r == Req(o, on, dep, d, p)
         IN r \in Call /\ Opening(r) /\ r.pc = p
<1> DEFINE r == Req(o, on, dep, d, p)
<1>1. p \in Pcs
  BY DEF PcsOf, Pcs
<1>2. /\ r \in Call /\ r.op = o /\ r.deployed = dep /\ r.doc = d /\ r.pc = p /\ r.read = {}
      /\ r.todo = <<>> /\ ~r.ok
  BY <1>1, IdleShape DEF Call, Req
<1> HIDE DEF r
<1>3. IsFiniteSet(r.read)
  BY <1>2, FS_EmptySet
<1>4. Opening(r)
  BY <1>2, <1>3 DEF Opening
<1> QED BY <1>2, <1>4 DEF r

\* CreateProgram checks what it can and keeps a document without id.
LEMMA CreateProgramOK ==
  ASSUME IInv, NEW c \in Handlers, NEW n \in Names, NEW s \in Servers, NEW v \in Versions,
         NEW on \in BOOLEAN, CreateProgram(c, n, s, v, on)
  PROVE  IInv'
<1> DEFINE row == [name |-> n, server |-> s, version |-> v,
                   desired |-> IF on /\ n \notin Oneshot THEN "Running" ELSE "Stopped"]
           refused == v \notin packages \/ s \notin nodes \/ Taken(n, s)
           d == [id |-> 0, row |-> row]
           p == IF refused THEN "done" ELSE "insert"
           dep == base # None
           r == Req("create", on, dep, d, p)
<1>1. Begin(c, r) /\ call[c].pc = "idle" /\ UNCHANGED <<nodes, base, packages, rows, lastId, agents>>
      /\ lastId + Cardinality(Inserting) < MaxId
  BY DEF CreateProgram, Inserting, Req
<1>2. row \in Row
  BY DEF Row
<1>3. d \in Doc /\ d.id = 0
  BY <1>2 DEF Doc
<1>4. p \in PcsOf("create") \ {"idle", "start"} /\ p \in {"insert", "done"} /\ dep \in BOOLEAN
  BY DEF PcsOf
<1> HIDE DEF d, p, dep
<1>5. r \in Call /\ Opening(r)
  BY <1>3, <1>4, OneRequest
<1>6. nodes' \in SUBSET Servers
  BY <1>1 DEF IInv, TypeOK
<1> HIDE DEF r
<1> QED BY <1>1, <1>5, <1>6, RequestKeeps

\* StartProgram reads the record.
LEMMA StartProgramOK ==
  ASSUME IInv, NEW c \in Handlers, NEW i \in Ids, StartProgram(c, i) PROVE IInv'
<1> DEFINE p == IF Addressable(i) THEN "install" ELSE "done"
           d == DocOf(i)
           r == [Idle EXCEPT !.op = "start", !.doc = d, !.pc = p]
           f == Req("start", Idle.on, Idle.deployed, d, p)
<1>1. Begin(c, r) /\ call[c].pc = "idle" /\ i \in Records
      /\ UNCHANGED <<nodes, base, packages, rows, lastId, agents>>
  BY DEF StartProgram
<1>2. d \in Doc /\ Tracks(d)
  BY <1>1, RecordTracks DEF IInv
<1>3. p \in PcsOf("start") \ {"idle", "start"} /\ p \in {"install", "done"}
  BY DEF PcsOf
<1>4. Idle.on \in BOOLEAN /\ Idle.deployed \in BOOLEAN
  BY IdleShape DEF Call
<1> HIDE DEF d, p
<1>5. f \in Call /\ Opening(f) /\ f.pc = p
  BY <1>2, <1>3, <1>4, OneRequest
<1>6. f = r
  BY IdleShape DEF Call, Req
<1>7. nodes' \in SUBSET Servers /\ r.pc # "insert"
  BY <1>1, <1>3, <1>5, <1>6 DEF IInv, TypeOK
<1> HIDE DEF r, f
<1> QED BY <1>1, <1>5, <1>6, <1>7, RequestKeeps

\* StopProgram reads the record.
LEMMA StopProgramOK ==
  ASSUME IInv, NEW c \in Handlers, NEW i \in Ids, StopProgram(c, i) PROVE IInv'
<1> DEFINE p == IF Addressable(i) THEN "stop" ELSE "done"
           d == DocOf(i)
           r == [Idle EXCEPT !.op = "stop", !.doc = d, !.pc = p]
           f == Req("stop", Idle.on, Idle.deployed, d, p)
<1>1. Begin(c, r) /\ call[c].pc = "idle" /\ i \in Records
      /\ UNCHANGED <<nodes, base, packages, rows, lastId, agents>>
  BY DEF StopProgram
<1>2. d \in Doc /\ Tracks(d)
  BY <1>1, RecordTracks DEF IInv
<1>3. p \in PcsOf("stop") \ {"idle", "start"} /\ p \in {"stop", "done"}
  BY DEF PcsOf
<1>4. Idle.on \in BOOLEAN /\ Idle.deployed \in BOOLEAN
  BY IdleShape DEF Call
<1> HIDE DEF d, p
<1>5. f \in Call /\ Opening(f) /\ f.pc = p
  BY <1>2, <1>3, <1>4, OneRequest
<1>6. f = r
  BY IdleShape DEF Call, Req
<1>7. nodes' \in SUBSET Servers /\ r.pc # "insert"
  BY <1>1, <1>3, <1>5, <1>6 DEF IInv, TypeOK
<1> HIDE DEF r, f
<1> QED BY <1>1, <1>5, <1>6, <1>7, RequestKeeps

\* UpgradeProgram reads the record and names the new version in its copy.
LEMMA UpgradeProgramOK ==
  ASSUME IInv, NEW c \in Handlers, NEW i \in Ids, NEW v \in Versions, UpgradeProgram(c, i, v) PROVE IInv'
<1> DEFINE p == IF v \notin packages THEN "done"
                ELSE IF base = None THEN "store"
                ELSE IF Alive(rows[i].server) THEN "stop" ELSE "done"
           d == [DocOf(i) EXCEPT !.row.version = v]
           r == [Idle EXCEPT !.op = "upgrade", !.doc = d, !.pc = p]
           f == Req("upgrade", Idle.on, Idle.deployed, d, p)
<1>1. Begin(c, r) /\ call[c].pc = "idle" /\ i \in Records
      /\ UNCHANGED <<nodes, base, packages, rows, lastId, agents>>
  BY DEF UpgradeProgram
<1>2. d \in Doc /\ Tracks(d)
  <2> DEFINE e == DocOf(i)
             w == [e.row EXCEPT !.version = v]
  <2>1. e \in Doc /\ Tracks(e) /\ e.row \in Row
    BY <1>1, RecordTracks DEF IInv
  <2>2. d = [e EXCEPT !.row = w]
    OBVIOUS
  <2> HIDE DEF e, d
  <2>3. w \in Row /\ w.name = e.row.name /\ w.server = e.row.server
    BY <2>1 DEF Row
  <2> HIDE DEF w
  <2>4. d \in Doc /\ d.id = e.id /\ d.row = w
    BY <2>1, <2>2, <2>3 DEF Doc
  <2> QED BY <2>1, <2>3, <2>4 DEF Tracks
<1>3. p \in PcsOf("upgrade") \ {"idle", "start"} /\ p \in {"stop", "store", "done"} /\ (p = "store" => base = None)
  BY DEF PcsOf
<1>4. Idle.on \in BOOLEAN /\ Idle.deployed \in BOOLEAN
  BY IdleShape DEF Call
<1> HIDE DEF d, p
<1>5. f \in Call /\ Opening(f) /\ f.pc = p
  BY <1>2, <1>3, <1>4, OneRequest
<1>6. f = r
  BY IdleShape DEF Call, Req
<1>7. nodes' \in SUBSET Servers /\ r.pc # "insert"
  BY <1>1, <1>3, <1>5, <1>6 DEF IInv, TypeOK
<1> HIDE DEF r, f
<1> QED BY <1>1, <1>5, <1>6, <1>7, RequestKeeps

\* DeleteProgram reads the record and whether its agent can be reached.
LEMMA DeleteProgramOK ==
  ASSUME IInv, NEW c \in Handlers, NEW i \in Ids, DeleteProgram(c, i) PROVE IInv'
<1> DEFINE p == IF Addressable(i) THEN "remove" ELSE "delete"
           d == DocOf(i)
           dep == Addressable(i)
           r == [Idle EXCEPT !.op = "delete", !.doc = d, !.deployed = dep, !.pc = p]
           f == Req("delete", Idle.on, dep, d, p)
<1>1. Begin(c, r) /\ call[c].pc = "idle" /\ i \in Records
      /\ UNCHANGED <<nodes, base, packages, rows, lastId, agents>>
  BY DEF DeleteProgram
<1>2. d \in Doc /\ Tracks(d)
  BY <1>1, RecordTracks DEF IInv
<1>3. p \in PcsOf("delete") \ {"idle", "start"} /\ p \in {"remove", "delete"} /\ dep \in BOOLEAN /\ (p = "delete" => ~dep)
  BY DEF PcsOf, Addressable
<1>4. Idle.on \in BOOLEAN
  BY IdleShape DEF Call
<1> HIDE DEF d, p, dep
<1>5. f \in Call /\ Opening(f) /\ f.pc = p
  BY <1>2, <1>3, <1>4, OneRequest
<1>6. f = r
  BY IdleShape DEF Call, Req
<1>7. nodes' \in SUBSET Servers /\ r.pc # "insert"
  BY <1>1, <1>3, <1>5, <1>6 DEF IInv, TypeOK
<1> HIDE DEF r, f
<1> QED BY <1>1, <1>5, <1>6, <1>7, RequestKeeps

\* ListPrograms reads every record.
LEMMA ListProgramsOK ==
  ASSUME IInv, NEW c \in Handlers, ListPrograms(c) PROVE IInv'
<1> DEFINE D == DocsOn(Servers)
           r == [Idle EXCEPT !.op = "list", !.pc = "query", !.read = D]
<1>1. Begin(c, r) /\ call[c].pc = "idle" /\ UNCHANGED <<nodes, base, packages, rows, lastId, agents>>
  BY DEF ListPrograms
<1>2. D \in SUBSET Doc /\ IsFiniteSet(D) /\ \A d \in D : Tracks(d)
  BY DocsOnShape DEF IInv
<1> HIDE DEF D
<1>3. /\ r \in Call /\ r.op = "list" /\ r.pc = "query" /\ r.read = D /\ r.todo = <<>> /\ ~r.ok /\ r.doc = None
  BY <1>2, IdleShape DEF Call, Pcs
<1> HIDE DEF r
<1>4. Opening(r)
  BY <1>2, <1>3 DEF Opening, PcsOf
<1>5. nodes' \in SUBSET Servers /\ r.pc # "insert"
  BY <1>1, <1>3 DEF IInv, TypeOK
<1> QED BY <1>1, <1>3, <1>4, <1>5, RequestKeeps

\* ApplyPlan replaces the nodes, and knows what to prune and to restore.
LEMMA ApplyPlanOK ==
  ASSUME IInv, NEW c \in Handlers, NEW want \in SUBSET Servers, ApplyPlan(c, want) PROVE IInv'
<1> DEFINE G == IF base = None THEN {} ELSE base \ want
           S == ScopeOf(want)
           r == [Idle EXCEPT !.op = "apply", !.pc = "deploy", !.gone = G, !.scope = S]
<1>1. Begin(c, r) /\ call[c].pc = "idle" /\ nodes' = want /\ UNCHANGED <<base, packages, rows, lastId, agents>>
  BY DEF ApplyPlan
<1>2. G \in SUBSET Servers /\ S \in SUBSET Servers
  BY DEF ScopeOf, IInv, TypeOK
<1> HIDE DEF G, S
<1>3. /\ r \in Call /\ r.op = "apply" /\ r.pc = "deploy" /\ r.read = {} /\ r.todo = <<>> /\ ~r.ok /\ r.doc = None
  BY <1>2, IdleShape DEF Call, Pcs
<1> HIDE DEF r
<1>4. Opening(r)
  BY <1>3, FS_EmptySet DEF Opening, PcsOf
<1> QED BY <1>1, <1>3, <1>4, RequestKeeps

\* RepairLab recreates every container.
LEMMA RepairLabOK ==
  ASSUME IInv, NEW c \in Handlers, RepairLab(c) PROVE IInv'
<1> DEFINE r == [Idle EXCEPT !.op = "repair", !.pc = "deploy", !.scope = base]
<1>1. /\ Begin(c, r) /\ call[c].pc = "idle" /\ base # None
      /\ UNCHANGED <<nodes, base, packages, rows, lastId, agents>>
  BY DEF RepairLab
<1>2. base \in SUBSET Servers
  BY <1>1 DEF IInv, TypeOK
<1>3. /\ r \in Call /\ r.op = "repair" /\ r.pc = "deploy" /\ r.read = {} /\ r.todo = <<>> /\ ~r.ok /\ r.doc = None
  BY <1>2, IdleShape DEF Call, Pcs
<1> HIDE DEF r
<1>4. Opening(r)
  BY <1>3, FS_EmptySet DEF Opening, PcsOf
<1>5. nodes' \in SUBSET Servers /\ r.pc # "insert"
  BY <1>1, <1>3 DEF IInv, TypeOK
<1> QED BY <1>1, <1>3, <1>4, <1>5, RequestKeeps

----------------------------------------------------------------------------
(* The world around the handlers *)

\* A handler without an operation holds nothing.
LEMMA IdleHolds ==
  ASSUME NEW c \in Handlers, call[c] = Idle
  PROVE  InStep(c) /\ Held(c) /\ ~Active(c)
<1>1. call[c].pc = "idle" /\ call[c].op = "list" /\ call[c].doc = None /\ call[c].read = {} /\ call[c].todo = <<>>
  BY IdleShape
<1>2. InStep(c) /\ ~Active(c)
  BY <1>1 DEF InStep, PcsOf, Active
<1>3. Held(c)
  BY <1>1, EmptySet, FS_EmptySet, NoneAssumption DEF Held
<1> QED BY <1>2, <1>3

\* An operation ends.
LEMMA ReplyOK ==
  ASSUME IInv, NEW c \in Handlers, Reply(c) PROVE IInv'
<1>1. call[c].pc = "done" /\ call' = [call EXCEPT ![c] = Idle]
      /\ UNCHANGED <<nodes, base, packages, rows, lastId, agents>>
  BY DEF Reply
<1>2. call' \in [Handlers -> Call] /\ call'[c] = Idle /\ \A d \in Handlers \ {c} : call'[d] = call[d]
  BY <1>1, IdleShape, Written DEF IInv
<1>3. TypeOK'
  BY <1>1, <1>2 DEF IInv, TypeOK
<1>4. InStep(c)' /\ Held(c)' /\ ~Active(c)'
  <2>1. Idle.pc = "idle" /\ Idle.op = "list" /\ Idle.doc = None /\ Idle.read = {} /\ Idle.todo = <<>>
    BY IdleShape
  <2>2. InStep(c)' /\ ~Active(c)'
    BY <1>2, <2>1 DEF InStep, PcsOf, Active
  <2>3. Held(c)'
    BY <1>2, <2>1, EmptySet, FS_EmptySet, NoneAssumption DEF Held
  <2> QED BY <2>2, <2>3
<1>5. call'[c].pc # "insert" /\ Active(c)
  BY <1>1, <1>4 DEF Active
<1> QED BY <1>1, <1>2, <1>3, <1>4, <1>5, QuietStep

\* Where the table and the handlers are as before and what the agents are wanted
\* to run is too.
LEMMA WorldStep ==
  ASSUME IInv, TypeOK', UNCHANGED <<nodes, base, rows, lastId, call>>,
         \A q \in Row : /\ (OnAgent(q) = None) <=> (OnAgent(q)' = None)
                        /\ OnAgent(q) # None => OnAgent(q)'.version = OnAgent(q).version
                        /\ OnAgent(q) # None /\ q.name \notin Oneshot => OnAgent(q)'.wanted = OnAgent(q).wanted
                        /\ OnAgent(q) # None /\ ~OnAgent(q).wanted => ~OnAgent(q)'.wanted
  PROVE  IInv'
<1>1. Kept /\ Records' = Records /\ \A i : DocOf(i)' = DocOf(i)
  BY SameTable DEF IInv
<1>2. OneRecordPerServer' /\ \A z : Tracks(z) => Tracks(z)'
  BY <1>1, KeptUnique, KeptTracks DEF IInv
<1>3. Room' = Room
  BY DEF Room, Inserting
<1>4. ASSUME NEW c \in Handlers PROVE InStep(c)' /\ Held(c)'
  <2>1. InStep(c) /\ Held(c)
    BY DEF IInv, Calls, Documents
  <2> QED BY <1>2, <2>1 DEF InStep, Held
<1>5. ASSUME NEW q \in Row
      PROVE  /\ Installed(q) => Installed(q)'
             /\ \A w : Agrees(q, w) => Agrees(q, w)'
  BY DEF Installed, Agrees
<1>6. ASSUME NEW c \in Handlers, Active(c), Achieved(call[c]) PROVE Achieved(call[c])'
  <2> DEFINE k == call[c]
  <2>1. k \in Call /\ TypeOK /\ InStep(c)
    BY DEF IInv, TypeOK, Calls
  <2>2. CASE k.op = "apply"
    <3>1. Swept(k) /\ Restoring(k)
      BY <1>6, <2>2 DEF Achieved, PlanDone
    <3>2. ASSUME NEW i \in Records, Restored(i) PROVE Restored(i)'
      <4>1. PICK q \in Row : q = rows[i]
        BY <2>1, RecordTracks
      <4>2. Agrees(q, ToBoot(q))'
        BY <1>5, <3>2, <4>1 DEF Restored, ToBoot
      <4> QED BY <4>1, <4>2 DEF Restored, Agrees, OnAgent, Alive, ToBoot
    <3>3. Pending(call[c])' = Pending(k)
      BY <1>1 DEF Pending
    <3>4. Swept(call[c])'
      BY <1>1, <3>1, <3>2, <3>3 DEF Swept
    <3>5. Restoring(call[c])'
      <4>1. CASE k.pc \notin {"install", "start", "store"}
        BY <4>1 DEF Restoring
      <4>2. CASE k.pc \in {"install", "start", "store"}
        <5>1. PICK q \in Row : q = k.doc.row
          BY <2>1, <4>2, DocShape DEF InStep
        <5>2. /\ k.pc = "start" => Installed(q)' /\ ToBoot(q)
              /\ k.pc = "store" => Agrees(q, ToBoot(q))'
          BY <1>5, <3>1, <5>1 DEF Restoring, ToBoot
        <5> QED BY <3>1, <5>1, <5>2 DEF Restoring, Installed, Agrees, OnAgent, Alive, ToBoot
      <4> QED BY <4>1, <4>2
    <3> QED BY <2>2, <3>4, <3>5 DEF Achieved, PlanDone
  <2>3. CASE k.op \in {"start", "stop", "upgrade", "delete"}
    <3>1. PICK q \in Row : q = k.doc.row
      BY <2>1, <2>3, DocShape DEF InStep
    <3>2. OneDone(k)
      BY <1>6, <2>3 DEF Achieved
    <3>3. Reached(k) => Reached(call[c])'
      <4>1. Agrees(q, ToRun(q)) => Agrees(q, ToRun(q))'
        BY <1>5 DEF ToRun
      <4> QED BY <3>1, <4>1 DEF Reached, Agrees, OnAgent, Alive, ToRun
    <3>4. Installed(k.doc.row) => Installed(k.doc.row)'
      BY <1>5, <3>1 DEF Installed, OnAgent, Alive
    <3> QED BY <2>3, <3>2, <3>3, <3>4 DEF Achieved, OneDone, ToRun
  <2>4. CASE k.op \in {"create", "list", "repair"}
    BY <2>4, NothingClaimed
  <2> QED BY <2>1, <2>2, <2>3, <2>4 DEF Call
<1>7. ASSUME NEW c \in Handlers PROVE AloneOK(c)'
  BY <1>6 DEF AloneOK, Active, IInv, Serial
<1> QED BY <1>2, <1>3, <1>4, <1>7 DEF IInv, Calls, Documents, Serial

\* A process exits.
LEMMA ProcessExitsOK ==
  ASSUME IInv, NEW s \in Servers, NEW n \in Names, ProcessExits(s, n) PROVE IInv'
<1> DEFINE o == agents[s][n]
           d == [o EXCEPT !.running = FALSE, !.wanted = o.wanted /\ n \notin Oneshot]
<1>1. TypeOK /\ Alive(s) /\ o # None /\ UNCHANGED <<nodes, base, packages, rows, lastId, call>>
  BY DEF IInv, ProcessExits
<1>2. agents[s] \in Agent /\ o \in Definition
  BY <1>1 DEF TypeOK, Alive, Agent
<1>3. d \in Definition /\ d.version = o.version /\ d.wanted = (o.wanted /\ n \notin Oneshot)
  BY <1>2 DEF Definition
<1>4. d # None
  BY <1>3, NoneAssumption
<1>5. agents' = [agents EXCEPT ![s] = [agents[s] EXCEPT ![n] = d]]
  BY DEF ProcessExits
<1> HIDE DEF d, o
<1> DEFINE a == [agents[s] EXCEPT ![n] = d]
<1>6. a \in Agent /\ a[n] = d /\ \A m \in Names \ {n} : a[m] = agents[s][m]
  BY <1>2, <1>3 DEF Agent
<1>7. a # None /\ agents[s] # None
  BY <1>2, <1>6, NoneAssumption
<1> HIDE DEF a
<1>8. agents' \in [Servers -> Agent \cup {None}] /\ agents'[s] = a /\ \A x \in Servers \ {s} : agents'[x] = agents[x]
  BY <1>1, <1>5, <1>6 DEF TypeOK, a
<1>9. TypeOK'
  BY <1>1, <1>8 DEF TypeOK
<1>10. o.wanted \in BOOLEAN
  BY <1>2 DEF Definition
<1>11. ASSUME NEW q \in Row
       PROVE  \/ OnAgent(q)' = OnAgent(q)
              \/ q.name = n /\ OnAgent(q) = o /\ OnAgent(q)' = d
  <2>1. q.server \in Servers /\ q.name \in Names
    BY DEF Row
  <2>2. CASE q.server # s
    <3>1. agents'[q.server] = agents[q.server]
      BY <1>8, <2>1, <2>2
    <3> QED BY <3>1 DEF OnAgent, Alive
  <2>3. CASE q.server = s
    <3>1. OnAgent(q)' = a[q.name] /\ OnAgent(q) = agents[s][q.name]
      BY <1>7, <1>8, <2>3 DEF OnAgent, Alive
    <3> QED BY <1>6, <2>1, <3>1 DEF o
  <2> QED BY <2>2, <2>3
<1>12. ASSUME NEW q \in Row
       PROVE  /\ (OnAgent(q) = None) <=> (OnAgent(q)' = None)
              /\ OnAgent(q) # None => OnAgent(q)'.version = OnAgent(q).version
              /\ OnAgent(q) # None /\ q.name \notin Oneshot => OnAgent(q)'.wanted = OnAgent(q).wanted
              /\ OnAgent(q) # None /\ ~OnAgent(q).wanted => ~OnAgent(q)'.wanted
  <2>1. CASE OnAgent(q)' = OnAgent(q)
    BY <2>1
  <2>2. CASE q.name = n /\ OnAgent(q) = o /\ OnAgent(q)' = d
    BY <1>1, <1>3, <1>4, <1>10, <2>2
  <2> QED BY <1>11, <2>1, <2>2
<1> QED BY <1>1, <1>9, <1>12, WorldStep

\* A package version is deleted from the repository.
LEMMA DeletePackageOK ==
  ASSUME IInv, NEW v \in Versions, DeletePackage(v) PROVE IInv'
<1>1. UNCHANGED <<nodes, base, rows, lastId, agents, call>> /\ packages' \subseteq packages
  BY DEF DeletePackage
<1>2. TypeOK'
  BY <1>1 DEF IInv, TypeOK
<1>3. \A q : OnAgent(q)' = OnAgent(q)
  BY <1>1, SameAgents
<1> QED BY <1>1, <1>2, <1>3, WorldStep

\* The controller dies.
LEMMA CrashOK ==
  ASSUME IInv, Crash PROVE IInv'
<1>1. call' = [c \in Handlers |-> Idle] /\ UNCHANGED <<nodes, base, packages, rows, lastId, agents>>
  BY DEF Crash
<1>2. call' \in [Handlers -> Call] /\ \A c \in Handlers : call'[c] = Idle
  BY <1>1, IdleShape
<1>3. TypeOK'
  BY <1>1, <1>2 DEF IInv, TypeOK
<1>4. OneRecordPerServer'
  BY <1>1, <1>3, SameTable, KeptUnique DEF IInv
<1>5. Idle.pc = "idle" /\ Idle.op = "list" /\ Idle.doc = None /\ Idle.read = {} /\ Idle.todo = <<>>
  BY IdleShape
<1>6. ASSUME NEW c \in Handlers PROVE InStep(c)' /\ Held(c)' /\ AloneOK(c)'
  <2>1. InStep(c)' /\ AloneOK(c)'
    BY <1>2, <1>5 DEF InStep, PcsOf, Active, AloneOK
  <2>2. Held(c)'
    BY <1>2, <1>5, EmptySet, FS_EmptySet, NoneAssumption DEF Held
  <2> QED BY <2>1, <2>2
<1>7. Room'
  <2>1. Inserting' = {}
    BY <1>2, <1>5 DEF Inserting
  <2>2. lastId \in Nat /\ MaxId \in Nat /\ lastId <= MaxId
    BY ProgramsAssumptions DEF ProgramsAssumptions, IInv, TypeOK
  <2>3. Cardinality(Inserting') = 0
    BY <2>1, FS_EmptySet
  <2> QED BY <1>1, <2>2, <2>3 DEF Room
<1> QED BY <1>3, <1>4, <1>6, <1>7 DEF IInv, Calls, Documents, Serial

----------------------------------------------------------------------------
(* The theorems *)

\* The initial states satisfy the invariant.
LEMMA InitOK == Init => IInv
<1> SUFFICES ASSUME Init PROVE IInv
  OBVIOUS
<1>1. call \in [Handlers -> Call] /\ \A c \in Handlers : call[c] = Idle
  BY IdleShape DEF Init
<1>2. MaxId \in Nat /\ 0 \in 0 .. MaxId
  BY ProgramsAssumptions DEF ProgramsAssumptions
<1>3. TypeOK
  BY <1>1, <1>2 DEF Init, TypeOK, Ids
<1>4. OneRecordPerServer
  BY DEF Init, OneRecordPerServer, Records
<1>5. \A c \in Handlers : InStep(c) /\ Held(c) /\ AloneOK(c)
  BY <1>1, IdleHolds DEF AloneOK
<1>6. Room
  <2>1. Inserting = {}
    BY <1>1, IdleShape DEF Inserting
  <2>2. Cardinality(Inserting) = 0
    BY <2>1, FS_EmptySet
  <2> QED BY <1>2, <2>2 DEF Room, Init
<1> QED BY <1>3, <1>4, <1>5, <1>6 DEF IInv, Calls, Documents, Serial

\* A step of a handler keeps it.
LEMMA HandlerStepOK ==
  ASSUME IInv, NEW c \in Handlers, HandlerStep(c) PROVE IInv'
  BY InsertProgramOK, StoreProgramOK, DeleteRowOK, EnsureOnAgentOK, EnsureFailsOK, AgentStartOK,
     AgentStartFailsOK, AgentStopOK, AgentStopFailsOK, AgentRemoveOK, QueryAgentOK, RefreshStatusOK,
     DeployTopologyOK, ListForPruneOK, PruneProgramOK, ListForRestoreOK, RestoreNextOK DEF HandlerStep

\* A request keeps it.
LEMMA RequestOK ==
  ASSUME IInv, NEW c \in Handlers, Request(c) PROVE IInv'
  BY CreateProgramOK, StartProgramOK, StopProgramOK, DeleteProgramOK, UpgradeProgramOK, ListProgramsOK,
     ApplyPlanOK, RepairLabOK DEF Request

\* Where nothing changes, it stays.
LEMMA StutterOK ==
  ASSUME IInv, UNCHANGED vars PROVE IInv'
<1>1. UNCHANGED <<nodes, base, packages, rows, lastId, agents, call>>
  BY DEF vars
<1>2. TypeOK'
  BY <1>1 DEF IInv, TypeOK
<1>3. \A q : OnAgent(q)' = OnAgent(q)
  BY <1>1, SameAgents
<1> QED BY <1>1, <1>2, <1>3, WorldStep

\* Every step keeps it.
LEMMA NextOK == IInv /\ [Next]_vars => IInv'
<1> SUFFICES ASSUME IInv, [Next]_vars PROVE IInv'
  OBVIOUS
<1>1. CASE Environment
  BY <1>1, ProcessExitsOK, DeletePackageOK, CrashOK DEF Environment
<1>2. ASSUME NEW c \in Handlers, Request(c) \/ HandlerStep(c) \/ Reply(c) PROVE IInv'
  BY <1>2, RequestOK, HandlerStepOK, ReplyOK
<1>3. CASE UNCHANGED vars
  BY <1>3, StutterOK
<1> QED BY <1>1, <1>2, <1>3 DEF Next

\* Every reachable state satisfies the invariant.
LEMMA Inductive == Spec => []IInv
  BY InitOK, NextOK, PTL DEF Spec

(***************************************************************************)
(* A name exists at most once per server, whatever handlers race: the      *)
(* constraint refuses a second one, ids are new, and a handler that writes *)
(* back a document never gives a record another name or server.            *)
(***************************************************************************)
THEOREM NamesAreUnique == Spec => []OneRecordPerServer
<1>1. IInv => OneRecordPerServer
  BY DEF IInv
<1> QED BY <1>1, Inductive, PTL

(***************************************************************************)
(* An operation that succeeds and that nothing overlapped leaves record    *)
(* and agent in agreement.                                                 *)
(***************************************************************************)
THEOREM SerialOperationSettles == Spec => []SerialOpSettles
<1>1. IInv => SerialOpSettles
  <2> SUFFICES ASSUME IInv, NEW c \in Handlers,
                      call[c].pc = "done" /\ call[c].ok /\ call[c].alone
                      /\ call[c].op \in {"start", "stop", "upgrade", "delete"}
               PROVE  LET k == call[c]
                          r == rows[k.doc.id]
                      IN CASE k.op = "start" -> Agrees(r, r.desired = "Running")
                           [] k.op = "upgrade" -> base # None => Agrees(r, r.desired = "Running")
                           [] k.op = "stop" -> r.desired = "Stopped" /\ OnAgent(r) # None /\ ~OnAgent(r).wanted
                           [] k.op = "delete" -> r = None /\ (k.deployed => OnAgent(k.doc.row) = None)
    BY DEF SerialOpSettles
  <2>1. Reached(call[c]) /\ rows[call[c].doc.id] = IF call[c].op = "delete" THEN None ELSE call[c].doc.row
    BY DEF IInv, Serial, AloneOK, Active, Achieved, OneDone
  <2> QED BY <2>1 DEF Reached, ToRun
<1> QED BY <1>1, Inductive, PTL

(***************************************************************************)
(* An apply that succeeds and that nothing overlapped leaves no record on  *)
(* a removed server and the programs of the servers it created restored.   *)
(***************************************************************************)
THEOREM ApplyRestores == Spec => []ApplyRestoresPrograms
<1>1. IInv => ApplyRestoresPrograms
  <2> SUFFICES ASSUME IInv, NEW c \in Handlers,
                      call[c].pc = "done" /\ call[c].ok /\ call[c].alone /\ call[c].op = "apply",
                      NEW i \in Records
               PROVE  /\ rows[i].server \notin call[c].gone
                      /\ rows[i].server \in call[c].scope =>
                           Agrees(rows[i], rows[i].desired = "Running" \/ rows[i].name \in AutoStart)
    BY DEF ApplyRestoresPrograms
  <2>1. Swept(call[c])
    BY DEF IInv, Serial, AloneOK, Active, Achieved, PlanDone
  <2> QED BY <2>1 DEF Swept, Restored, ToBoot
<1> QED BY <1>1, Inductive, PTL

\* The statements that write the table bring no record back.
LEMMA NextKept ==
  ASSUME IInv, [Next]_vars
  PROVE  \A i \in Ids : i <= lastId /\ rows[i] = None => rows'[i] = None
<1>1. TypeOK
  BY DEF IInv
<1>2. CASE UNCHANGED rows
  BY <1>2
<1>3. ASSUME NEW c \in Handlers, InsertProgram(c)
      PROVE  \A i \in Ids : i <= lastId /\ rows[i] = None => rows'[i] = None
  <2>1. CASE UNCHANGED rows
    BY <2>1
  <2>2. CASE rows' = [rows EXCEPT ![lastId + 1] = call[c].doc.row]
    <3>1. \A i \in Ids : i <= lastId => i # lastId + 1
      BY <1>1 DEF TypeOK, Ids
    <3>2. rows \in [Ids -> Row \cup {None}]
      BY <1>1 DEF TypeOK
    <3> QED BY <2>2, <3>1, <3>2
  <2> QED BY <1>3, <2>1, <2>2 DEF InsertProgram
<1>4. ASSUME NEW d, rows' = Updated(d)
      PROVE  \A i \in Ids : rows[i] = None => rows'[i] = None
  <2>1. rows \in [Ids -> Row \cup {None}]
    BY <1>1 DEF TypeOK
  <2> QED BY <1>4, <2>1 DEF Updated
<1>5. ASSUME NEW j, rows' = [rows EXCEPT ![j] = None]
      PROVE  \A i \in Ids : rows[i] = None => rows'[i] = None
  <2>1. rows \in [Ids -> Row \cup {None}]
    BY <1>1 DEF TypeOK
  <2> QED BY <1>5, <2>1
<1>6. ASSUME NEW c \in Handlers, HandlerStep(c)
      PROVE  \A i \in Ids : i <= lastId /\ rows[i] = None => rows'[i] = None
  <2>1. CASE StoreProgram(c)
    BY <1>4, <2>1 DEF StoreProgram
  <2>2. CASE DeleteRow(c)
    BY <1>5, <2>2 DEF DeleteRow
  <2>3. CASE RefreshStatus(c)
    <3>1. rows' = rows \/ rows' = Updated(Head(call[c].todo))
      BY <2>3 DEF RefreshStatus
    <3> QED BY <1>4, <3>1
  <2>4. CASE PruneProgram(c)
    <3>1. rows' = rows \/ rows' = [rows EXCEPT ![Head(call[c].todo).id] = None]
      BY <2>4 DEF PruneProgram
    <3> QED BY <1>5, <3>1
  <2>5. CASE \/ EnsureOnAgent(c) \/ EnsureFails(c) \/ AgentStart(c) \/ AgentStartFails(c)
             \/ AgentStop(c) \/ AgentStopFails(c) \/ AgentRemove(c) \/ QueryAgent(c)
             \/ DeployTopology(c) \/ ListForPrune(c) \/ ListForRestore(c) \/ RestoreNext(c)
    <3>1. UNCHANGED rows
      BY <2>5 DEF EnsureOnAgent, EnsureFails, AgentStart, AgentStartFails, AgentStop, AgentStopFails,
                  AgentRemove, QueryAgent, DeployTopology, ListForPrune, ListForRestore, RestoreNext
    <3> QED BY <1>2, <3>1
  <2> QED BY <1>3, <1>6, <2>1, <2>2, <2>3, <2>4, <2>5 DEF HandlerStep
<1>7. ASSUME NEW c \in Handlers, Request(c) \/ Reply(c) PROVE UNCHANGED rows
  BY <1>7 DEF Request, Reply, CreateProgram, StartProgram, StopProgram, DeleteProgram, UpgradeProgram,
              ListPrograms, ApplyPlan, RepairLab
<1>8. CASE Environment
  <2>1. UNCHANGED rows
    BY <1>8 DEF Environment, ProcessExits, DeletePackage, Crash
  <2> QED BY <1>2, <2>1
<1>9. CASE UNCHANGED vars
  BY <1>2, <1>9 DEF vars
<1> QED BY <1>2, <1>6, <1>7, <1>8, <1>9 DEF Next

(***************************************************************************)
(* A deleted record stays deleted, though handlers that read it before     *)
(* write it back: ids are not reused, and UPDATE finds no row.             *)
(***************************************************************************)
THEOREM DeletionIsFinal == Spec => DeletedStaysDeleted
<1> DEFINE Stays == \A i \in Ids : i <= lastId /\ rows[i] = None => rows'[i] = None
<1>1. IInv /\ [Next]_vars => [Stays]_vars
  BY NextKept
<1> QED BY <1>1, Inductive, PTL DEF Spec, DeletedStaysDeleted

----------------------------------------------------------------------------
(* Traffic scenarios: the inductive invariant *)

\* A scenario whose programs have been created at some time.
Past(d) == d \in Scenario /\ d.server <= lastId /\ d.client <= lastId

\* The tables and the sample of the collector.
Tables ==
  /\ DOMAIN scenarios = Sids /\ lastScenario \in 0 .. MaxScenario
  /\ \A x \in Sids : scenarios[x] # None => x <= lastScenario /\ Past(scenarios[x])
  /\ sample # None => sample.id \in Sids /\ Past(sample.doc)

\* An apply that deletes a scenario first has not read any record to prune.
Resumable(k) ==
  /\ k \in Call /\ k.pc = "scan" /\ k.op = "apply"
  /\ k.doc \in Doc /\ k.doc.id # 0 => Tracks(k.doc)
  /\ IsFiniteSet(k.read)
  /\ \A d \in k.read : Tracks(d)
  /\ \A d \in ToSet(k.todo) : Tracks(d)

FlowTyped(c) ==
  LET f == flow[c]
  IN /\ f \in Flow
     /\ f.suspended # None => Resumable(f.suspended)
     /\ f.pc # "idle" => f.id \in Sids /\ f.id <= lastScenario /\ Past(f.doc)

StartPcs == {"server", "serverDone", "client", "clientDone", "rollback", "rolledBack", "update"}
OffPcs   == {"clientOff", "serverOff", "erase"}

\* The program operation that a flow waits for.
Runs(f, k) ==
  /\ f.pc \in StartPcs => f.op = "start"
  /\ f.pc \in OffPcs => f.op \in {"stop", "delete"}
  /\ f.pc \in {"server", "client", "rollback", "update", "clientOff", "done"} => k.pc = "idle"
  /\ f.pc \in {"serverDone", "clientDone"} => k.op = "create"

\* Record i is gone, or the operation that deletes it is under way.
Erased(k, i) ==
  \/ k.pc \in {"remove", "delete"} /\ k.doc.id = i
  \/ k.pc \in {"idle", "done"} /\ i \notin Records

\* What a start leaves of a server program, and a deletion of both programs.
Removes(f, k) ==
  /\ f.pc \in {"server", "serverDone"} => f.doc.server \notin Records \ f.before
  /\ f.pc = "rolledBack" => Erased(k, f.doc.server)
  /\ f.pc = "serverOff" /\ f.op = "delete" => Erased(k, f.doc.client)
  /\ f.pc = "erase" /\ f.op = "delete" => f.doc.client \notin Records /\ Erased(k, f.doc.server)
  /\ f.pc = "done" /\ f.op = "delete" => f.doc.client \notin Records /\ f.doc.server \notin Records
  /\ f.pc = "done" /\ f.op = "start" /\ ~f.ok
       => scenarios[f.id] = None \/ f.doc.server \notin Records \ f.before

FlowGoes(c) == flow[c].pc # "idle" => Runs(flow[c], call[c]) /\ Removes(flow[c], call[c])

\* A creation on top of the records S: its record is there once it is inserted.
Creates(k, S) ==
  IF k.pc = "insert" \/ (k.pc = "done" /\ ~k.ok) THEN Records = S
  ELSE k.doc.id \in Ids \ S /\ Records = S \cup {k.doc.id}

\* The records that a start has created so far.
Created(f, k) ==
  LET one == f.before \cup {f.doc.server}
  IN /\ f.pc = "server" => Records = f.before
     /\ f.pc = "serverDone" => Creates(k, f.before)
     /\ f.pc \in {"client", "clientDone", "rollback"} => f.doc.server \in Ids \ f.before
     /\ f.pc \in {"client", "rollback"} => Records = one
     /\ f.pc = "clientDone" => Creates(k, one)
     /\ f.pc = "rolledBack" => IF k.pc \in {"remove", "delete"}
                               THEN f.doc.server \in Ids \ f.before /\ Records = one
                               ELSE Records = f.before
     /\ f.pc = "update" => Records = one \cup {f.doc.client}
     /\ f.pc = "done" => IF f.ok THEN scenarios[f.id] = f.doc /\ Records = one \cup {f.doc.client}
                         ELSE Records = f.before

\* Where a flow that nothing has overlapped stands.
Settles(f, k) ==
  /\ f.pc # "done" => scenarios[f.id] # None
  /\ f.op = "start" => Created(f, k)
  /\ f.op = "stop" /\ f.pc = "done" => scenarios[f.id].phase = "Stopped"
  /\ f.op = "delete" /\ f.pc = "done" => f.ok /\ scenarios[f.id] = None

FlowAlone(c) ==
  flow[c].pc # "idle" /\ flow[c].alone =>
    sample = None /\ (\A d \in Handlers \ {c} : Free(d)) /\ Settles(flow[c], call[c])

Flows == DOMAIN flow = Handlers /\ \A c \in Handlers : FlowTyped(c) /\ FlowGoes(c) /\ FlowAlone(c)

TInv == IInv /\ Tables /\ Flows

----------------------------------------------------------------------------
(* A step of one handler, as the flows of the others see it *)

\* The tables only grow, and what is gone stays gone.
Grows ==
  /\ IInv' /\ Kept /\ Tables'
  /\ lastScenario <= lastScenario'
  /\ \A x \in Sids : x <= lastScenario /\ scenarios[x] = None => scenarios'[x] = None

\* What a handler's call is about.
Calm(d) == call'[d].pc = call[d].pc /\ call'[d].op = call[d].op /\ call'[d].doc = call[d].doc

\* A later state still knows the programs and the documents.
LEMMA Later ==
  ASSUME TInv, Grows
  PROVE  /\ \A d : Past(d) => Past(d)'
         /\ \A k : Resumable(k) => Resumable(k)'
         /\ \A i : i <= lastId /\ i \notin Records => i \notin Records'
<1>1. TypeOK /\ TypeOK' /\ Kept
  BY DEF TInv, IInv, Grows
<1>2. lastId \in Int /\ lastId' \in Int /\ lastId <= lastId'
  BY <1>1 DEF TypeOK, Kept
<1>3. ASSUME NEW d, Past(d) PROVE Past(d)'
  <2>1. d \in Scenario /\ d.server \in Int /\ d.client \in Int /\ d.server <= lastId /\ d.client <= lastId
    BY <1>3 DEF Past, Scenario, Ids
  <2> QED BY <1>2, <2>1 DEF Past
<1>4. \A x : Tracks(x) => Tracks(x)'
  BY <1>1, KeptTracks
<1>5. ASSUME NEW k, Resumable(k) PROVE Resumable(k)'
  BY <1>4, <1>5 DEF Resumable
<1>6. ASSUME NEW i, i <= lastId, i \notin Records PROVE i \notin Records'
  BY <1>1, <1>6 DEF Kept, Records
<1> QED BY <1>3, <1>5, <1>6

\* Advance moves one flow.
LEMMA Advanced ==
  ASSUME NEW c \in Handlers, NEW g, Advance(c, g)
  PROVE  /\ DOMAIN flow' = Handlers /\ flow'[c] = g
         /\ \A d \in Handlers \ {c} :
              flow'[d] = IF flow[d].pc = "idle" THEN flow[d] ELSE [flow[d] EXCEPT !.alone = FALSE]
  BY DEF Advance

\* A flow that stays where it is, overlapped by another handler or not.
LEMMA StandingFlow ==
  ASSUME TInv, Grows, NEW d \in Handlers, Calm(d),
         flow'[d] = flow[d] \/ flow'[d] = [flow[d] EXCEPT !.alone = FALSE]
  PROVE  /\ FlowTyped(d)' /\ FlowGoes(d)'
         /\ (flow'[d].pc # "idle" => ~flow'[d].alone) => FlowAlone(d)'
<1> PICK f : f = flow[d]
  OBVIOUS
<1> PICK g : g = flow'[d]
  OBVIOUS
<1>1. FlowTyped(d) /\ FlowGoes(d) /\ f \in Flow
  BY DEF TInv, Flows, FlowTyped
<1>2. /\ g \in Flow /\ g.pc = f.pc /\ g.op = f.op /\ g.id = f.id /\ g.doc = f.doc
      /\ g.suspended = f.suspended /\ g.before = f.before /\ g.ok = f.ok
  <2>1. CASE g = f
    BY <1>1, <2>1
  <2>2. CASE g = [f EXCEPT !.alone = FALSE]
    BY <1>1, <2>2 DEF Flow
  <2> QED BY <2>1, <2>2
<1>3. lastScenario \in Int /\ lastScenario' \in Int /\ lastScenario <= lastScenario'
  BY DEF TInv, Tables, Grows
<1>4. FlowTyped(d)'
  <2>1. f.suspended # None => Resumable(f.suspended)'
    BY <1>1, Later DEF FlowTyped
  <2>2. f.pc # "idle" => f.id \in Sids /\ f.id \in Int /\ f.id <= lastScenario' /\ Past(f.doc)'
    <3>1. f.pc # "idle" => f.id \in Sids /\ f.id <= lastScenario /\ Past(f.doc)
      BY <1>1 DEF FlowTyped
    <3>2. f.pc # "idle" => f.id \in Int
      BY <3>1 DEF Sids
    <3> QED BY <1>3, <3>1, <3>2, Later
  <2>3. g.suspended # None => Resumable(g.suspended)'
    BY <1>2, <2>1
  <2>4. g.pc # "idle" => Past(g.doc)'
    BY <1>2, <2>2
  <2> QED BY <1>2, <2>2, <2>3, <2>4 DEF FlowTyped
<1>5. FlowGoes(d)'
  <2> SUFFICES ASSUME g.pc # "idle" PROVE Runs(flow[d], call[d])' /\ Removes(flow[d], call[d])'
    BY DEF FlowGoes
  <2>1. Runs(f, call[d]) /\ Removes(f, call[d])
    BY <1>1, <1>2 DEF FlowGoes
  <2>2. Runs(flow[d], call[d])'
    BY <1>2, <2>1 DEF Runs, Calm
  <2>3. Past(f.doc) /\ f.id \in Sids /\ f.id <= lastScenario
    BY <1>1, <1>2 DEF FlowTyped
  <2>4. f.doc.server \notin Records \ f.before => f.doc.server \notin Records' \ f.before
    BY <2>3, Later DEF Past
  <2>5. /\ Erased(call[d], f.doc.server) => Erased(call[d], f.doc.server)'
        /\ Erased(call[d], f.doc.client) => Erased(call[d], f.doc.client)'
    BY <2>3, Later DEF Past, Erased, Calm
  <2>6. scenarios[f.id] = None => scenarios'[f.id] = None
    BY <2>3 DEF Grows
  <2>7. /\ f.doc.server \notin Records => f.doc.server \notin Records'
        /\ f.doc.client \notin Records => f.doc.client \notin Records'
    BY <2>3, Later DEF Past
  <2>8. Removes(flow[d], call[d])'
    BY <1>2, <2>1, <2>4, <2>5, <2>6, <2>7 DEF Removes
  <2> QED BY <2>2, <2>8
<1>6. (flow'[d].pc # "idle" => ~flow'[d].alone) => FlowAlone(d)'
  BY DEF FlowAlone
<1> QED BY <1>4, <1>5, <1>6

\* A step moves the flow of one handler, and overlaps the others.
LEMMA FlowMoves ==
  ASSUME TInv, Grows, NEW c \in Handlers, NEW g, Advance(c, g),
         \A d \in Handlers \ {c} : Calm(d),
         FlowTyped(c)', FlowGoes(c)', FlowAlone(c)'
  PROVE  TInv'
<1>1. DOMAIN flow' = Handlers /\ \A d \in Handlers \ {c} :
        flow'[d] = IF flow[d].pc = "idle" THEN flow[d] ELSE [flow[d] EXCEPT !.alone = FALSE]
  BY Advanced
<1>2. ASSUME NEW d \in Handlers PROVE FlowTyped(d)' /\ FlowGoes(d)' /\ FlowAlone(d)'
  <2>1. CASE d = c
    BY <2>1
  <2>2. CASE d # c
    <3>1. Calm(d)
      BY <2>2
    <3>2. flow'[d] = IF flow[d].pc = "idle" THEN flow[d] ELSE [flow[d] EXCEPT !.alone = FALSE]
      BY <1>1, <2>2
    <3>3. flow[d] \in Flow
      BY DEF TInv, Flows, FlowTyped
    <3>4. flow'[d].pc # "idle" => ~flow'[d].alone
      BY <3>2, <3>3 DEF Flow
    <3> QED BY <3>1, <3>2, <3>4, StandingFlow
  <2> QED BY <2>1, <2>2
<1> QED BY <1>1, <1>2 DEF TInv, Flows, Grows

\* A flow that nothing overlaps still stands alone after its own step.
LEMMA StillAlone ==
  ASSUME TInv, NEW c \in Handlers, NEW g, Advance(c, g), \A d \in Handlers \ {c} : Calm(d),
         sample' = sample,
         flow'[c].pc # "idle" /\ flow'[c].alone =>
           /\ sample = None /\ \A d \in Handlers \ {c} : Free(d)
           /\ Settles(flow[c], call[c])'
  PROVE  FlowAlone(c)'
<1>1. \A d \in Handlers \ {c} :
        flow'[d] = IF flow[d].pc = "idle" THEN flow[d] ELSE [flow[d] EXCEPT !.alone = FALSE]
  BY Advanced
<1>2. \A d \in Handlers \ {c} : Free(d) => Free(d)'
  BY <1>1 DEF Free, Calm
<1> QED BY <1>2 DEF FlowAlone

\* A flow goes on.
LEMMA FlowGoesOn ==
  ASSUME TInv, Grows, NEW c \in Handlers, NEW g \in Flow, Advance(c, g),
         \A d \in Handlers \ {c} : Calm(d), sample' = sample,
         flow[c].pc # "idle", g.alone = flow[c].alone, g.suspended = flow[c].suspended,
         g.id = flow[c].id, Past(flow[c].doc)',
         Runs(g, call'[c]),
         Removes(flow[c], call[c])',
         g.alone /\ Settles(flow[c], call[c]) => Settles(flow[c], call[c])'
  PROVE  TInv'
<1>1. flow'[c] = g
  BY Advanced
<1>2. FlowTyped(c) /\ FlowAlone(c)
  BY DEF TInv, Flows
<1>3. FlowTyped(c)'
  <2>1. flow[c].suspended # None => Resumable(flow[c].suspended)
    BY <1>2 DEF FlowTyped
  <2> PICK s : s = flow[c].suspended
    OBVIOUS
  <2>2. s # None => Resumable(s)'
    BY <2>1, Later
  <2>3. flow'[c].suspended # None => Resumable(flow[c].suspended)'
    BY <1>1, <2>2
  <2>4. g.id \in Sids /\ g.id <= lastScenario
    BY <1>2 DEF FlowTyped
  <2>5. g.id <= lastScenario'
    <3>1. g.id \in Int /\ lastScenario \in Int /\ lastScenario' \in Int /\ lastScenario <= lastScenario'
      BY <2>4 DEF Sids, TInv, Tables, Grows
    <3> QED BY <2>4, <3>1
  <2> QED BY <1>1, <2>3, <2>4, <2>5 DEF FlowTyped
<1>4. FlowGoes(c)'
  BY <1>1 DEF FlowGoes
<1>5. FlowAlone(c)'
  BY <1>1, <1>2, StillAlone DEF FlowAlone
<1> QED BY <1>3, <1>4, <1>5, FlowMoves

\* A flow begins.
LEMMA FlowBegins ==
  ASSUME TInv, Grows, NEW c \in Handlers, NEW g \in Flow, Advance(c, g),
         \A d \in Handlers \ {c} : Calm(d), sample' = sample,
         g.alone => Alone(c),
         g.suspended # None => Resumable(flow[c].suspended)',
         g.id \in Sids, g.id <= lastScenario, Past(g.doc),
         Runs(g, call'[c]),
         Removes(flow[c], call[c])',
         g.alone => Settles(flow[c], call[c])'
  PROVE  TInv'
<1>1. flow'[c] = g
  BY Advanced
<1>2. Past(flow[c].doc)'
  <2> PICK d : d = g.doc
    OBVIOUS
  <2>1. Past(d)'
    BY Later
  <2> QED BY <1>1, <2>1
<1>3. g.id <= lastScenario'
  <2>1. g.id \in Int /\ lastScenario \in Int /\ lastScenario' \in Int /\ lastScenario <= lastScenario'
    BY DEF Sids, TInv, Tables, Grows
  <2> QED BY <2>1
<1>4. FlowTyped(c)'
  BY <1>1, <1>2, <1>3 DEF FlowTyped
<1>5. FlowGoes(c)'
  BY <1>1 DEF FlowGoes
<1>6. FlowAlone(c)'
  BY <1>1, StillAlone DEF Alone
<1> QED BY <1>4, <1>5, <1>6, FlowMoves

\* The fields of a flow that has moved on.
MovesTo(f, g, p) ==
  /\ g \in Flow /\ g.pc = p /\ g.op = f.op /\ g.id = f.id
  /\ g.suspended = f.suspended /\ g.before = f.before /\ g.alone = f.alone

\* At moves only the pc.
LEMMA MovedOn ==
  ASSUME NEW f \in Flow, NEW p \in FlowPcs
  PROVE  MovesTo(f, [f EXCEPT !.pc = p], p) /\ [f EXCEPT !.pc = p].doc = f.doc
  BY DEF Flow, MovesTo

\* And of one that has ended.
LEMMA MovedToEnd ==
  ASSUME NEW f \in Flow, NEW b \in BOOLEAN
  PROVE  LET g == [f EXCEPT !.pc = "done", !.ok = b]
         IN MovesTo(f, g, "done") /\ g.doc = f.doc /\ g.ok = b
  BY DEF Flow, MovesTo, FlowPcs

\* What most steps leave to be shown: those that write no record and no scenario.
LEMMA SameGrows ==
  ASSUME TInv, IInv', UNCHANGED <<rows, lastId, scenarios, lastScenario>>,
         sample' = sample \/ sample' = None
  PROVE  Grows
<1>1. Kept
  BY SameTable DEF TInv, IInv
<1>2. Tables'
  <2>1. \A d : Past(d) => Past(d)'
    BY DEF Past
  <2> QED BY <2>1 DEF TInv, Tables
<1>3. lastScenario <= lastScenario'
  BY DEF TInv, Tables
<1> QED BY <1>1, <1>2, <1>3 DEF Grows

----------------------------------------------------------------------------
(* What a flow sees of the program operation it runs *)

\* A step of an operation is the handler's own, and no other operation's.
LEMMA HandlerMoves ==
  ASSUME IInv, NEW c \in Handlers, HandlerStep(c)
  PROVE  /\ call[c].pc \notin {"idle", "done"}
         /\ \A d \in Handlers \ {c} : call'[d] = call[d]
         /\ call'[c].op = call[c].op
<1>1. TypeOK /\ call \in [Handlers -> Call]
  BY DEF IInv, TypeOK
<1>2. call[c].pc \notin {"idle", "done"}
  BY DEF HandlerStep, InsertProgram, StoreProgram, DeleteRow, EnsureOnAgent, EnsureFails, AgentStart,
         AgentStartFails, AgentStop, AgentStopFails, AgentRemove, QueryAgent, RefreshStatus,
         DeployTopology, ListForPrune, PruneProgram, ListForRestore, RestoreNext
<1>3. call[c] \in Call
  BY <1>1
<1>4. CASE InsertProgram(c)
  BY <1>1, <1>2, <1>3, <1>4 DEF InsertProgram, Goto, Finish, Call
<1>5. CASE StoreProgram(c)
  BY <1>1, <1>2, <1>3, <1>5 DEF StoreProgram, Goto, Finish, Call
<1>6. CASE DeleteRow(c)
  BY <1>1, <1>2, <1>3, <1>6 DEF DeleteRow, Goto, Finish, Call
<1>7. CASE RefreshStatus(c)
  BY <1>1, <1>2, <1>3, <1>7 DEF RefreshStatus, Goto, Finish, Call
<1>8. CASE PruneProgram(c)
  BY <1>1, <1>2, <1>3, <1>8 DEF PruneProgram, Goto, Finish, Call
<1>9. CASE QueryAgent(c)
  BY <1>1, <1>2, <1>3, <1>9 DEF QueryAgent, Goto, Finish, Call
<1>10. CASE DeployTopology(c)
  BY <1>1, <1>2, <1>3, <1>10 DEF DeployTopology, Goto, Finish, Call
<1>11. CASE ListForPrune(c)
  BY <1>1, <1>2, <1>3, <1>11 DEF ListForPrune, Goto, Finish, Call
<1>12. CASE ListForRestore(c)
  BY <1>1, <1>2, <1>3, <1>12 DEF ListForRestore, Goto, Finish, Call
<1>13. CASE RestoreNext(c)
  BY <1>1, <1>2, <1>3, <1>13 DEF RestoreNext, Goto, Finish, Call
<1>14. CASE EnsureOnAgent(c)
  BY <1>1, <1>2, <1>3, <1>14 DEF EnsureOnAgent, Goto, Finish, Call
<1>15. CASE EnsureFails(c)
  BY <1>1, <1>2, <1>3, <1>15 DEF EnsureFails, Goto, Finish, AbortUnlessCreate, Call
<1>16. CASE AgentStart(c)
  BY <1>1, <1>2, <1>3, <1>16 DEF AgentStart, Goto, Finish, Call
<1>17. CASE AgentStartFails(c)
  <2>1. AbortUnlessCreate(c)
    BY <1>17 DEF AgentStartFails
  <2> QED BY <1>1, <1>2, <2>1, AbortMoves DEF Same
<1>18. CASE AgentStop(c)
  BY <1>1, <1>2, <1>3, <1>18 DEF AgentStop, Goto, Finish, Call
<1>19. CASE AgentStopFails(c)
  <2>1. Goto(c, "install") \/ Finish(c, FALSE)
    BY <1>19 DEF AgentStopFails
  <2> QED BY <1>1, <1>2, <2>1, GotoMoves, FinishMoves DEF Same, Pcs
<1>20. CASE AgentRemove(c)
  BY <1>1, <1>2, <1>3, <1>20 DEF AgentRemove, Goto, Finish, Call
<1> QED BY <1>2, <1>4, <1>5, <1>6, <1>7, <1>8, <1>9, <1>10, <1>11, <1>12, <1>13, <1>14, <1>15, <1>16, <1>17, <1>18, <1>19, <1>20 DEF HandlerStep

\* A creation that inserts its record.
LEMMA InsertMoves ==
  ASSUME IInv, NEW c \in Handlers, InsertProgram(c)
  PROVE  LET k == call[c]
             m == call'[c]
         IN \/ m.pc = "done" /\ ~m.ok /\ m.doc = k.doc /\ UNCHANGED <<rows, lastId>>
            \/ /\ m.pc = "install" \/ (m.pc = "done" /\ m.ok)
               /\ m.doc.id = lastId + 1 /\ lastId' = lastId + 1 /\ m.doc.id \in Ids \ Records
               /\ Records' = Records \cup {m.doc.id}
               /\ \A i \in Ids : i # m.doc.id => rows'[i] = rows[i]
<1> DEFINE k == call[c]
           r == k.doc.row
           n == lastId + 1
<1>1. /\ TypeOK /\ k.pc = "insert" /\ k \in Call /\ k.doc \in Doc /\ r \in Row
  BY OpOfPc, DocShape DEF IInv, Calls, InsertProgram, InStep
<1>2. call \in [Handlers -> Call] /\ rows \in [Ids -> Row \cup {None}]
  BY <1>1 DEF TypeOK
<1>3. CASE Violates(r)
  <2>1. Finish(c, FALSE) /\ UNCHANGED <<rows, lastId>>
    BY <1>3 DEF InsertProgram
  <2> QED BY <1>1, <2>1, FinishMoves
<1>4. CASE ~Violates(r)
  <2>1. rows' = [rows EXCEPT ![n] = r] /\ lastId' = n
    BY <1>4 DEF InsertProgram
  <2>2. IsFiniteSet(Inserting) /\ c \in Inserting
    BY <1>1, FS_Subset, ProgramsAssumptions DEF ProgramsAssumptions, Inserting
  <2>3. Cardinality(Inserting) \in Nat /\ Cardinality(Inserting) # 0
    BY <2>2, FS_CardinalityType, FS_EmptySet
  <2>4. lastId \in Nat /\ MaxId \in Nat /\ lastId + Cardinality(Inserting) <= MaxId
    BY ProgramsAssumptions DEF ProgramsAssumptions, IInv, TypeOK, Room
  <2>5. n \in Ids /\ n > lastId
    BY <2>3, <2>4 DEF Ids
  <2>6. rows[n] = None /\ r # None
    BY <1>1, <2>5, NoneAssumption DEF TypeOK
  <2>7. rows'[n] = r /\ \A i \in Ids : i # n => rows'[i] = rows[i]
    BY <1>2, <2>1, <2>5
  <2>8. Records' = Records \cup {n} /\ n \notin Records
    BY <2>5, <2>6, <2>7 DEF Records
  <2> DEFINE e == [k.doc EXCEPT !.id = n]
             p == IF k.deployed THEN "install" ELSE "done"
             y == [k EXCEPT !.doc = e, !.ok = ~k.deployed, !.pc = p]
  <2>9. call' = [call EXCEPT ![c] = y]
    BY <1>4 DEF InsertProgram
  <2>10. e.id = n
    BY <1>1 DEF Doc
  <2> HIDE DEF e
  <2>11. y.doc = e /\ y.pc = p /\ y.ok = ~k.deployed /\ k.deployed \in BOOLEAN
    BY <1>1 DEF Call
  <2> HIDE DEF y
  <2>12. call'[c] = y
    BY <1>2, <2>9
  <2> QED BY <2>1, <2>5, <2>7, <2>8, <2>10, <2>11, <2>12
<1> QED BY <1>3, <1>4

\* What a creation has done stands when the records and its document do.
LEMMA CreateCall ==
  ASSUME IInv, NEW c \in Handlers, HandlerStep(c), call[c].op = "create", NEW S, Creates(call[c], S)
  PROVE  Creates(call[c], S)'
<1> DEFINE k == call[c]
           m == call'[c]
<1>1. TypeOK /\ InStep(c) /\ k \in Call /\ k.doc \in Doc /\ call \in [Handlers -> Call]
      /\ k.pc \in {"insert", "install", "start", "store", "done"}
  BY DEF IInv, Calls, InStep, TypeOK, PcsOf
<1>2. k.pc \notin {"idle", "done"}
  BY HandlerMoves
<1>3. CASE k.pc = "insert"
  <2>1. InsertProgram(c)
    BY <1>3 DEF HandlerStep, InsertProgram, StoreProgram, DeleteRow, EnsureOnAgent, EnsureFails, AgentStart,
         AgentStartFails, AgentStop, AgentStopFails, AgentRemove, QueryAgent, RefreshStatus,
         DeployTopology, ListForPrune, PruneProgram, ListForRestore, RestoreNext
  <2>2. Records = S
    BY <1>3 DEF Creates
  <2>3. CASE m.pc = "done" /\ ~m.ok /\ m.doc = k.doc /\ UNCHANGED <<rows, lastId>>
    <3>1. Records' = S
      BY <2>2, <2>3 DEF Records
    <3> QED BY <2>3, <3>1 DEF Creates
  <2>4. CASE /\ m.pc = "install" \/ (m.pc = "done" /\ m.ok)
             /\ m.doc.id \in Ids \ Records
             /\ Records' = Records \cup {m.doc.id}
    BY <2>2, <2>4 DEF Creates
  <2> QED BY <2>1, <2>3, <2>4, InsertMoves
<1>4. CASE k.pc \in {"install", "start"}
  <2>1. EnsureOnAgent(c) \/ EnsureFails(c) \/ AgentStart(c) \/ AgentStartFails(c)
    BY <1>4 DEF HandlerStep, InsertProgram, StoreProgram, DeleteRow,
         AgentStop, AgentStopFails, AgentRemove, QueryAgent, RefreshStatus,
         DeployTopology, ListForPrune, PruneProgram, ListForRestore, RestoreNext
  <2>2. UNCHANGED rows /\ m.pc \in {"start", "store"}
    <3>1. CASE EnsureOnAgent(c)
      <4>1. AfterInstall(c) \in {"start", "store"}
        BY DEF AfterInstall
      <4> QED BY <1>1, <3>1, <4>1, GotoMoves DEF EnsureOnAgent, Pcs
    <3>2. CASE EnsureFails(c)
      <4>1. AbortUnlessCreate(c) /\ UNCHANGED rows
        BY <3>2 DEF EnsureFails
      <4> QED BY <1>1, <4>1, AbortMoves
    <3>3. CASE AgentStart(c)
      BY <1>1, <3>3 DEF AgentStart, Call
    <3>4. CASE AgentStartFails(c)
      <4>1. AbortUnlessCreate(c) /\ UNCHANGED rows
        BY <3>4 DEF AgentStartFails
      <4> QED BY <1>1, <4>1, AbortMoves
    <3> QED BY <2>1, <3>1, <3>2, <3>3, <3>4
  <2>3. m.doc.id = k.doc.id
    <3>1. CASE EnsureOnAgent(c)
      <4>1. AfterInstall(c) \in Pcs
        BY DEF AfterInstall, Pcs
      <4> QED BY <1>1, <3>1, <4>1, GotoMoves DEF EnsureOnAgent
    <3>2. CASE EnsureFails(c) \/ AgentStartFails(c)
      <4>1. AbortUnlessCreate(c)
        BY <3>2 DEF EnsureFails, AgentStartFails
      <4> QED BY <1>1, <4>1, AbortMoves
    <3>3. CASE AgentStart(c)
      <4> DEFINE D == DesiredAfterStart(call[c])
      <4>1. call' = [call EXCEPT ![c].pc = "store", ![c].doc.row.desired = D]
        BY <3>3 DEF AgentStart
      <4> HIDE DEF D
      <4> QED BY <1>1, <4>1 DEF Call, Doc
    <3> QED BY <2>1, <3>1, <3>2, <3>3
  <2>4. Records' = Records
    BY <2>2 DEF Records
  <2>5. k.doc.id \in Ids \ S /\ Records = S \cup {k.doc.id}
    BY <1>4 DEF Creates
  <2> QED BY <2>2, <2>3, <2>4, <2>5 DEF Creates
<1>5. CASE k.pc = "store"
  <2>1. StoreProgram(c)
    BY <1>5 DEF HandlerStep, InsertProgram, DeleteRow, EnsureOnAgent, EnsureFails, AgentStart,
         AgentStartFails, AgentStop, AgentStopFails, AgentRemove, QueryAgent, RefreshStatus,
         DeployTopology, ListForPrune, PruneProgram, ListForRestore, RestoreNext
  <2>2. k.doc.id \in Ids \ S /\ Records = S \cup {k.doc.id}
    BY <1>5 DEF Creates
  <2>3. rows[k.doc.id] # None /\ k.doc.id \in Ids
    BY <2>2 DEF Records
  <2>4. rows' = [rows EXCEPT ![k.doc.id] = k.doc.row] /\ Finish(c, rows[k.doc.id] # None)
    BY <2>1, <2>3 DEF StoreProgram, Updated
  <2>5. m.pc = "done" /\ m.ok /\ m.doc = k.doc
    BY <1>1, <2>3, <2>4 DEF Finish, Call
  <2>6. k.doc.row # None
    BY <1>1, DocShape, NoneAssumption
  <2>7. rows \in [Ids -> Row \cup {None}]
    BY <1>1 DEF TypeOK
  <2>8. Records' = Records
    BY <2>3, <2>4, <2>6, <2>7 DEF Records
  <2> QED BY <2>2, <2>5, <2>8 DEF Creates
<1> QED BY <1>1, <1>2, <1>3, <1>4, <1>5

\* A deletion deletes its own record, and no other.
LEMMA DeleteCall ==
  ASSUME IInv, NEW c \in Handlers, HandlerStep(c), call[c].pc \in {"remove", "delete"}
  PROVE  LET k == call[c]
             m == call'[c]
         IN \/ m.pc = "delete" /\ m.doc = k.doc /\ UNCHANGED rows
            \/ m.pc = "done" /\ Records' = Records \ {k.doc.id}
<1> DEFINE k == call[c]
<1>1. TypeOK /\ InStep(c) /\ k \in Call /\ call \in [Handlers -> Call] /\ rows \in [Ids -> Row \cup {None}]
  BY DEF IInv, Calls, InStep, TypeOK
<1>2. AgentRemove(c) \/ DeleteRow(c)
  BY DEF HandlerStep, InsertProgram, StoreProgram, EnsureOnAgent, EnsureFails, AgentStart,
         AgentStartFails, AgentStop, AgentStopFails, QueryAgent, RefreshStatus,
         DeployTopology, ListForPrune, PruneProgram, ListForRestore, RestoreNext
<1>3. CASE AgentRemove(c)
  BY <1>1, <1>3 DEF AgentRemove, Goto, Call
<1>4. CASE DeleteRow(c)
  <2>1. rows' = [rows EXCEPT ![k.doc.id] = None]
    BY <1>4 DEF DeleteRow
  <2>2. call'[c].pc = "done"
    BY <1>1, <1>4 DEF DeleteRow, Finish, Call
  <2>3. Records' = Records \ {k.doc.id}
    BY <1>1, <2>1 DEF Records
  <2> QED BY <2>2, <2>3
<1> QED BY <1>2, <1>3, <1>4

\* Every statement keeps the names and servers of the records.
LEMMA HandlerKept ==
  ASSUME IInv, NEW c \in Handlers, HandlerStep(c)
  PROVE  Kept
<1>1. TypeOK /\ InStep(c) /\ Held(c) /\ call[c] \in Call
  BY DEF IInv, Calls, Documents, TypeOK
<1>2. CASE UNCHANGED <<rows, lastId>>
  BY <1>1, <1>2, SameTable
<1>3. CASE InsertProgram(c)
  <2>1. CASE UNCHANGED <<rows, lastId>>
    BY <1>2, <2>1
  <2>2. CASE /\ lastId' = lastId + 1 /\ call'[c].doc.id = lastId + 1
             /\ \A i \in Ids : i # call'[c].doc.id => rows'[i] = rows[i]
    <3>1. lastId \in Int /\ \A i \in Ids : i <= lastId => i # lastId + 1
      BY <1>1 DEF TypeOK, Ids
    <3> QED BY <2>2, <3>1 DEF Kept
  <2> QED BY <1>3, <2>1, <2>2, InsertMoves
<1>4. CASE StoreProgram(c)
  <2>1. rows' = Updated(call[c].doc) /\ lastId' = lastId
    BY <1>4 DEF StoreProgram
  <2>2. Tracks(call[c].doc)
    BY <1>1, <1>4 DEF StoreProgram, InStep, Held
  <2> QED BY <1>1, <2>1, <2>2, UpdatedKeeps DEF TableOK
<1>5. CASE DeleteRow(c)
  <2>1. call[c].doc.id \in Ids
    BY <1>1, <1>5, OpOfPc, DocShape DEF DeleteRow, InStep
  <2> QED BY <1>1, <1>5, <2>1, ErasedKeeps DEF DeleteRow, TableOK
<1>6. CASE RefreshStatus(c)
  <2>1. CASE call[c].todo = <<>>
    BY <1>2, <1>6, <2>1 DEF RefreshStatus
  <2>2. CASE call[c].todo # <<>>
    <3>1. rows' = Updated(Head(call[c].todo)) /\ lastId' = lastId
      BY <1>6, <2>2 DEF RefreshStatus
    <3>2. call[c].todo \in Seq(Doc)
      BY <1>1 DEF Call
    <3>3. Tracks(Head(call[c].todo))
      BY <1>1, <2>2, <3>2, HeadTail DEF Held
    <3> QED BY <1>1, <3>1, <3>3, UpdatedKeeps DEF TableOK
  <2> QED BY <2>1, <2>2
<1>7. CASE PruneProgram(c)
  <2>1. CASE call[c].todo = <<>>
    BY <1>2, <1>7, <2>1 DEF PruneProgram
  <2>2. CASE call[c].todo # <<>>
    <3>1. rows' = [rows EXCEPT ![Head(call[c].todo).id] = None] /\ lastId' = lastId
      BY <1>7, <2>2 DEF PruneProgram
    <3>2. call[c].todo \in Seq(Doc)
      BY <1>1 DEF Call
    <3>3. Head(call[c].todo).id \in Ids
      BY <1>1, <2>2, <3>2, HeadTail DEF Held, Tracks
    <3> QED BY <1>1, <3>1, <3>3, ErasedKeeps DEF TableOK
  <2> QED BY <2>1, <2>2
<1>8. CASE \/ EnsureOnAgent(c) \/ EnsureFails(c) \/ AgentStart(c) \/ AgentStartFails(c)
           \/ AgentStop(c) \/ AgentStopFails(c) \/ AgentRemove(c) \/ QueryAgent(c)
           \/ DeployTopology(c) \/ ListForPrune(c) \/ ListForRestore(c) \/ RestoreNext(c)
  <2>1. UNCHANGED <<rows, lastId>>
    BY <1>8 DEF EnsureOnAgent, EnsureFails, AgentStart, AgentStartFails, AgentStop, AgentStopFails,
                AgentRemove, QueryAgent, DeployTopology, ListForPrune, ListForRestore, RestoreNext
  <2> QED BY <1>2, <2>1
<1> QED BY <1>3, <1>4, <1>5, <1>6, <1>7, <1>8 DEF HandlerStep

\* A request leaves the other operations where they are.
LEMMA BeginCalm ==
  ASSUME TypeOK, NEW c \in Handlers, NEW r, Begin(c, r)
  PROVE  \A d \in Handlers \ {c} : Calm(d)
<1>1. ASSUME NEW d \in Handlers \ {c} PROVE Calm(d)
  <2>1. call'[d] = IF call[d].pc = "idle" THEN call[d] ELSE [call[d] EXCEPT !.alone = FALSE]
    BY DEF Begin
  <2>2. call[d] \in Call
    BY DEF TypeOK
  <2> QED BY <2>1, <2>2 DEF Calm, Call
<1> QED BY <1>1

\* A creation begins, or is refused.
LEMMA CreateBegins ==
  ASSUME IInv, NEW c \in Handlers, NEW n \in Names, NEW s \in Servers, NEW v \in Versions,
         CreateProgram(c, n, s, v, TRUE)
  PROVE  /\ IInv' /\ UNCHANGED <<rows, lastId>>
         /\ \A d \in Handlers \ {c} : Calm(d)
         /\ call'[c].op = "create"
         /\ call'[c].pc = "insert" \/ (call'[c].pc = "done" /\ ~call'[c].ok)
<1> DEFINE refused == v \notin packages \/ s \notin nodes \/ Taken(n, s)
           row == [name |-> n, server |-> s, version |-> v,
                   desired |-> IF TRUE /\ n \notin Oneshot THEN "Running" ELSE "Stopped"]
           r == [Idle EXCEPT !.op = "create", !.on = TRUE, !.deployed = base # None,
                             !.doc = [id |-> 0, row |-> row],
                             !.pc = IF refused THEN "done" ELSE "insert"]
<1>1. Begin(c, r) /\ UNCHANGED <<rows, lastId>>
  BY DEF CreateProgram
<1>2. IInv'
  BY CreateProgramOK
<1> HIDE DEF refused, row
<1>3. r.op = "create" /\ ~r.ok /\ r.pc \in {"done", "insert"} /\ DOMAIN r = DOMAIN Idle
  BY DEF Idle
<1>4. call'[c] = [r EXCEPT !.alone = \A e \in Handlers \ {c} : call[e].pc = "idle"]
  BY <1>1 DEF Begin
<1>5. call'[c].op = r.op /\ call'[c].pc = r.pc /\ call'[c].ok = r.ok
  BY <1>4 DEF Idle
<1>6. \A d \in Handlers \ {c} : Calm(d)
  BY <1>1, BeginCalm DEF IInv
<1> QED BY <1>1, <1>2, <1>3, <1>5, <1>6

\* A deletion begins.
LEMMA DeleteBegins ==
  ASSUME IInv, NEW c \in Handlers, NEW i \in Records, DeleteProgram(c, i)
  PROVE  /\ IInv' /\ UNCHANGED <<rows, lastId>>
         /\ \A d \in Handlers \ {c} : Calm(d)
         /\ call'[c].pc \in {"remove", "delete"} /\ call'[c].doc.id = i
<1> DEFINE r == [Idle EXCEPT !.op = "delete", !.doc = DocOf(i), !.deployed = Addressable(i),
                             !.pc = IF Addressable(i) THEN "remove" ELSE "delete"]
<1>1. Begin(c, r) /\ UNCHANGED <<rows, lastId>>
  BY DEF DeleteProgram
<1>2. IInv'
  BY DeleteProgramOK DEF Records
<1>3. r.pc \in {"remove", "delete"} /\ r.doc = DocOf(i)
  BY DEF Idle
<1>4. call'[c] = [r EXCEPT !.alone = \A e \in Handlers \ {c} : call[e].pc = "idle"]
  BY <1>1 DEF Begin
<1>5. call'[c].pc = r.pc /\ call'[c].doc = r.doc
  BY <1>4 DEF Idle
<1>6. \A d \in Handlers \ {c} : Calm(d)
  BY <1>1, BeginCalm DEF IInv
<1>7. DocOf(i).id = i
  BY DEF DocOf
<1> HIDE DEF r
<1> QED BY <1>1, <1>2, <1>3, <1>5, <1>6, <1>7

\* A stop begins.
LEMMA StopBegins ==
  ASSUME IInv, NEW c \in Handlers, NEW i \in Records, StopProgram(c, i)
  PROVE  /\ IInv' /\ UNCHANGED <<rows, lastId>>
         /\ \A d \in Handlers \ {c} : Calm(d)
<1>1. IInv'
  BY StopProgramOK DEF Records
<1>2. UNCHANGED <<rows, lastId>> /\ \E r : Begin(c, r)
  BY DEF StopProgram
<1> QED BY <1>1, <1>2, BeginCalm DEF IInv

\* An operation's reply leaves its handler idle.
LEMMA ReplyEnds ==
  ASSUME IInv, NEW c \in Handlers, Reply(c)
  PROVE  /\ IInv' /\ UNCHANGED <<rows, lastId>>
         /\ \A d \in Handlers \ {c} : Calm(d)
         /\ call[c].pc = "done" /\ call'[c].pc = "idle"
<1>1. call' = [call EXCEPT ![c] = Idle] /\ call[c].pc = "done" /\ UNCHANGED <<rows, lastId>>
  BY DEF Reply
<1>2. call'[c] = Idle /\ \A d \in Handlers \ {c} : call'[d] = call[d]
  BY <1>1 DEF IInv, TypeOK
<1> QED BY <1>1, <1>2, ReplyOK, IdleShape DEF Calm

\* Where no handler moves.
LEMMA StandStill ==
  ASSUME IInv, UNCHANGED vars
  PROVE  /\ IInv' /\ UNCHANGED <<rows, lastId, call>>
         /\ \A d \in Handlers : Calm(d)
<1>1. UNCHANGED <<rows, lastId, call>>
  BY DEF vars
<1> QED BY <1>1, StutterOK DEF Calm

----------------------------------------------------------------------------
(* StartTrafficScenario *)

\* The server program is requested.
LEMMA StartServerRoleOK ==
  ASSUME TInv, NEW c \in Handlers, StartServerRole(c), UNCHANGED sample PROVE TInv'
<1> PICK f : f = flow[c]
  OBVIOUS
<1> DEFINE g == [f EXCEPT !.pc = "serverDone"]
<1>1. IInv /\ f \in Flow /\ f.pc = "server" /\ FlowTyped(c) /\ FlowGoes(c)
  BY DEF TInv, Flows, FlowTyped, StartServerRole
<1>2. CreateProgram(c, ServerName, Dest, Trafficgen, TRUE) /\ Advance(c, g)
      /\ UNCHANGED <<scenarios, lastScenario>>
  BY DEF StartServerRole, At
<1>3. /\ IInv' /\ UNCHANGED <<rows, lastId>>
      /\ \A d \in Handlers \ {c} : Calm(d)
      /\ call'[c].op = "create"
      /\ call'[c].pc = "insert" \/ (call'[c].pc = "done" /\ ~call'[c].ok)
  BY <1>1, <1>2, CreateBegins, TrafficAssumptions DEF TrafficAssumptions
<1>4. Grows
  BY <1>2, <1>3, SameGrows
<1>5. MovesTo(f, g, "serverDone") /\ g.doc = f.doc
  <2>1. "serverDone" \in FlowPcs
    BY DEF FlowPcs
  <2> QED BY <1>1, <2>1, MovedOn
<1> HIDE DEF g
<1>6. flow'[c] = g /\ Records' = Records
  BY <1>2, <1>3, Advanced DEF Records
<1>7. Runs(f, call[c]) /\ Removes(f, call[c]) /\ Past(f.doc)
  BY <1>1 DEF FlowGoes, FlowTyped
<1>8. Past(flow[c].doc)'
  BY <1>3, <1>5, <1>6, <1>7 DEF MovesTo, Past
<1>9. Runs(g, call'[c])
  BY <1>1, <1>3, <1>5, <1>7 DEF MovesTo, Runs, StartPcs, OffPcs
<1>10. Removes(flow[c], call[c])'
  BY <1>1, <1>5, <1>6, <1>7 DEF MovesTo, Removes
<1>11. Settles(flow[c], call[c]) => Settles(flow[c], call[c])'
  BY <1>1, <1>2, <1>3, <1>5, <1>6 DEF MovesTo, Settles, Created, Creates
<1> QED BY <1>1, <1>2, <1>3, <1>4, <1>5, <1>8, <1>9, <1>10, <1>11, FlowGoesOn DEF MovesTo

\* The programs that a handler's operation names have been created at some time.
LEMMA DocPast ==
  ASSUME IInv, NEW c \in Handlers, call[c].doc \in Doc
  PROVE  call[c].doc.id \in Ids \cup {0} /\ call[c].doc.id <= lastId
<1>1. call[c].doc.id \in Ids \cup {0} /\ lastId \in Nat
  BY DocShape DEF IInv, TypeOK
<1>2. call[c].doc.id # 0 => Tracks(call[c].doc)
  BY DEF IInv, Documents, Held
<1> QED BY <1>1, <1>2 DEF Tracks

\* The server program is there, or the start has failed.
LEMMA ServerRoleDoneOK ==
  ASSUME TInv, NEW c \in Handlers, ServerRoleDone(c), UNCHANGED sample PROVE TInv'
<1> PICK f : f = flow[c]
  OBVIOUS
<1> PICK k : k = call[c]
  OBVIOUS
<1> DEFINE h == [f EXCEPT !.pc = "client"]
           g == IF k.ok THEN [h EXCEPT !.doc.server = k.doc.id] ELSE [f EXCEPT !.pc = "done", !.ok = FALSE]
<1>1. IInv /\ f \in Flow /\ f.pc = "serverDone" /\ FlowTyped(c) /\ FlowGoes(c) /\ k.pc = "done"
  BY DEF TInv, Flows, FlowTyped, ServerRoleDone
<1>2. Reply(c) /\ Advance(c, g) /\ UNCHANGED <<scenarios, lastScenario>>
  BY DEF ServerRoleDone, At, Ended
<1>3. /\ IInv' /\ UNCHANGED <<rows, lastId>> /\ call'[c].pc = "idle"
      /\ \A d \in Handlers \ {c} : Calm(d)
  BY <1>1, <1>2, ReplyEnds
<1>4. Grows
  BY <1>2, <1>3, SameGrows
<1>5. Runs(f, k) /\ Removes(f, k) /\ Past(f.doc) /\ f.op = "start" /\ k.op = "create"
  BY <1>1 DEF FlowGoes, FlowTyped, Runs, StartPcs
<1>6. k.doc \in Doc
  BY <1>1, <1>5 DEF IInv, Calls, InStep
<1>7. k.doc.id \in Ids \cup {0} /\ k.doc.id <= lastId
  BY <1>1, <1>6, DocPast
<1>8. f.doc \in Scenario /\ f.doc.server <= lastId /\ f.doc.client <= lastId
  BY <1>5 DEF Past
<1>9. CASE k.ok
  <2> DEFINE e == [f.doc EXCEPT !.server = k.doc.id]
  <2>1. e \in Scenario /\ e.server = k.doc.id /\ e.client = f.doc.client
    BY <1>7, <1>8 DEF Scenario
  <2>2. h \in Flow /\ MovesTo(f, h, "client") /\ h.doc = f.doc
    <3>1. "client" \in FlowPcs
      BY DEF FlowPcs
    <3> QED BY <1>1, <3>1, MovedOn DEF MovesTo
  <2>3. g = [h EXCEPT !.doc = e]
    BY <1>9, <2>2
  <2> HIDE DEF h, e
  <2>4. MovesTo(f, g, "client") /\ g.doc = e
    BY <2>1, <2>2, <2>3 DEF MovesTo, Flow
  <2> HIDE DEF g
  <2>5. flow'[c] = g /\ Records' = Records
    BY <1>2, <1>3, Advanced DEF Records
  <2>6. Past(flow[c].doc)'
    BY <1>3, <1>7, <1>8, <2>1, <2>4, <2>5 DEF Past
  <2>7. Runs(g, call'[c])
    BY <1>3, <1>5, <2>4 DEF MovesTo, Runs, StartPcs, OffPcs
  <2>8. Removes(flow[c], call[c])'
    BY <2>4, <2>5 DEF MovesTo, Removes
  <2>9. Settles(flow[c], call[c]) => Settles(flow[c], call[c])'
    BY <1>1, <1>2, <1>3, <1>5, <1>9, <2>1, <2>4, <2>5 DEF MovesTo, Settles, Created, Creates
  <2> QED BY <1>1, <1>2, <1>3, <1>4, <2>4, <2>6, <2>7, <2>8, <2>9, FlowGoesOn DEF MovesTo
<1>10. CASE ~k.ok
  <2>1. MovesTo(f, g, "done") /\ g.doc = f.doc /\ g.ok = FALSE
    BY <1>1, <1>10, MovedToEnd
  <2> HIDE DEF g
  <2>2. flow'[c] = g /\ Records' = Records
    BY <1>2, <1>3, Advanced DEF Records
  <2>3. Past(flow[c].doc)'
    BY <1>3, <1>8, <2>1, <2>2 DEF Past
  <2>4. Runs(g, call'[c])
    BY <1>3, <1>5, <2>1 DEF MovesTo, Runs, StartPcs, OffPcs
  <2>5. Removes(flow[c], call[c])'
    BY <1>1, <1>2, <1>5, <2>1, <2>2 DEF MovesTo, Removes
  <2>6. Settles(flow[c], call[c]) => Settles(flow[c], call[c])'
    BY <1>1, <1>2, <1>3, <1>5, <1>10, <2>1, <2>2 DEF MovesTo, Settles, Created, Creates
  <2> QED BY <1>1, <1>2, <1>3, <1>4, <2>1, <2>3, <2>4, <2>5, <2>6, FlowGoesOn DEF MovesTo
<1> QED BY <1>9, <1>10

\* The client program is requested.
LEMMA StartClientRoleOK ==
  ASSUME TInv, NEW c \in Handlers, StartClientRole(c), UNCHANGED sample PROVE TInv'
<1> PICK f : f = flow[c]
  OBVIOUS
<1> DEFINE g == [f EXCEPT !.pc = "clientDone"]
<1>1. IInv /\ f \in Flow /\ f.pc = "client" /\ FlowTyped(c) /\ FlowGoes(c)
  BY DEF TInv, Flows, FlowTyped, StartClientRole
<1>2. CreateProgram(c, ClientName, Source, Trafficgen, TRUE) /\ Advance(c, g)
      /\ UNCHANGED <<scenarios, lastScenario>>
  BY DEF StartClientRole, At
<1>3. /\ IInv' /\ UNCHANGED <<rows, lastId>>
      /\ \A d \in Handlers \ {c} : Calm(d)
      /\ call'[c].op = "create"
      /\ call'[c].pc = "insert" \/ (call'[c].pc = "done" /\ ~call'[c].ok)
  BY <1>1, <1>2, CreateBegins, TrafficAssumptions DEF TrafficAssumptions
<1>4. Grows
  BY <1>2, <1>3, SameGrows
<1>5. MovesTo(f, g, "clientDone") /\ g.doc = f.doc
  <2>1. "clientDone" \in FlowPcs
    BY DEF FlowPcs
  <2> QED BY <1>1, <2>1, MovedOn
<1> HIDE DEF g
<1>6. flow'[c] = g /\ Records' = Records
  BY <1>2, <1>3, Advanced DEF Records
<1>7. Runs(f, call[c]) /\ Removes(f, call[c]) /\ Past(f.doc)
  BY <1>1 DEF FlowGoes, FlowTyped
<1>8. Past(flow[c].doc)'
  BY <1>3, <1>5, <1>6, <1>7 DEF Past
<1>9. Runs(g, call'[c])
  BY <1>1, <1>3, <1>5, <1>7 DEF MovesTo, Runs, StartPcs, OffPcs
<1>10. Removes(flow[c], call[c])'
  BY <1>5, <1>6 DEF MovesTo, Removes
<1>11. Settles(flow[c], call[c]) => Settles(flow[c], call[c])'
  BY <1>1, <1>2, <1>3, <1>5, <1>6 DEF MovesTo, Settles, Created, Creates
<1> QED BY <1>1, <1>2, <1>3, <1>4, <1>5, <1>8, <1>9, <1>10, <1>11, FlowGoesOn DEF MovesTo

\* The client program is there too, or the server program is rolled back.
LEMMA ClientRoleDoneOK ==
  ASSUME TInv, NEW c \in Handlers, ClientRoleDone(c), UNCHANGED sample PROVE TInv'
<1> PICK f : f = flow[c]
  OBVIOUS
<1> PICK k : k = call[c]
  OBVIOUS
<1> DEFINE h == [f EXCEPT !.pc = "update"]
           g == IF k.ok THEN [h EXCEPT !.doc.client = k.doc.id, !.doc.phase = "Running"]
                ELSE [f EXCEPT !.pc = "rollback"]
<1>1. IInv /\ f \in Flow /\ f.pc = "clientDone" /\ FlowTyped(c) /\ FlowGoes(c) /\ k.pc = "done"
  BY DEF TInv, Flows, FlowTyped, ClientRoleDone
<1>2. Reply(c) /\ Advance(c, g) /\ UNCHANGED <<scenarios, lastScenario>>
  BY DEF ClientRoleDone, At, Ended
<1>3. /\ IInv' /\ UNCHANGED <<rows, lastId>> /\ call'[c].pc = "idle"
      /\ \A d \in Handlers \ {c} : Calm(d)
  BY <1>1, <1>2, ReplyEnds
<1>4. Grows
  BY <1>2, <1>3, SameGrows
<1>5. Runs(f, k) /\ Past(f.doc) /\ f.op = "start" /\ k.op = "create"
  BY <1>1 DEF FlowGoes, FlowTyped, Runs, StartPcs
<1>6. k.doc \in Doc
  BY <1>1, <1>5 DEF IInv, Calls, InStep
<1>7. k.doc.id \in Ids \cup {0} /\ k.doc.id <= lastId
  BY <1>1, <1>6, DocPast
<1>8. f.doc \in Scenario /\ f.doc.server <= lastId /\ f.doc.client <= lastId
  BY <1>5 DEF Past
<1>9. CASE k.ok
  <2> DEFINE e == [f.doc EXCEPT !.client = k.doc.id, !.phase = "Running"]
  <2>1. e \in Scenario /\ e.client = k.doc.id /\ e.server = f.doc.server
    BY <1>7, <1>8 DEF Scenario
  <2>2. h \in Flow /\ MovesTo(f, h, "update") /\ h.doc = f.doc
    <3>1. "update" \in FlowPcs
      BY DEF FlowPcs
    <3> QED BY <1>1, <3>1, MovedOn DEF MovesTo
  <2>3. g = [h EXCEPT !.doc = e]
    BY <1>9, <2>2 DEF Flow
  <2> HIDE DEF h, e
  <2>4. MovesTo(f, g, "update") /\ g.doc = e
    BY <2>1, <2>2, <2>3 DEF MovesTo, Flow
  <2> HIDE DEF g
  <2>5. flow'[c] = g /\ Records' = Records
    BY <1>2, <1>3, Advanced DEF Records
  <2>6. Past(flow[c].doc)'
    BY <1>3, <1>7, <1>8, <2>1, <2>4, <2>5 DEF Past
  <2>7. Runs(g, call'[c])
    BY <1>3, <1>5, <2>4 DEF MovesTo, Runs, StartPcs, OffPcs
  <2>8. Removes(flow[c], call[c])'
    BY <2>4, <2>5 DEF MovesTo, Removes
  <2>9. Settles(flow[c], call[c]) => Settles(flow[c], call[c])'
    BY <1>1, <1>2, <1>3, <1>5, <1>9, <2>1, <2>4, <2>5 DEF MovesTo, Settles, Created, Creates
  <2> QED BY <1>1, <1>2, <1>3, <1>4, <2>4, <2>6, <2>7, <2>8, <2>9, FlowGoesOn DEF MovesTo
<1>10. CASE ~k.ok
  <2>1. MovesTo(f, g, "rollback") /\ g.doc = f.doc
    <3>1. "rollback" \in FlowPcs
      BY DEF FlowPcs
    <3> QED BY <1>1, <1>10, <3>1, MovedOn
  <2> HIDE DEF g
  <2>2. flow'[c] = g /\ Records' = Records
    BY <1>2, <1>3, Advanced DEF Records
  <2>3. Past(flow[c].doc)'
    BY <1>3, <1>8, <2>1, <2>2 DEF Past
  <2>4. Runs(g, call'[c])
    BY <1>3, <1>5, <2>1 DEF MovesTo, Runs, StartPcs, OffPcs
  <2>5. Removes(flow[c], call[c])'
    BY <2>1, <2>2 DEF MovesTo, Removes
  <2>6. Settles(flow[c], call[c]) => Settles(flow[c], call[c])'
    BY <1>1, <1>2, <1>3, <1>5, <1>10, <2>1, <2>2 DEF MovesTo, Settles, Created, Creates
  <2> QED BY <1>1, <1>2, <1>3, <1>4, <2>1, <2>3, <2>4, <2>5, <2>6, FlowGoesOn DEF MovesTo
<1> QED BY <1>9, <1>10

\* The deletion of a program by its id is under way, or there is nothing to delete.
LEMMA DeleteRoleMoves ==
  ASSUME IInv, NEW c \in Handlers, NEW i, NEW p, DeleteRole(c, i, p)
  PROVE  /\ IInv' /\ UNCHANGED <<rows, lastId>> /\ Advance(c, At(c, p))
         /\ \A d \in Handlers \ {c} : Calm(d)
         /\ \/ i \in Records /\ call'[c].pc \in {"remove", "delete"} /\ call'[c].doc.id = i
            \/ i \notin Records /\ UNCHANGED call
<1>1. CASE i \in Records
  <2>1. DeleteProgram(c, i) /\ Advance(c, At(c, p))
    BY <1>1 DEF DeleteRole
  <2> QED BY <1>1, <2>1, DeleteBegins
<1>2. CASE i \notin Records
  <2>1. UNCHANGED vars /\ Advance(c, At(c, p))
    BY <1>2 DEF DeleteRole
  <2> QED BY <1>2, <2>1, StandStill
<1> QED BY <1>1, <1>2

\* The server program of a failed start is deleted.
LEMMA RollbackOK ==
  ASSUME TInv, NEW c \in Handlers, Rollback(c), UNCHANGED sample PROVE TInv'
<1> PICK f : f = flow[c]
  OBVIOUS
<1> PICK i : i = f.doc.server
  OBVIOUS
<1> DEFINE g == [f EXCEPT !.pc = "rolledBack"]
<1>1. IInv /\ f \in Flow /\ f.pc = "rollback" /\ FlowTyped(c) /\ FlowGoes(c)
  BY DEF TInv, Flows, FlowTyped, Rollback
<1>2. DeleteRole(c, i, "rolledBack") /\ UNCHANGED <<scenarios, lastScenario>>
  BY DEF Rollback
<1>3. /\ IInv' /\ UNCHANGED <<rows, lastId>> /\ Advance(c, At(c, "rolledBack"))
      /\ \A d \in Handlers \ {c} : Calm(d)
      /\ \/ i \in Records /\ call'[c].pc \in {"remove", "delete"} /\ call'[c].doc.id = i
         \/ i \notin Records /\ UNCHANGED call
  BY <1>1, <1>2, DeleteRoleMoves
<1>4. Grows
  BY <1>2, <1>3, SameGrows
<1>5. MovesTo(f, g, "rolledBack") /\ g.doc = f.doc /\ Advance(c, g)
  <2>1. "rolledBack" \in FlowPcs
    BY DEF FlowPcs
  <2> QED BY <1>1, <1>3, <2>1, MovedOn DEF At
<1> HIDE DEF g
<1>6. flow'[c] = g /\ Records' = Records
  BY <1>3, <1>5, Advanced DEF Records
<1>7. Runs(f, call[c]) /\ Past(f.doc) /\ call[c].pc = "idle"
  BY <1>1 DEF FlowGoes, FlowTyped, Runs
<1>8. Past(flow[c].doc)'
  BY <1>3, <1>5, <1>6, <1>7 DEF Past
<1>9. Runs(g, call'[c])
  BY <1>1, <1>5, <1>7 DEF MovesTo, Runs, StartPcs, OffPcs
<1>10. Removes(flow[c], call[c])'
  BY <1>3, <1>5, <1>6, <1>7 DEF MovesTo, Removes, Erased
<1>11. Settles(flow[c], call[c]) => Settles(flow[c], call[c])'
  BY <1>1, <1>2, <1>3, <1>5, <1>6, <1>7 DEF MovesTo, Settles, Created
<1> QED BY <1>1, <1>2, <1>3, <1>4, <1>5, <1>8, <1>9, <1>10, <1>11, FlowGoesOn DEF MovesTo

\* The start has failed, and left nothing.
LEMMA RolledBackOK ==
  ASSUME TInv, NEW c \in Handlers, RolledBack(c), UNCHANGED sample PROVE TInv'
<1> PICK f : f = flow[c]
  OBVIOUS
<1> DEFINE g == [f EXCEPT !.pc = "done", !.ok = FALSE]
<1>1. IInv /\ f \in Flow /\ f.pc = "rolledBack" /\ FlowTyped(c) /\ FlowGoes(c)
  BY DEF TInv, Flows, FlowTyped, RolledBack
<1>2. Advance(c, g) /\ UNCHANGED <<scenarios, lastScenario>>
  BY DEF RolledBack, Ended
<1>3. /\ IInv' /\ UNCHANGED <<rows, lastId>> /\ call'[c].pc = "idle" /\ call[c].pc \in {"idle", "done"}
      /\ \A d \in Handlers \ {c} : Calm(d)
  <2>1. CASE Reply(c)
    BY <1>1, <2>1, ReplyEnds
  <2>2. CASE call[c].pc = "idle" /\ UNCHANGED vars
    BY <1>1, <2>2, StandStill
  <2> QED BY <2>1, <2>2 DEF RolledBack
<1>4. Grows
  BY <1>2, <1>3, SameGrows
<1>5. MovesTo(f, g, "done") /\ g.doc = f.doc /\ g.ok = FALSE
  BY <1>1, MovedToEnd
<1> HIDE DEF g
<1>6. flow'[c] = g /\ Records' = Records
  BY <1>2, <1>3, Advanced DEF Records
<1>7. Runs(f, call[c]) /\ Removes(f, call[c]) /\ Past(f.doc) /\ f.op = "start"
  BY <1>1 DEF FlowGoes, FlowTyped, Runs, StartPcs
<1>8. Past(flow[c].doc)'
  BY <1>3, <1>5, <1>6, <1>7 DEF Past
<1>9. Runs(g, call'[c])
  BY <1>1, <1>3, <1>5, <1>7 DEF MovesTo, Runs, StartPcs, OffPcs
<1>10. f.doc.server \notin Records
  BY <1>1, <1>3, <1>7 DEF Removes, Erased
<1>11. Removes(flow[c], call[c])'
  BY <1>5, <1>6, <1>7, <1>10 DEF MovesTo, Removes
<1>12. Settles(flow[c], call[c]) => Settles(flow[c], call[c])'
  BY <1>1, <1>2, <1>3, <1>5, <1>6, <1>7 DEF MovesTo, Settles, Created
<1> QED BY <1>1, <1>2, <1>3, <1>4, <1>5, <1>8, <1>9, <1>11, <1>12, FlowGoesOn DEF MovesTo

\* The scenario's record is written or erased.
LEMMA ScenarioWritten ==
  ASSUME TInv, UNCHANGED <<vars, lastScenario, sample>>, NEW x \in Sids, scenarios[x] # None,
         NEW d, d = None \/ Past(d), scenarios' = [scenarios EXCEPT ![x] = d]
  PROVE  Grows
<1>1. IInv' /\ UNCHANGED <<rows, lastId>>
  BY StandStill DEF TInv
<1>2. Kept
  BY <1>1, SameTable DEF TInv, IInv
<1>3. \A y : Past(y) => Past(y)'
  BY <1>1 DEF Past
<1>4. DOMAIN scenarios' = Sids /\ scenarios'[x] = d /\ \A y \in Sids \ {x} : scenarios'[y] = scenarios[y]
  BY DEF TInv, Tables
<1>5. \A y \in Sids : scenarios'[y] # None => y <= lastScenario' /\ Past(scenarios'[y])
  BY <1>4 DEF TInv, Tables
<1>6. \A y \in Sids : scenarios'[y] # None => Past(scenarios[y])'
  <2>1. ASSUME NEW y \in Sids, NEW z, z = scenarios'[y], z # None PROVE Past(z)'
    BY <1>3, <1>5, <2>1
  <2>2. ASSUME NEW y \in Sids, scenarios'[y] # None PROVE Past(scenarios[y])'
    <3> PICK z : z = scenarios'[y]
      OBVIOUS
    <3>1. Past(z)'
      BY <2>1, <2>2
    <3> QED BY <3>1
  <2> QED BY <2>2
<1>7. sample' # None => sample'.id \in Sids /\ Past(sample.doc)'
  <2> PICK z : z = sample.doc
    OBVIOUS
  <2>1. sample # None => Past(z)'
    BY <1>3 DEF TInv, Tables
  <2> QED BY <2>1 DEF TInv, Tables
<1>8. Tables'
  BY <1>4, <1>5, <1>6, <1>7 DEF TInv, Tables
<1>9. lastScenario <= lastScenario'
  BY DEF TInv, Tables
<1> QED BY <1>1, <1>2, <1>4, <1>8, <1>9 DEF Grows

\* The scenario is stored as running, or it is gone.
LEMMA UpdateScenarioOK ==
  ASSUME TInv, NEW c \in Handlers, UpdateScenario(c), UNCHANGED sample PROVE TInv'
<1> PICK f : f = flow[c]
  OBVIOUS
<1> PICK found : found = (scenarios[f.id] # None)
  OBVIOUS
<1> DEFINE g == [f EXCEPT !.pc = "done", !.ok = found]
<1>1. IInv /\ f \in Flow /\ f.pc = "update" /\ FlowTyped(c) /\ FlowGoes(c) /\ found \in BOOLEAN
  BY DEF TInv, Flows, FlowTyped, UpdateScenario
<1>2. Advance(c, g) /\ UNCHANGED <<vars, lastScenario>>
      /\ scenarios' = IF found THEN [scenarios EXCEPT ![f.id] = f.doc] ELSE scenarios
  BY DEF UpdateScenario, Ended
<1>3. Runs(f, call[c]) /\ Past(f.doc) /\ f.op = "start" /\ f.id \in Sids /\ call[c].pc = "idle"
  BY <1>1 DEF FlowGoes, FlowTyped, Runs, StartPcs
<1>4. /\ IInv' /\ UNCHANGED <<rows, lastId, call>>
      /\ \A d \in Handlers \ {c} : Calm(d)
  BY <1>1, <1>2, StandStill
<1>5. Grows /\ (found => scenarios'[f.id] = f.doc)
  <2>1. CASE found
    <3>1. scenarios' = [scenarios EXCEPT ![f.id] = f.doc] /\ scenarios[f.id] # None
      BY <1>2, <2>1
    <3>2. scenarios'[f.id] = f.doc
      BY <1>3, <3>1 DEF TInv, Tables
    <3> QED BY <1>2, <1>3, <3>1, <3>2, ScenarioWritten
  <2>2. CASE ~found
    BY <1>2, <1>4, <2>2, SameGrows
  <2> QED BY <1>1, <2>1, <2>2
<1>6. MovesTo(f, g, "done") /\ g.doc = f.doc /\ g.ok = found
  BY <1>1, MovedToEnd
<1> HIDE DEF g
<1>7. flow'[c] = g /\ Records' = Records
  BY <1>2, <1>4, Advanced DEF Records
<1>8. Past(flow[c].doc)'
  BY <1>3, <1>4, <1>6, <1>7 DEF Past
<1>9. Runs(g, call'[c])
  BY <1>3, <1>4, <1>6 DEF MovesTo, Runs, StartPcs, OffPcs
<1>10. Removes(flow[c], call[c])'
  BY <1>2, <1>3, <1>6, <1>7 DEF MovesTo, Removes
<1>11. Settles(flow[c], call[c]) => Settles(flow[c], call[c])'
  BY <1>1, <1>3, <1>5, <1>6, <1>7 DEF MovesTo, Settles, Created
<1> QED BY <1>1, <1>2, <1>4, <1>5, <1>6, <1>8, <1>9, <1>10, <1>11, FlowGoesOn DEF MovesTo

----------------------------------------------------------------------------
(* StopTrafficScenario and DeleteTrafficScenario *)

\* A role is deleted, or stopped.
LEMMA RoleOffMoves ==
  ASSUME IInv, NEW c \in Handlers, NEW i, NEW p, RoleOff(c, i, p)
  PROVE  /\ IInv' /\ UNCHANGED <<rows, lastId>> /\ Advance(c, At(c, p))
         /\ \A d \in Handlers \ {c} : Calm(d)
         /\ flow[c].op = "delete" =>
              \/ i \in Records /\ call'[c].pc \in {"remove", "delete"} /\ call'[c].doc.id = i
              \/ i \notin Records /\ UNCHANGED call
<1>1. CASE flow[c].op = "delete"
  <2>1. DeleteRole(c, i, p)
    BY <1>1 DEF RoleOff
  <2> QED BY <2>1, DeleteRoleMoves
<1>2. CASE flow[c].op # "delete" /\ i \in Records
  <2>1. StopProgram(c, i) /\ Advance(c, At(c, p))
    BY <1>2 DEF RoleOff
  <2> QED BY <1>2, <2>1, StopBegins
<1>3. CASE flow[c].op # "delete" /\ i \notin Records
  <2>1. UNCHANGED vars /\ Advance(c, At(c, p))
    BY <1>3 DEF RoleOff
  <2> QED BY <1>3, <2>1, StandStill
<1> QED BY <1>1, <1>2, <1>3

\* The client program goes first.
LEMMA ClientOffOK ==
  ASSUME TInv, NEW c \in Handlers, ClientOff(c), UNCHANGED sample PROVE TInv'
<1> PICK f : f = flow[c]
  OBVIOUS
<1> PICK i : i = f.doc.client
  OBVIOUS
<1> DEFINE g == [f EXCEPT !.pc = "serverOff"]
<1>1. IInv /\ f \in Flow /\ f.pc = "clientOff" /\ FlowTyped(c) /\ FlowGoes(c)
  BY DEF TInv, Flows, FlowTyped, ClientOff
<1>2. RoleOff(c, i, "serverOff") /\ call[c].pc = "idle" /\ UNCHANGED <<scenarios, lastScenario>>
  BY DEF ClientOff
<1>3. /\ IInv' /\ UNCHANGED <<rows, lastId>> /\ Advance(c, At(c, "serverOff"))
      /\ \A d \in Handlers \ {c} : Calm(d)
      /\ f.op = "delete" =>
           \/ i \in Records /\ call'[c].pc \in {"remove", "delete"} /\ call'[c].doc.id = i
           \/ i \notin Records /\ UNCHANGED call
  BY <1>1, <1>2, RoleOffMoves
<1>4. Grows
  BY <1>2, <1>3, SameGrows
<1>5. MovesTo(f, g, "serverOff") /\ g.doc = f.doc /\ Advance(c, g)
  <2>1. "serverOff" \in FlowPcs
    BY DEF FlowPcs
  <2> QED BY <1>1, <1>3, <2>1, MovedOn DEF At
<1> HIDE DEF g
<1>6. flow'[c] = g /\ Records' = Records
  BY <1>3, <1>5, Advanced DEF Records
<1>7. Runs(f, call[c]) /\ Past(f.doc)
  BY <1>1 DEF FlowGoes, FlowTyped
<1>8. Past(flow[c].doc)'
  BY <1>3, <1>5, <1>6, <1>7 DEF Past
<1>9. Runs(g, call'[c])
  BY <1>1, <1>5, <1>7 DEF MovesTo, Runs, StartPcs, OffPcs
<1>10. Removes(flow[c], call[c])'
  BY <1>2, <1>3, <1>5, <1>6 DEF MovesTo, Removes, Erased
<1>11. Settles(flow[c], call[c]) => Settles(flow[c], call[c])'
  <2>1. f.op \in {"stop", "delete"}
    BY <1>1, <1>7 DEF Runs, OffPcs
  <2> QED BY <1>1, <1>2, <1>5, <1>6, <2>1 DEF MovesTo, Settles
<1> QED BY <1>1, <1>2, <1>3, <1>4, <1>5, <1>8, <1>9, <1>10, <1>11, FlowGoesOn DEF MovesTo

\* The server program goes next.
LEMMA ServerOffOK ==
  ASSUME TInv, NEW c \in Handlers, ServerOff(c), UNCHANGED sample PROVE TInv'
<1> PICK f : f = flow[c]
  OBVIOUS
<1> PICK i : i = f.doc.server
  OBVIOUS
<1> DEFINE g == [f EXCEPT !.pc = "erase"]
<1>1. IInv /\ f \in Flow /\ f.pc = "serverOff" /\ FlowTyped(c) /\ FlowGoes(c)
  BY DEF TInv, Flows, FlowTyped, ServerOff
<1>2. RoleOff(c, i, "erase") /\ call[c].pc = "idle" /\ UNCHANGED <<scenarios, lastScenario>>
  BY DEF ServerOff
<1>3. /\ IInv' /\ UNCHANGED <<rows, lastId>> /\ Advance(c, At(c, "erase"))
      /\ \A d \in Handlers \ {c} : Calm(d)
      /\ f.op = "delete" =>
           \/ i \in Records /\ call'[c].pc \in {"remove", "delete"} /\ call'[c].doc.id = i
           \/ i \notin Records /\ UNCHANGED call
  BY <1>1, <1>2, RoleOffMoves
<1>4. Grows
  BY <1>2, <1>3, SameGrows
<1>5. MovesTo(f, g, "erase") /\ g.doc = f.doc /\ Advance(c, g)
  <2>1. "erase" \in FlowPcs
    BY DEF FlowPcs
  <2> QED BY <1>1, <1>3, <2>1, MovedOn DEF At
<1> HIDE DEF g
<1>6. flow'[c] = g /\ Records' = Records
  BY <1>3, <1>5, Advanced DEF Records
<1>7. Runs(f, call[c]) /\ Removes(f, call[c]) /\ Past(f.doc)
  BY <1>1 DEF FlowGoes, FlowTyped
<1>8. Past(flow[c].doc)'
  BY <1>3, <1>5, <1>6, <1>7 DEF Past
<1>9. Runs(g, call'[c])
  BY <1>1, <1>5, <1>7 DEF MovesTo, Runs, StartPcs, OffPcs
<1>10. f.op = "delete" => f.doc.client \notin Records
  BY <1>1, <1>2, <1>7 DEF Removes, Erased
<1>11. Removes(flow[c], call[c])'
  BY <1>2, <1>3, <1>5, <1>6, <1>10 DEF MovesTo, Removes, Erased
<1>12. Settles(flow[c], call[c]) => Settles(flow[c], call[c])'
  <2>1. f.op \in {"stop", "delete"}
    BY <1>1, <1>7 DEF Runs, OffPcs
  <2> QED BY <1>1, <1>2, <1>5, <1>6, <2>1 DEF MovesTo, Settles
<1> QED BY <1>1, <1>2, <1>3, <1>4, <1>5, <1>8, <1>9, <1>11, <1>12, FlowGoesOn DEF MovesTo

\* The operation on a role has ended, well or not.
LEMMA ProgramOffDoneOK ==
  ASSUME TInv, NEW c \in Handlers, ProgramOffDone(c), UNCHANGED sample PROVE TInv'
<1> PICK f : f = flow[c]
  OBVIOUS
<1>1. IInv /\ f \in Flow /\ f.pc \in {"serverOff", "erase"} /\ FlowTyped(c) /\ FlowGoes(c)
  BY DEF TInv, Flows, FlowTyped, ProgramOffDone
<1>2. Reply(c) /\ Advance(c, f) /\ UNCHANGED <<scenarios, lastScenario>>
  BY DEF ProgramOffDone
<1>3. /\ IInv' /\ UNCHANGED <<rows, lastId>> /\ call[c].pc = "done" /\ call'[c].pc = "idle"
      /\ \A d \in Handlers \ {c} : Calm(d)
  BY <1>1, <1>2, ReplyEnds
<1>4. Grows
  BY <1>2, <1>3, SameGrows
<1>5. flow'[c] = f /\ Records' = Records
  BY <1>2, <1>3, Advanced DEF Records
<1>6. Runs(f, call[c]) /\ Removes(f, call[c]) /\ Past(f.doc)
  BY <1>1 DEF FlowGoes, FlowTyped
<1>7. Past(flow[c].doc)'
  BY <1>3, <1>5, <1>6 DEF Past
<1>8. Runs(f, call'[c])
  BY <1>1, <1>3, <1>6 DEF Runs
<1>9. Removes(flow[c], call[c])'
  BY <1>1, <1>3, <1>5, <1>6 DEF Removes, Erased
<1>10. Settles(flow[c], call[c]) => Settles(flow[c], call[c])'
  <2>1. f.op \in {"stop", "delete"}
    BY <1>1, <1>6 DEF Runs, OffPcs
  <2> QED BY <1>1, <1>2, <1>5, <2>1 DEF Settles
<1> QED BY <1>1, <1>2, <1>3, <1>4, <1>7, <1>8, <1>9, <1>10, FlowGoesOn

\* The scenario is stored as stopped, or deleted, or gone already.
LEMMA EraseScenarioOK ==
  ASSUME TInv, NEW c \in Handlers, EraseScenario(c), UNCHANGED sample PROVE TInv'
<1> PICK f : f = flow[c]
  OBVIOUS
<1> PICK found : found = (scenarios[f.id] # None)
  OBVIOUS
<1> PICK d : d = IF f.op = "delete" THEN None ELSE [f.doc EXCEPT !.phase = "Stopped"]
  OBVIOUS
<1> DEFINE g == [f EXCEPT !.pc = "done", !.ok = found]
<1>1. IInv /\ f \in Flow /\ f.pc = "erase" /\ FlowTyped(c) /\ FlowGoes(c) /\ found \in BOOLEAN
      /\ call[c].pc = "idle"
  BY DEF TInv, Flows, FlowTyped, EraseScenario
<1>2. Advance(c, g) /\ UNCHANGED <<vars, lastScenario>>
      /\ scenarios' = IF found THEN [scenarios EXCEPT ![f.id] = d] ELSE scenarios
  BY DEF EraseScenario, Ended
<1>3. Runs(f, call[c]) /\ Removes(f, call[c]) /\ Past(f.doc) /\ f.op \in {"stop", "delete"} /\ f.id \in Sids
  BY <1>1 DEF FlowGoes, FlowTyped, Runs, OffPcs
<1>4. /\ IInv' /\ UNCHANGED <<rows, lastId, call>>
      /\ \A e \in Handlers \ {c} : Calm(e)
  BY <1>1, <1>2, StandStill
<1>5. (d = None \/ Past(d)) /\ (f.op = "stop" => d.phase = "Stopped") /\ (f.op = "delete" => d = None)
  BY <1>3 DEF Past, Scenario
<1>6. Grows /\ (found => scenarios'[f.id] = d)
  <2>1. CASE found
    <3>1. scenarios' = [scenarios EXCEPT ![f.id] = d] /\ scenarios[f.id] # None
      BY <1>2, <2>1
    <3>2. scenarios'[f.id] = d
      BY <1>3, <3>1 DEF TInv, Tables
    <3> QED BY <1>2, <1>3, <1>5, <3>1, <3>2, ScenarioWritten
  <2>2. CASE ~found
    BY <1>2, <1>4, <2>2, SameGrows
  <2> QED BY <1>1, <2>1, <2>2
<1>7. MovesTo(f, g, "done") /\ g.doc = f.doc /\ g.ok = found
  BY <1>1, MovedToEnd
<1> HIDE DEF g
<1>8. flow'[c] = g /\ Records' = Records
  BY <1>2, <1>4, Advanced DEF Records
<1>9. Past(flow[c].doc)'
  BY <1>3, <1>4, <1>7, <1>8 DEF Past
<1>10. Runs(g, call'[c])
  BY <1>1, <1>4, <1>7 DEF MovesTo, Runs, StartPcs, OffPcs
<1>11. Removes(flow[c], call[c])'
  BY <1>1, <1>3, <1>7, <1>8 DEF MovesTo, Removes, Erased
<1>12. Settles(flow[c], call[c]) => Settles(flow[c], call[c])'
  <2> SUFFICES ASSUME Settles(flow[c], call[c]) PROVE Settles(flow[c], call[c])'
    OBVIOUS
  <2>1. found = TRUE
    BY <1>1 DEF Settles
  <2>2. scenarios'[f.id] = d /\ g.pc = "done" /\ g.op = f.op /\ g.id = f.id /\ g.ok
    BY <1>6, <1>7, <2>1 DEF MovesTo
  <2> QED BY <1>3, <1>5, <1>8, <2>2 DEF Settles
<1> QED BY <1>1, <1>2, <1>4, <1>6, <1>7, <1>9, <1>10, <1>11, <1>12, FlowGoesOn DEF MovesTo

----------------------------------------------------------------------------
(* Requests on scenarios *)

\* A handler without a flow.
LEMMA NoFlowShape ==
  /\ NoFlow \in Flow
  /\ NoFlow.pc = "idle" /\ NoFlow.suspended = None
  BY DEF NoFlow, Flow, FlowPcs

\* It claims nothing.
LEMMA NoFlowHolds ==
  ASSUME NEW c \in Handlers, flow[c] = NoFlow
  PROVE  FlowTyped(c) /\ FlowGoes(c) /\ FlowAlone(c)
  BY NoFlowShape DEF FlowTyped, FlowGoes, FlowAlone

\* A scenario is created.
LEMMA CreateTrafficScenarioOK ==
  ASSUME TInv, NEW c \in Handlers, CreateTrafficScenario(c), UNCHANGED sample PROVE TInv'
<1> DEFINE n == lastScenario + 1
           d == [phase |-> "Stopped", server |-> 0, client |-> 0]
<1>1. IInv /\ Advance(c, NoFlow) /\ UNCHANGED vars
  BY DEF TInv, CreateTrafficScenario
<1>2. /\ IInv' /\ UNCHANGED <<rows, lastId, call>>
      /\ \A e \in Handlers \ {c} : Calm(e)
  BY <1>1, StandStill
<1>3. lastScenario \in Nat /\ MaxScenario \in Nat /\ lastScenario < MaxScenario
  BY TrafficAssumptions DEF TrafficAssumptions, TInv, Tables, CreateTrafficScenario
<1>4. n \in Sids /\ n \in 0 .. MaxScenario /\ lastScenario' = n /\ lastScenario <= n
  BY <1>3 DEF Sids, CreateTrafficScenario
<1>5. scenarios' = [scenarios EXCEPT ![n] = d] /\ DOMAIN scenarios = Sids
  BY DEF CreateTrafficScenario, TInv, Tables
<1>6. Past(d)'
  <2>1. lastId' \in Nat
    BY <1>2 DEF IInv, TypeOK
  <2> QED BY <2>1 DEF Past, Scenario
<1> HIDE DEF n, d
<1>7. DOMAIN scenarios' = Sids /\ scenarios'[n] = d /\ \A x \in Sids \ {n} : scenarios'[x] = scenarios[x]
  BY <1>4, <1>5
<1>8. Tables'
  <2>1. \A y : Past(y) => Past(y)'
    BY <1>2 DEF Past
  <2>2. ASSUME NEW x \in Sids, scenarios'[x] # None PROVE x <= lastScenario' /\ Past(scenarios[x])'
    <3>1. CASE x = n
      <4>1. n \in Int
        BY <1>4 DEF Sids
      <4> QED BY <1>4, <1>6, <1>7, <3>1, <4>1 DEF Past, d
    <3>2. CASE x # n
      <4>1. scenarios'[x] = scenarios[x]
        BY <1>7, <3>2
      <4> PICK y : y = scenarios[x]
        OBVIOUS
      <4>2. x <= lastScenario /\ Past(y)
        BY <2>2, <4>1 DEF TInv, Tables
      <4>3. Past(y)'
        BY <2>1, <4>2
      <4>4. x \in Int /\ n \in Int
        BY <1>4 DEF Sids
      <4>5. x <= n
        BY <1>3, <1>4, <4>2, <4>4
      <4> QED BY <1>4, <4>1, <4>3, <4>5
    <3> QED BY <3>1, <3>2
  <2>3. sample' # None => sample'.id \in Sids /\ Past(sample.doc)'
    <3> PICK z : z = sample.doc
      OBVIOUS
    <3>1. sample # None => Past(z)'
      BY <2>1 DEF TInv, Tables
    <3> QED BY <3>1 DEF TInv, Tables
  <2> QED BY <1>4, <1>7, <2>2, <2>3 DEF Tables
<1>9. Grows
  <2>1. Kept
    BY <1>2, SameTable DEF TInv, IInv
  <2>2. \A x \in Sids : x <= lastScenario => x # n
    BY <1>3 DEF Sids, n
  <2> QED BY <1>2, <1>4, <1>7, <1>8, <2>1, <2>2 DEF Grows
<1>10. flow'[c] = NoFlow
  BY <1>1, Advanced
<1>11. FlowTyped(c)' /\ FlowGoes(c)' /\ FlowAlone(c)'
  BY <1>10, NoFlowShape DEF FlowTyped, FlowGoes, FlowAlone
<1> QED BY <1>1, <1>2, <1>9, <1>11, FlowMoves

\* A start begins: its programs do not exist yet.
LEMMA StartTrafficScenarioOK ==
  ASSUME TInv, NEW c \in Handlers, NEW x \in Sids, StartTrafficScenario(c, x), UNCHANGED sample
  PROVE  TInv'
<1> PICK d : d = scenarios[x]
  OBVIOUS
<1> PICK R : R = Records
  OBVIOUS
<1> PICK a : a = Alone(c)
  OBVIOUS
<1> DEFINE g == [NoFlow EXCEPT !.pc = "server", !.op = "start", !.id = x, !.doc = d, !.before = R, !.alone = a]
<1>1. IInv /\ Advance(c, g) /\ UNCHANGED <<vars, scenarios, lastScenario>> /\ d # None /\ Free(c)
  BY DEF TInv, StartTrafficScenario
<1>2. /\ IInv' /\ UNCHANGED <<rows, lastId, call>>
      /\ \A e \in Handlers \ {c} : Calm(e)
  BY <1>1, StandStill
<1>3. Grows
  BY <1>1, <1>2, SameGrows
<1>4. x <= lastScenario /\ Past(d)
  BY <1>1 DEF TInv, Tables
<1>5. R \in SUBSET Ids /\ a \in BOOLEAN /\ d \in Scenario
  BY <1>4 DEF Records, Alone, Past
<1>6. /\ g \in Flow /\ g.pc = "server" /\ g.op = "start" /\ g.id = x /\ g.doc = d /\ g.before = R
      /\ g.alone = a /\ g.suspended = None
  BY <1>5 DEF NoFlow, Flow, FlowPcs
<1> HIDE DEF g
<1>7. flow'[c] = g /\ Records' = Records
  BY <1>1, <1>2, Advanced DEF Records
<1>8. Runs(g, call'[c])
  BY <1>1, <1>2, <1>6 DEF Runs, StartPcs, OffPcs, Free
<1>9. Removes(flow[c], call[c])'
  BY <1>6, <1>7 DEF Removes
<1>10. Settles(flow[c], call[c])'
  BY <1>1, <1>6, <1>7 DEF Settles, Created
<1> QED BY <1>1, <1>2, <1>3, <1>4, <1>6, <1>8, <1>9, <1>10, FlowBegins

\* The flow that a stop or a deletion of scenario x begins with.
Off(g, x, d, k, a) ==
  /\ g \in Flow /\ g.pc = "clientOff" /\ g.op \in {"stop", "delete"} /\ g.id = x /\ g.doc = d
  /\ g.suspended = k /\ g.alone = a

\* With it the flow of a stop or a deletion stands as the invariant says.
LEMMA OffBegins ==
  ASSUME TInv, NEW c \in Handlers, NEW x \in Sids, NEW k \in Call \cup {None}, NEW a \in BOOLEAN,
         NEW d, d = scenarios[x], NEW g, Off(g, x, d, k, a), Advance(c, g),
         a => Alone(c), k # None => Resumable(k),
         IInv', UNCHANGED <<rows, lastId, scenarios, lastScenario, sample>>, call'[c].pc = "idle",
         \A e \in Handlers \ {c} : Calm(e), d # None
  PROVE  TInv'
<1>1. Grows
  BY SameGrows
<1>2. x <= lastScenario /\ Past(d) /\ d \in Scenario
  BY DEF TInv, Tables, Past
<1>3. flow'[c] = g
  BY Advanced
<1>4. Runs(g, call'[c])
  BY DEF Off, Runs, StartPcs, OffPcs
<1>5. Removes(flow[c], call[c])'
  BY <1>3 DEF Off, Removes
<1>6. Settles(flow[c], call[c])'
  BY <1>3 DEF Off, Settles
<1>7. g.suspended # None => Resumable(flow[c].suspended)'
  <2>1. k # None => Resumable(k)'
    BY <1>1, Later
  <2> QED BY <1>3, <2>1 DEF Off
<1> QED BY <1>1, <1>2, <1>4, <1>5, <1>6, <1>7, FlowBegins DEF Off

\* Both requests.
LEMMA OffRequestOK ==
  ASSUME TInv, NEW c \in Handlers, NEW x \in Sids, UNCHANGED sample,
         StopTrafficScenario(c, x) \/ DeleteTrafficScenario(c, x)
  PROVE  TInv'
<1> PICK d : d = scenarios[x]
  OBVIOUS
<1> PICK a : a = Alone(c)
  OBVIOUS
<1>1. IInv /\ UNCHANGED <<vars, scenarios, lastScenario>> /\ d # None /\ Free(c)
  BY DEF TInv, StopTrafficScenario, DeleteTrafficScenario
<1>2. /\ IInv' /\ UNCHANGED <<rows, lastId, call>>
      /\ \A e \in Handlers \ {c} : Calm(e)
  BY <1>1, StandStill
<1>3. a \in BOOLEAN /\ (a => Alone(c)) /\ d \in Scenario
  BY <1>1 DEF Alone, TInv, Tables, Past
<1>4. PICK g : Advance(c, g) /\ Off(g, x, d, None, a)
  <2>1. \E op \in {"stop", "delete"} :
          Advance(c, [NoFlow EXCEPT !.pc = "clientOff", !.op = op, !.id = x, !.doc = d, !.alone = a])
    BY DEF StopTrafficScenario, DeleteTrafficScenario
  <2>2. \A op \in {"stop", "delete"} :
          Off([NoFlow EXCEPT !.pc = "clientOff", !.op = op, !.id = x, !.doc = d, !.alone = a], x, d, None, a)
    BY <1>3 DEF Off, NoFlow, Flow, FlowPcs
  <2> QED BY <2>1, <2>2
<1>5. call'[c].pc = "idle"
  BY <1>1, <1>2 DEF Free
<1> QED BY <1>1, <1>2, <1>3, <1>4, <1>5, OffBegins

\* An apply that removes an endpoint's server deletes the scenario first.
LEMMA PruneScenarioOK ==
  ASSUME TInv, NEW c \in Handlers, NEW x \in Sids, PruneScenario(c, x), UNCHANGED sample
  PROVE  TInv'
<1> PICK d : d = scenarios[x]
  OBVIOUS
<1> PICK k : k = call[c]
  OBVIOUS
<1>1. /\ IInv /\ TypeOK /\ InStep(c) /\ Held(c) /\ k \in Call /\ k.pc = "scan" /\ d # None
      /\ UNCHANGED <<nodes, base, packages, rows, lastId, agents, scenarios, lastScenario>>
      /\ call' = [call EXCEPT ![c] = Idle]
  BY DEF TInv, IInv, Calls, Documents, TypeOK, PruneScenario
<1>2. k.op = "apply"
  BY <1>1, OpOfPc
<1>3. Resumable(k)
  BY <1>1, <1>2 DEF Resumable, Held
<1>4. call' \in [Handlers -> Call] /\ call'[c] = Idle /\ \A e \in Handlers \ {c} : call'[e] = call[e]
  BY <1>1, IdleShape, Written
<1>5. Idle.pc = "idle" /\ Idle.op = "list" /\ Idle.doc = None /\ Idle.read = {} /\ Idle.todo = <<>>
  BY IdleShape
<1>6. IInv'
  <2>1. TypeOK'
    BY <1>1, <1>4 DEF TypeOK
  <2>2. InStep(c)' /\ ~Active(c)'
    BY <1>4, <1>5 DEF InStep, PcsOf, Active
  <2>3. Held(c)'
    BY <1>4, <1>5, EmptySet, FS_EmptySet, NoneAssumption DEF Held
  <2>4. call'[c].pc # "insert" /\ Active(c)
    BY <1>1, <1>4, <1>5 DEF Active
  <2> QED BY <1>1, <1>4, <2>1, <2>2, <2>3, <2>4, QuietStep
<1>7. d \in Scenario
  BY <1>1 DEF TInv, Tables, Past
<1> DEFINE g == [NoFlow EXCEPT !.pc = "clientOff", !.op = "delete", !.id = x, !.doc = d,
                               !.suspended = k, !.alone = FALSE]
<1>8. Advance(c, g)
  BY DEF PruneScenario
<1>9. Off(g, x, d, k, FALSE)
  BY <1>1, <1>7 DEF Off, NoFlow, Flow, FlowPcs
<1> HIDE DEF g
<1>10. \A e \in Handlers \ {c} : Calm(e)
  BY <1>4 DEF Calm
<1> QED BY <1>1, <1>3, <1>4, <1>5, <1>6, <1>8, <1>9, <1>10, OffBegins

\* An apply goes on where a deletion interrupted it, or ends there.
LEMMA ResumeKeeps ==
  ASSUME IInv, NEW c \in Handlers, NEW r \in Call, Begin(c, r),
         r.op = "apply", r.pc = "scan" \/ (r.pc = "done" /\ ~r.ok),
         r.doc \in Doc /\ r.doc.id # 0 => Tracks(r.doc),
         IsFiniteSet(r.read), \A d \in r.read : Tracks(d), \A d \in ToSet(r.todo) : Tracks(d),
         UNCHANGED <<nodes, base, packages, rows, lastId, agents>>
  PROVE  IInv'
<1> DEFINE x == call'[c]
<1>1. /\ call' \in [Handlers -> Call]
      /\ x.pc = r.pc /\ x.op = r.op /\ x.doc = r.doc /\ x.read = r.read /\ x.todo = r.todo
      /\ x.ok = r.ok
      /\ x.alone => \A d \in Handlers \ {c} : ~Active(d)
  BY BeginMoves DEF IInv
<1>2. ASSUME NEW d \in Handlers \ {c}
      PROVE  /\ call'[d].pc = call[d].pc /\ call'[d].op = call[d].op /\ call'[d].doc = call[d].doc
             /\ call'[d].read = call[d].read /\ call'[d].todo = call[d].todo
             /\ call'[d].pc # "idle" => ~call'[d].alone
  BY BeginMoves DEF IInv
<1> HIDE DEF x
<1>3. TypeOK'
  BY <1>1 DEF IInv, TypeOK
<1>4. Kept /\ OneRecordPerServer' /\ \A z : Tracks(z) => Tracks(z)'
  BY <1>3, SameTable, KeptUnique, KeptTracks DEF IInv
<1>5. ASSUME NEW d \in Handlers PROVE InStep(d)' /\ Held(d)'
  <2>1. CASE d = c
    <3>1. InStep(c)'
      BY <1>1 DEF InStep, PcsOf, x
    <3>2. r.doc \in Doc /\ r.doc.id # 0 => Tracks(r.doc)'
      BY <1>4
    <3>3. Held(c)'
      BY <1>1, <1>4, <3>2 DEF Held, x
    <3> QED BY <2>1, <3>1, <3>3
  <2>2. CASE d # c
    <3>1. InStep(d) /\ Held(d)
      BY DEF IInv, Calls, Documents
    <3>2. InStep(d)'
      BY <1>2, <2>2, <3>1 DEF InStep
    <3>3. Held(d)'
      BY <1>2, <1>4, <2>2, <3>1 DEF Held
    <3> QED BY <3>2, <3>3
  <2> QED BY <2>1, <2>2
<1>6. Room'
  <2>1. IsFiniteSet(Inserting)
    BY FS_Subset, ProgramsAssumptions DEF ProgramsAssumptions, Inserting
  <2>2. lastId \in Nat /\ MaxId \in Nat /\ Cardinality(Inserting) \in Nat /\ lastId + Cardinality(Inserting) <= MaxId
    BY <2>1, FS_CardinalityType, ProgramsAssumptions DEF ProgramsAssumptions, IInv, TypeOK, Room
  <2>3. Inserting' \subseteq Inserting
    BY <1>1, <1>2 DEF Inserting, x
  <2>4. Cardinality(Inserting') <= Cardinality(Inserting) /\ Cardinality(Inserting') \in Nat
    BY <2>1, <2>3, FS_Subset, FS_CardinalityType
  <2> QED BY <2>2, <2>4 DEF Room
<1>7. ASSUME NEW d \in Handlers PROVE AloneOK(d)'
  <2>1. CASE d = c
    <3>1. x.alone => \A e \in Handlers \ {c} : ~Active(e)'
      BY <1>1, <1>2 DEF Active
    <3>2. PlanDone(call[c])'
      BY <1>1 DEF PlanDone, Swept, Restoring, x
    <3> QED BY <1>1, <2>1, <3>1, <3>2 DEF AloneOK, Achieved, x
  <2>2. CASE d # c
    BY <1>2, <2>2 DEF AloneOK, Active
  <2> QED BY <2>1, <2>2
<1> QED BY <1>3, <1>4, <1>5, <1>6, <1>7 DEF IInv, Calls, Documents, Serial

\* A flow ends with a reply, or with the return to the apply.
LEMMA FlowReturnsOK ==
  ASSUME TInv, NEW c \in Handlers, FlowReturns(c), UNCHANGED sample PROVE TInv'
<1> PICK k : k = flow[c].suspended
  OBVIOUS
<1> PICK ok : ok = flow[c].ok
  OBVIOUS
<1>1. /\ IInv /\ FlowTyped(c) /\ Advance(c, NoFlow)
      /\ UNCHANGED <<nodes, base, packages, rows, lastId, agents, scenarios, lastScenario>>
  BY DEF TInv, Flows, FlowReturns
<1>2. IInv' /\ \A e \in Handlers \ {c} : Calm(e)
  <2>1. CASE k = None
    <3>1. UNCHANGED vars
      BY <1>1, <2>1 DEF FlowReturns, vars
    <3> QED BY <1>1, <3>1, StandStill
  <2>2. CASE k # None
    <3> DEFINE r == IF ok THEN k ELSE [k EXCEPT !.pc = "done", !.ok = FALSE]
    <3>1. Begin(c, r)
      BY <2>2 DEF FlowReturns
    <3>2. Resumable(k)
      BY <1>1, <2>2 DEF FlowTyped
    <3>3. /\ r \in Call /\ r.op = "apply" /\ (r.pc = "scan" \/ (r.pc = "done" /\ ~r.ok))
          /\ r.doc = k.doc /\ r.read = k.read /\ r.todo = k.todo
      BY <3>2 DEF Resumable, Call, Pcs
    <3> HIDE DEF r
    <3>4. IInv'
      BY <1>1, <3>1, <3>2, <3>3, ResumeKeeps DEF Resumable
    <3> QED BY <1>1, <3>1, <3>4, BeginCalm DEF IInv
  <2> QED BY <2>1, <2>2
<1>3. Grows
  BY <1>1, <1>2, SameGrows
<1>4. flow'[c] = NoFlow
  BY <1>1, Advanced
<1>5. FlowTyped(c)' /\ FlowGoes(c)' /\ FlowAlone(c)'
  BY <1>4, NoFlowShape DEF FlowTyped, FlowGoes, FlowAlone
<1> QED BY <1>1, <1>2, <1>3, <1>5, FlowMoves

----------------------------------------------------------------------------
(* Steps of the program operations *)

\* A program operation that no flow waits for.
LEMMA IdleFlowStep ==
  ASSUME TInv, NEW c \in Handlers, flow[c].pc = "idle", Advance(c, flow[c]), Grows,
         \A e \in Handlers \ {c} : Calm(e)
  PROVE  TInv'
<1>1. flow'[c] = flow[c] /\ FlowTyped(c)
  BY Advanced DEF TInv, Flows
<1> PICK k : k = flow[c].suspended
  OBVIOUS
<1>2. k # None => Resumable(k)'
  BY <1>1, Later DEF FlowTyped
<1>3. FlowTyped(c)'
  BY <1>1, <1>2 DEF FlowTyped
<1>4. FlowGoes(c)' /\ FlowAlone(c)'
  BY <1>1 DEF FlowGoes, FlowAlone
<1> QED BY <1>3, <1>4, FlowMoves

\* The tables of the scenarios are left alone.
LEMMA ProgramGrows ==
  ASSUME TInv, IInv', Kept, UNCHANGED <<scenarios, lastScenario, sample>>
  PROVE  Grows
<1>1. lastId \in Int /\ lastId' \in Int /\ lastId <= lastId'
  BY DEF TInv, IInv, TypeOK, Kept
<1>2. ASSUME NEW d, Past(d) PROVE Past(d)'
  <2>1. d \in Scenario /\ d.server \in Int /\ d.client \in Int /\ d.server <= lastId /\ d.client <= lastId
    BY <1>2 DEF Past, Scenario, Ids
  <2> QED BY <1>1, <2>1 DEF Past
<1>3. \A x \in Sids : scenarios'[x] # None => Past(scenarios[x])'
  <2>1. ASSUME NEW x \in Sids, scenarios'[x] # None PROVE Past(scenarios[x])'
    <3> PICK y : y = scenarios[x]
      OBVIOUS
    <3>1. Past(y)'
      BY <1>2, <2>1 DEF TInv, Tables
    <3> QED BY <3>1
  <2> QED BY <2>1
<1>4. sample' # None => Past(sample.doc)'
  <2> PICK y : y = sample.doc
    OBVIOUS
  <2>1. sample # None => Past(y)'
    BY <1>2 DEF TInv, Tables
  <2> QED BY <2>1
<1>5. Tables'
  BY <1>3, <1>4 DEF TInv, Tables
<1>6. lastScenario <= lastScenario'
  BY DEF TInv, Tables
<1> QED BY <1>5, <1>6 DEF Grows

\* A request of another client.
LEMMA ProgramRequestOK ==
  ASSUME TInv, NEW c \in Handlers, ProgramRequest(c), Advance(c, flow[c]),
         UNCHANGED <<scenarios, lastScenario, sample>>
  PROVE  TInv'
<1>1. IInv /\ flow[c].pc = "idle"
  BY DEF TInv, ProgramRequest, Free
<1>2. IInv' /\ UNCHANGED <<rows, lastId>> /\ \A e \in Handlers \ {c} : Calm(e)
  <2>1. ASSUME NEW i \in Ids, DeleteProgram(c, i)
        PROVE  IInv' /\ UNCHANGED <<rows, lastId>> /\ \A e \in Handlers \ {c} : Calm(e)
    <3>1. i \in Records
      BY <2>1 DEF DeleteProgram
    <3> QED BY <1>1, <2>1, <3>1, DeleteBegins
  <2>2. ASSUME NEW want \in SUBSET Servers, ApplyPlan(c, want)
        PROVE  IInv' /\ UNCHANGED <<rows, lastId>> /\ \A e \in Handlers \ {c} : Calm(e)
    <3>1. UNCHANGED <<rows, lastId>> /\ \E r : Begin(c, r)
      BY <2>2 DEF ApplyPlan
    <3> QED BY <1>1, <2>2, <3>1, ApplyPlanOK, BeginCalm DEF IInv
  <2> QED BY <2>1, <2>2 DEF ProgramRequest
<1>3. Grows
  BY <1>2, SameGrows
<1> QED BY <1>1, <1>2, <1>3, IdleFlowStep

\* A step of the operation that a flow waits for.
LEMMA FlowHandlerStep ==
  ASSUME TInv, NEW c \in Handlers, HandlerStep(c), Advance(c, flow[c]), flow[c].pc # "idle",
         UNCHANGED <<scenarios, lastScenario, sample>>
  PROVE  TInv'
<1> PICK f : f = flow[c]
  OBVIOUS
<1> PICK k : k = call[c]
  OBVIOUS
<1>1. IInv /\ f \in Flow /\ FlowTyped(c) /\ FlowGoes(c) /\ f.pc # "idle"
  BY DEF TInv, Flows, FlowTyped
<1>2. IInv' /\ Kept
  BY <1>1, HandlerStepOK, HandlerKept
<1>3. k.pc \notin {"idle", "done"} /\ call'[c].op = k.op /\ \A e \in Handlers \ {c} : Calm(e)
  BY <1>1, HandlerMoves DEF Calm
<1>4. Grows
  BY <1>2, ProgramGrows
<1>5. flow'[c] = f
  BY Advanced
<1>6. Runs(f, k) /\ Removes(f, k) /\ Past(f.doc)
  BY <1>1 DEF FlowGoes, FlowTyped
<1>7. Past(flow[c].doc)'
  <2>1. Past(f.doc)'
    BY <1>4, <1>6, Later
  <2> QED BY <1>5, <2>1
<1>8. f.pc \in {"serverDone", "clientDone", "rolledBack", "serverOff", "erase"}
  BY <1>1, <1>3, <1>6 DEF Runs, Flow, FlowPcs
<1>9. Runs(f, call'[c])
  BY <1>3, <1>6, <1>8 DEF Runs
<1>10. /\ f.doc.server \notin Records => f.doc.server \notin Records'
       /\ f.doc.client \notin Records => f.doc.client \notin Records'
  BY <1>4, <1>6, Later DEF Past
<1>11. ASSUME k.pc \in {"remove", "delete"}
       PROVE  \/ call'[c].pc = "delete" /\ call'[c].doc = k.doc /\ Records' = Records
              \/ call'[c].pc = "done" /\ Records' = Records \ {k.doc.id}
  <2>1. \/ call'[c].pc = "delete" /\ call'[c].doc = k.doc /\ UNCHANGED rows
        \/ call'[c].pc = "done" /\ Records' = Records \ {k.doc.id}
    BY <1>1, <1>11, DeleteCall
  <2> QED BY <2>1 DEF Records
<1>12. ASSUME NEW i, Erased(k, i)
       PROVE  \/ call'[c].pc = "delete" /\ call'[c].doc.id = i /\ Records' = Records
              \/ call'[c].pc = "done" /\ Records' = Records \ {i}
  <2>1. k.pc \in {"remove", "delete"} /\ k.doc.id = i
    BY <1>3, <1>12 DEF Erased
  <2> QED BY <1>11, <2>1
<1>13. /\ f.pc = "rolledBack" => Erased(call[c], f.doc.server)'
       /\ f.pc = "serverOff" /\ f.op = "delete" => Erased(call[c], f.doc.client)'
       /\ f.pc = "erase" /\ f.op = "delete" => Erased(call[c], f.doc.server)'
  BY <1>6, <1>12 DEF Removes, Erased
<1>14. Removes(flow[c], call[c])'
  BY <1>5, <1>6, <1>8, <1>10, <1>13 DEF Removes
<1>15. Settles(flow[c], call[c]) => Settles(flow[c], call[c])'
  <2> SUFFICES ASSUME Settles(flow[c], call[c]) PROVE Settles(flow[c], call[c])'
    OBVIOUS
  <2>1. scenarios'[f.id] # None
    BY <1>8 DEF Settles
  <2>2. CASE f.op # "start"
    BY <1>5, <1>8, <2>1, <2>2 DEF Settles
  <2>3. CASE f.op = "start"
    <3>1. Created(f, k)
      BY <2>3 DEF Settles
    <3> DEFINE one == f.before \cup {f.doc.server}
    <3>2. CASE f.pc = "serverDone"
      <4>1. Creates(call[c], f.before) /\ call[c].op = "create"
        BY <1>6, <3>1, <3>2 DEF Created, Runs
      <4>2. Creates(call[c], f.before)'
        BY <1>1, <4>1, CreateCall
      <4>3. Created(flow[c], call[c])'
        BY <1>5, <3>2, <4>2 DEF Created
      <4> QED BY <1>5, <2>1, <2>3, <3>2, <4>3 DEF Settles
    <3>3. CASE f.pc = "clientDone"
      <4>1. Creates(call[c], one) /\ call[c].op = "create" /\ f.doc.server \in Ids \ f.before
        BY <1>6, <3>1, <3>3 DEF Created, Runs
      <4>2. Creates(call[c], one)'
        BY <1>1, <4>1, CreateCall
      <4>3. Created(flow[c], call[c])'
        BY <1>5, <3>3, <4>1, <4>2 DEF Created
      <4> QED BY <1>5, <2>1, <2>3, <3>3, <4>3 DEF Settles
    <3>4. CASE f.pc = "rolledBack"
      <4>1. Erased(k, f.doc.server)
        BY <1>6, <3>4 DEF Removes
      <4>2. k.pc \in {"remove", "delete"}
        BY <1>3, <4>1 DEF Erased
      <4>3. f.doc.server \in Ids \ f.before /\ Records = one
        BY <3>1, <3>4, <4>2 DEF Created
      <4>4. \/ call'[c].pc = "delete" /\ Records' = one
            \/ call'[c].pc = "done" /\ Records' = f.before
        <5>1. \/ call'[c].pc = "delete" /\ Records' = Records
              \/ call'[c].pc = "done" /\ Records' = Records \ {f.doc.server}
          BY <1>12, <4>1
        <5>2. Records \ {f.doc.server} = f.before
          BY <4>3
        <5> QED BY <4>3, <5>1, <5>2
      <4>5. Created(flow[c], call[c])'
        BY <1>5, <3>4, <4>3, <4>4 DEF Created
      <4> QED BY <1>5, <2>1, <2>3, <3>4, <4>5 DEF Settles
    <3>5. f.pc \notin {"serverOff", "erase"}
      BY <1>6, <2>3 DEF Runs, OffPcs
    <3> QED BY <1>8, <3>2, <3>3, <3>4, <3>5
  <2> QED BY <2>2, <2>3
<1> QED BY <1>1, <1>3, <1>4, <1>7, <1>9, <1>14, <1>15, FlowGoesOn

\* A step of a program operation, or its reply.
LEMMA ProgramStepOK ==
  ASSUME TInv, NEW c \in Handlers, ProgramStep(c), Advance(c, flow[c]),
         UNCHANGED <<scenarios, lastScenario, sample>>
  PROVE  TInv'
<1>1. IInv
  BY DEF TInv
<1>2. CASE flow[c].pc = "idle" /\ Reply(c)
  <2>1. IInv' /\ UNCHANGED <<rows, lastId>> /\ \A e \in Handlers \ {c} : Calm(e)
    BY <1>1, <1>2, ReplyEnds
  <2>2. Grows
    BY <2>1, SameGrows
  <2> QED BY <1>2, <2>1, <2>2, IdleFlowStep
<1>3. CASE HandlerStep(c) /\ flow[c].pc = "idle"
  <2>1. IInv' /\ Kept /\ \A e \in Handlers \ {c} : Calm(e)
    BY <1>1, <1>3, HandlerStepOK, HandlerKept, HandlerMoves DEF Calm
  <2>2. Grows
    BY <2>1, ProgramGrows
  <2> QED BY <1>3, <2>1, <2>2, IdleFlowStep
<1>4. CASE HandlerStep(c) /\ flow[c].pc # "idle"
  BY <1>4, FlowHandlerStep
<1> QED BY <1>2, <1>3, <1>4 DEF ProgramStep

----------------------------------------------------------------------------
(* The collector, and the death of the controller *)

\* The collector reads a scenario's document, and overlaps every flow.
LEMMA SampleScenarioOK ==
  ASSUME TInv, NEW x \in Sids, SampleScenario(x) PROVE TInv'
<1>1. /\ IInv /\ UNCHANGED <<vars, scenarios, lastScenario>> /\ scenarios[x] # None
      /\ sample' = [id |-> x, doc |-> scenarios[x]]
      /\ flow' = [c \in Handlers |-> IF flow[c].pc = "idle" THEN flow[c] ELSE [flow[c] EXCEPT !.alone = FALSE]]
  BY DEF TInv, SampleScenario
<1>2. IInv' /\ UNCHANGED <<rows, lastId>> /\ \A e \in Handlers : Calm(e)
  BY <1>1, StandStill
<1> PICK d : d = scenarios[x]
  OBVIOUS
<1>3. Past(d)
  BY <1>1 DEF TInv, Tables
<1>4. Grows
  <2>1. Kept
    BY <1>2, SameTable DEF TInv, IInv
  <2>2. \A y : Past(y) => Past(y)'
    BY <1>2 DEF Past
  <2>3. sample'.id \in Sids /\ sample'.doc = d
    BY <1>1
  <2>4. Past(d)'
    BY <1>3, <2>2
  <2>5. Past(sample.doc)'
    BY <2>3, <2>4
  <2>6. \A y \in Sids : scenarios'[y] # None => Past(scenarios[y])'
    <3>1. ASSUME NEW y \in Sids, scenarios'[y] # None PROVE Past(scenarios[y])'
      <4> PICK z : z = scenarios[y]
        OBVIOUS
      <4>1. Past(z)'
        BY <1>1, <2>2, <3>1 DEF TInv, Tables
      <4> QED BY <1>1, <4>1
    <3> QED BY <3>1
  <2>7. Tables'
    BY <1>1, <2>3, <2>5, <2>6 DEF TInv, Tables
  <2>8. lastScenario <= lastScenario'
    BY <1>1 DEF TInv, Tables
  <2> QED BY <1>1, <1>2, <2>1, <2>7, <2>8 DEF Grows
<1>5. ASSUME NEW c \in Handlers PROVE FlowTyped(c)' /\ FlowGoes(c)' /\ FlowAlone(c)'
  <2>1. flow'[c] = IF flow[c].pc = "idle" THEN flow[c] ELSE [flow[c] EXCEPT !.alone = FALSE]
    BY <1>1
  <2>2. flow[c] \in Flow
    BY DEF TInv, Flows, FlowTyped
  <2>3. flow'[c].pc # "idle" => ~flow'[c].alone
    BY <2>1, <2>2 DEF Flow
  <2> QED BY <1>2, <1>4, <2>1, <2>3, StandingFlow
<1> QED BY <1>1, <1>4, <1>5 DEF TInv, Flows, Grows

\* It stores the document it read, where the scenario still exists.
LEMMA StoreSampleOK ==
  ASSUME TInv, StoreSample PROVE TInv'
<1> PICK s : s = sample
  OBVIOUS
<1>1. /\ IInv /\ UNCHANGED <<vars, lastScenario, flow>> /\ s # None /\ sample' = None
      /\ \/ UNCHANGED scenarios
         \/ scenarios' = IF scenarios[s.id] = None THEN scenarios ELSE [scenarios EXCEPT ![s.id] = s.doc]
  BY DEF TInv, StoreSample
<1>2. IInv' /\ UNCHANGED <<rows, lastId>> /\ \A e \in Handlers : Calm(e)
  BY <1>1, StandStill
<1>3. s.id \in Sids /\ Past(s.doc)
  BY <1>1 DEF TInv, Tables
<1>4. /\ DOMAIN scenarios' = Sids
      /\ \A y \in Sids : \/ scenarios'[y] = scenarios[y]
                         \/ scenarios[y] # None /\ scenarios'[y] = s.doc
  BY <1>1, <1>3 DEF TInv, Tables
<1>5. \A y : Past(y) => Past(y)'
  BY <1>2 DEF Past
<1>6. \A y \in Sids : scenarios'[y] # None => y <= lastScenario /\ Past(scenarios[y])'
  <2>1. ASSUME NEW y \in Sids, scenarios'[y] # None PROVE y <= lastScenario /\ Past(scenarios[y])'
    <3> PICK z : z = scenarios'[y]
      OBVIOUS
    <3>1. Past(z) /\ y <= lastScenario
      BY <1>3, <1>4, <2>1 DEF TInv, Tables
    <3>2. Past(z)'
      BY <1>5, <3>1
    <3> QED BY <3>1, <3>2
  <2> QED BY <2>1
<1>7. Grows
  <2>1. Kept
    BY <1>2, SameTable DEF TInv, IInv
  <2>2. Tables'
    BY <1>1, <1>4, <1>6 DEF TInv, Tables
  <2>3. lastScenario <= lastScenario'
    BY <1>1 DEF TInv, Tables
  <2> QED BY <1>2, <1>4, <2>1, <2>2, <2>3 DEF Grows
<1>8. ASSUME NEW c \in Handlers PROVE FlowTyped(c)' /\ FlowGoes(c)' /\ FlowAlone(c)'
  <2>1. FlowTyped(c) /\ FlowGoes(c) /\ FlowAlone(c) /\ flow'[c] = flow[c]
    BY <1>1 DEF TInv, Flows
  <2>2. flow[c].pc # "idle" => ~flow[c].alone
    BY <1>1, <2>1 DEF FlowAlone
  <2> QED BY <1>1, <1>2, <1>7, <2>1, <2>2, StandingFlow
<1> QED BY <1>1, <1>7, <1>8 DEF TInv, Flows, Grows

\* The controller dies: no flow survives, and the tables do.
LEMMA TrafficCrashOK ==
  ASSUME TInv, TrafficCrash PROVE TInv'
<1>1. /\ IInv /\ Crash /\ flow' = [c \in Handlers |-> NoFlow] /\ sample' = None
      /\ UNCHANGED <<scenarios, lastScenario>>
  BY DEF TInv, TrafficCrash
<1>2. IInv' /\ UNCHANGED <<rows, lastId>>
  BY <1>1, CrashOK DEF Crash
<1>3. Tables'
  <2>1. \A d : Past(d) => Past(d)'
    BY <1>2 DEF Past
  <2> QED BY <1>1, <2>1 DEF TInv, Tables
<1>4. ASSUME NEW c \in Handlers PROVE FlowTyped(c)' /\ FlowGoes(c)' /\ FlowAlone(c)'
  BY <1>1, NoFlowShape DEF FlowTyped, FlowGoes, FlowAlone
<1> QED BY <1>1, <1>2, <1>3, <1>4 DEF TInv, Flows

----------------------------------------------------------------------------
(* The theorems about traffic scenarios *)

\* The initial state satisfies the invariant.
LEMMA TrafficInitOK == TrafficInit => TInv
<1> SUFFICES ASSUME TrafficInit PROVE TInv
  OBVIOUS
<1> DEFINE r == [name |-> ClientName, server |-> Source, version |-> Trafficgen, desired |-> "Stopped"]
<1>1. MaxId \in Nat /\ MaxId # 0 /\ 1 \in Ids /\ 1 \in 0 .. MaxId /\ MaxScenario \in Nat
  BY ProgramsAssumptions, TrafficAssumptions DEF ProgramsAssumptions, TrafficAssumptions, Ids
<1>2. r \in Row
  BY TrafficAssumptions DEF TrafficAssumptions, Row
<1> HIDE DEF r
<1>3. rows = [[i \in Ids |-> None] EXCEPT ![1] = r] /\ lastId = 1
  BY DEF TrafficInit, r
<1>4. rows \in [Ids -> Row \cup {None}] /\ rows[1] = r /\ \A i \in Ids : i # 1 => rows[i] = None
  BY <1>1, <1>2, <1>3
<1>5. call \in [Handlers -> Call] /\ \A c \in Handlers : call[c] = Idle
  BY IdleShape DEF TrafficInit
<1>6. agents \in [Servers -> Agent \cup {None}]
  <2>1. Fresh \in Agent
    BY DEF Fresh, Agent
  <2> QED BY <2>1 DEF TrafficInit
<1>7. TypeOK
  <2>1. \A i \in Ids : i > lastId => rows[i] = None
    BY <1>3, <1>4
  <2> QED BY <1>1, <1>3, <1>4, <1>5, <1>6, <2>1 DEF TypeOK, TrafficInit
<1>8. OneRecordPerServer
  BY <1>4 DEF OneRecordPerServer, Records
<1>9. \A c \in Handlers : InStep(c) /\ Held(c) /\ AloneOK(c)
  BY <1>5, IdleHolds DEF AloneOK
<1>10. Room
  <2>1. Inserting = {}
    BY <1>5, IdleShape DEF Inserting
  <2>2. Cardinality(Inserting) = 0
    BY <2>1, FS_EmptySet
  <2> QED BY <1>1, <1>3, <2>2 DEF Room
<1>11. Tables
  BY <1>1 DEF TrafficInit, Tables
<1>12. Flows
  <2>1. DOMAIN flow = Handlers /\ \A c \in Handlers : flow[c] = NoFlow
    BY DEF TrafficInit
  <2> QED BY <2>1, NoFlowHolds DEF Flows
<1> QED BY <1>7, <1>8, <1>9, <1>10, <1>11, <1>12 DEF TInv, IInv, Calls, Documents, Serial

\* A step of a flow keeps it.
LEMMA FlowStepOK ==
  ASSUME TInv, NEW c \in Handlers, FlowStep(c), UNCHANGED sample PROVE TInv'
  BY StartServerRoleOK, ServerRoleDoneOK, StartClientRoleOK, ClientRoleDoneOK, RollbackOK, RolledBackOK,
     UpdateScenarioOK, ClientOffOK, ProgramOffDoneOK, ServerOffOK, EraseScenarioOK, FlowReturnsOK DEF FlowStep

\* A request on a scenario keeps it.
LEMMA ScenarioRequestOK ==
  ASSUME TInv, NEW c \in Handlers, ScenarioRequest(c), UNCHANGED sample PROVE TInv'
  BY CreateTrafficScenarioOK, StartTrafficScenarioOK, OffRequestOK, PruneScenarioOK DEF ScenarioRequest

\* Every step keeps it.
LEMMA TrafficNextOK == TInv /\ [TrafficNext]_tvars => TInv'
<1> SUFFICES ASSUME TInv, [TrafficNext]_tvars PROVE TInv'
  OBVIOUS
<1>1. ASSUME NEW c \in Handlers, ScenarioRequest(c) \/ FlowStep(c), UNCHANGED sample PROVE TInv'
  BY <1>1, ScenarioRequestOK, FlowStepOK
<1>2. ASSUME NEW c \in Handlers, ProgramRequest(c) \/ ProgramStep(c), Advance(c, flow[c]),
             UNCHANGED <<scenarios, lastScenario, sample>>
      PROVE  TInv'
  BY <1>2, ProgramRequestOK, ProgramStepOK
<1>3. ASSUME NEW x \in Sids, SampleScenario(x) PROVE TInv'
  BY <1>3, SampleScenarioOK
<1>4. CASE StoreSample
  BY <1>4, StoreSampleOK
<1>5. CASE TrafficCrash
  BY <1>5, TrafficCrashOK
<1>6. CASE UNCHANGED tvars
  <2>1. UNCHANGED <<vars, scenarios, lastScenario, flow, sample>>
    BY <1>6 DEF tvars
  <2>2. IInv' /\ UNCHANGED <<rows, lastId>> /\ \A e \in Handlers : Calm(e)
    BY <2>1, StandStill DEF TInv
  <2>3. Grows
    BY <2>1, <2>2, SameGrows
  <2>4. \A c \in Handlers : Free(c)' = Free(c)
    BY <2>1, <2>2 DEF Free, Calm
  <2>5. ASSUME NEW c \in Handlers PROVE FlowTyped(c)' /\ FlowGoes(c)' /\ FlowAlone(c)'
    <3>1. FlowTyped(c) /\ FlowGoes(c) /\ FlowAlone(c) /\ UNCHANGED <<call, rows, scenarios, flow, sample>>
      BY <2>1 DEF TInv, Flows, vars
    <3>2. Records' = Records
      BY <2>2 DEF Records
    <3>3. FlowTyped(c)' /\ FlowGoes(c)'
      BY <2>1, <2>2, <2>3, <3>1, StandingFlow
    <3>4. FlowAlone(c)'
      BY <2>4, <3>1, <3>2 DEF FlowAlone, Settles, Created, Creates
    <3> QED BY <3>3, <3>4
  <2> QED BY <2>1, <2>3, <2>5 DEF TInv, Flows, Grows
<1> QED BY <1>1, <1>2, <1>3, <1>4, <1>5, <1>6 DEF TrafficNext

\* Every reachable state satisfies the invariant.
LEMMA TrafficInductive == TrafficSpec => []TInv
  BY TrafficInitOK, TrafficNextOK, PTL DEF TrafficSpec

(***************************************************************************)
(* A start, stop or deletion of a scenario that overlaps no other handler  *)
(* and no sample of the collector is all or nothing, whatever calls of the *)
(* agents fail (StartTrafficScenario, StopTrafficScenario and              *)
(* DeleteTrafficScenario in traffic.go).                                   *)
(***************************************************************************)
THEOREM FlowSettles == TrafficSpec => []FlowIsAllOrNothing
<1>1. TInv => FlowIsAllOrNothing
  <2> SUFFICES ASSUME TInv, NEW c \in Handlers, flow[c].pc = "done" /\ flow[c].alone
               PROVE  LET f == flow[c]
                      IN /\ f.op = "start" /\ f.ok =>
                              /\ scenarios[f.id] = f.doc
                              /\ Records = f.before \cup {f.doc.server, f.doc.client}
                         /\ f.op = "start" /\ ~f.ok => Records = f.before
                         /\ f.op = "stop" => scenarios[f.id].phase = "Stopped"
                         /\ f.op = "delete" =>
                              f.ok /\ scenarios[f.id] = None /\ {f.doc.server, f.doc.client} \cap Records = {}
    BY DEF FlowIsAllOrNothing
  <2>1. Settles(flow[c], call[c]) /\ Removes(flow[c], call[c])
    BY DEF TInv, Flows, FlowAlone, FlowGoes
  <2> PICK f : f = flow[c]
    OBVIOUS
  <2>2. f.op = "start" => Created(f, call[c])
    BY <2>1 DEF Settles
  <2>3. f.op = "start" /\ f.ok => scenarios[f.id] = f.doc /\ Records = f.before \cup {f.doc.server, f.doc.client}
    BY <2>2 DEF Created
  <2>4. f.op = "start" /\ ~f.ok => Records = f.before
    BY <2>2 DEF Created
  <2> QED BY <2>1, <2>3, <2>4 DEF Settles, Removes
<1> QED BY <1>1, TrafficInductive, PTL

(***************************************************************************)
(* Among any other requests, a start that fails leaves no server program   *)
(* behind, unless the scenario was deleted under it, and no deletion ends  *)
(* before the programs it read are gone (startRole and the deletions of    *)
(* traffic.go).                                                            *)
(***************************************************************************)
THEOREM NothingLeftBehind == TrafficSpec => []NoProgramLeftBehind
<1>1. TInv => NoProgramLeftBehind
  <2> SUFFICES ASSUME TInv, NEW c \in Handlers, flow[c].pc = "done"
               PROVE  LET f == flow[c]
                      IN /\ f.op = "start" /\ ~f.ok /\ scenarios[f.id] # None
                              => f.doc.server \notin Records \ f.before
                         /\ f.op = "delete" => {f.doc.server, f.doc.client} \cap Records = {}
    BY DEF NoProgramLeftBehind
  <2>1. Removes(flow[c], call[c])
    BY DEF TInv, Flows, FlowGoes
  <2> QED BY <2>1 DEF Removes
<1> QED BY <1>1, TrafficInductive, PTL

=============================================================================
