---------------------------- MODULE LabPrograms ----------------------------
(***************************************************************************)
(* The programs of one lab (controller/internal/biz/program.go): the       *)
(* controller's program records and package versions, and the program      *)
(* definitions on the node-agents of the lab's servers.  Handlers create,  *)
(* start, stop, upgrade, delete and list programs, apply a plan (which     *)
(* deploys containers with fresh agents, prunes the records of removed     *)
(* servers and restores programs on new ones) and repair the lab.          *)
(*                                                                         *)
(* A handler takes no lock.  A step is one statement on the database or    *)
(* one call of an agent; a record is read whole, kept in the handler and   *)
(* written back whole.  A call of an agent may fail without effect, or     *)
(* take effect and still be reported as failed.  BatchProgramOp is a       *)
(* sequence of these operations by one handler.                            *)
(***************************************************************************)
EXTENDS Integers, FiniteSets, SequencesExt

CONSTANTS
  Servers,   \* the servers the lab's topologies draw from
  Names,     \* program names, numbered in (StartupOrder, name) order
  Versions,  \* versions of the package the programs run
  Oneshot,   \* names of the programs of type oneshot
  AutoStart, \* names of the programs that start at every boot
  Handlers,  \* API handlers that can be in flight at once
  Ops,       \* the operations that clients request
  MaxId,     \* bound: records ever created
  None       \* no record, container or definition

ASSUME ProgramsAssumptions ==
  /\ Names \subseteq Nat
  /\ Oneshot \subseteq Names /\ AutoStart \subseteq Names
  /\ MaxId \in Nat
  /\ IsFiniteSet(Handlers)

VARIABLES
  nodes,    \* the servers among the lab's node records
  base,     \* the servers of the deployed generation, None at generation 0
  packages, \* package versions in the controller's repository
  rows,     \* the programs table: id -> record
  lastId,   \* the last id handed out
  agents,   \* server -> definitions on its node-agent, None without container
  call      \* the handlers

vars == <<nodes, base, packages, rows, lastId, agents, call>>

----------------------------------------------------------------------------
(* State *)

Ids == 1 .. MaxId
Row == [name : Names, server : Servers, version : Versions, desired : {"Running", "Stopped"}]
Definition == [version : Versions, wanted : BOOLEAN, running : BOOLEAN]
Agent == [Names -> Definition \cup {None}]
Doc  == [id : Ids \cup {0}, row : Row]
Pcs  == {"idle", "insert", "install", "start", "stop", "store", "remove", "delete",
         "query", "refresh", "deploy", "scan", "prune", "list", "restore", "done"}
Call == [pc : Pcs, op : {"create", "start", "stop", "upgrade", "delete", "list", "apply", "repair"},
         doc : Doc \cup {None}, on : BOOLEAN, deployed : BOOLEAN,
         read : SUBSET Doc, todo : Seq(Doc),
         gone : SUBSET Servers, scope : SUBSET Servers, ok : BOOLEAN, alone : BOOLEAN]
Idle == [pc |-> "idle", op |-> "list", doc |-> None, on |-> FALSE, deployed |-> FALSE,
         read |-> {}, todo |-> <<>>, gone |-> {}, scope |-> {}, ok |-> FALSE, alone |-> TRUE]

ASSUME NoneAssumption ==
  None \notin Row /\ None \notin Definition /\ None \notin Agent /\ None \notin Doc

TypeOK ==
  /\ nodes \subseteq Servers /\ base \in (SUBSET Servers) \cup {None}
  /\ packages \subseteq Versions
  /\ rows \in [Ids -> Row \cup {None}]
  /\ lastId \in 0 .. MaxId
  /\ \A i \in Ids : i > lastId => rows[i] = None
  /\ agents \in [Servers -> Agent \cup {None}]
  /\ call \in [Handlers -> Call]

Init ==
  /\ nodes = {} /\ base = None
  /\ packages = Versions
  /\ rows = [i \in Ids |-> None]
  /\ lastId = 0
  /\ agents = [s \in Servers |-> None]
  /\ call = [c \in Handlers |-> Idle]

Fresh == [n \in Names |-> None]
Alive(s) == agents[s] # None
OnAgent(r) == IF Alive(r.server) THEN agents[r.server][r.name] ELSE None
Put(r, d) == [agents EXCEPT ![r.server] = [@ EXCEPT ![r.name] = d]]
Taken(n, s) == \E i \in Ids : rows[i] # None /\ rows[i].name = n /\ rows[i].server = s
Records == {i \in Ids : rows[i] # None}
DocOf(i) == [id |-> i, row |-> rows[i]]
DocsOn(servers) == {DocOf(i) : i \in {i \in Records : rows[i].server \in servers}}

\* The orders in which documents that were read together may be handled: by
\* (StartupOrder, name).  sort.Slice and ORDER BY leave ties in any order.
Listed(docs) ==
  {q \in [1 .. Cardinality(docs) -> docs] :
     /\ ToSet(q) = docs
     /\ \A j, k \in DOMAIN q : j < k => q[j].row.name <= q[k].row.name}

\* A handler begins: from now on it overlaps the ones in flight.
Begin(c, r) ==
  call' = [d \in Handlers |->
    IF d = c THEN [r EXCEPT !.alone = \A e \in Handlers \ {c} : call[e].pc = "idle"]
    ELSE IF call[d].pc = "idle" THEN call[d] ELSE [call[d] EXCEPT !.alone = FALSE]]

Goto(c, pc) == call' = [call EXCEPT ![c].pc = pc]
Finish(c, ok) == call' = [call EXCEPT ![c].pc = "done", ![c].ok = ok]

----------------------------------------------------------------------------
(* The first step of each operation: what it reads, and its early returns *)

CreateProgram(c, n, s, v, on) ==
  /\ "create" \in Ops /\ call[c].pc = "idle"
  /\ lastId + Cardinality({d \in Handlers : call[d].pc = "insert"}) < MaxId
  /\ LET row == [name |-> n, server |-> s, version |-> v,
                 desired |-> IF on /\ n \notin Oneshot THEN "Running" ELSE "Stopped"]
         refused == v \notin packages \/ s \notin nodes \/ Taken(n, s)
     IN Begin(c, [Idle EXCEPT !.op = "create", !.on = on, !.deployed = base # None,
                              !.doc = [id |-> 0, row |-> row],
                              !.pc = IF refused THEN "done" ELSE "insert"])
  /\ UNCHANGED <<nodes, base, packages, rows, lastId, agents>>

\* programAgent: the record, the deployed generation and the agent's address.
Addressable(i) == rows[i] # None /\ base # None /\ Alive(rows[i].server)

StartProgram(c, i) ==
  /\ "start" \in Ops /\ call[c].pc = "idle"
  /\ i \in Records
  /\ Begin(c, [Idle EXCEPT !.op = "start", !.doc = DocOf(i),
                           !.pc = IF Addressable(i) THEN "install" ELSE "done"])
  /\ UNCHANGED <<nodes, base, packages, rows, lastId, agents>>

StopProgram(c, i) ==
  /\ "stop" \in Ops /\ call[c].pc = "idle"
  /\ i \in Records
  /\ Begin(c, [Idle EXCEPT !.op = "stop", !.doc = DocOf(i),
                           !.pc = IF Addressable(i) THEN "stop" ELSE "done"])
  /\ UNCHANGED <<nodes, base, packages, rows, lastId, agents>>

\* The version the record already names is accepted without any effect.
UpgradeProgram(c, i, v) ==
  /\ "upgrade" \in Ops /\ call[c].pc = "idle"
  /\ i \in Records
  /\ rows[i].version # v
  /\ Begin(c, [Idle EXCEPT !.op = "upgrade",
                 !.doc = [DocOf(i) EXCEPT !.row.version = v],
                 !.pc = IF v \notin packages THEN "done"
                        ELSE IF base = None THEN "store"
                        ELSE IF Alive(rows[i].server) THEN "stop" ELSE "done"])
  /\ UNCHANGED <<nodes, base, packages, rows, lastId, agents>>

DeleteProgram(c, i) ==
  /\ "delete" \in Ops /\ call[c].pc = "idle"
  /\ i \in Records
  /\ Begin(c, [Idle EXCEPT !.op = "delete", !.doc = DocOf(i),
                           !.deployed = Addressable(i),
                           !.pc = IF Addressable(i) THEN "remove" ELSE "delete"])
  /\ UNCHANGED <<nodes, base, packages, rows, lastId, agents>>

ListPrograms(c) ==
  /\ "list" \in Ops /\ call[c].pc = "idle"
  /\ Records # {} /\ base # None
  /\ Begin(c, [Idle EXCEPT !.op = "list", !.pc = "query", !.read = DocsOn(Servers)])
  /\ UNCHANGED <<nodes, base, packages, rows, lastId, agents>>

\* Plans are applied one at a time, and not while the lab is repaired.
Changing == \E d \in Handlers : call[d].pc # "idle" /\ call[d].op \in {"apply", "repair"}

\* restoreScope: every server at generation 0, else the ones the plan adds.
ScopeOf(want) == IF base = None THEN want ELSE want \ base

ApplyPlan(c, want) ==
  /\ "apply" \in Ops /\ call[c].pc = "idle"
  /\ ~Changing
  /\ nodes' = want
  /\ Begin(c, [Idle EXCEPT !.op = "apply", !.pc = "deploy", !.gone = IF base = None THEN {} ELSE base \ want,
                           !.scope = ScopeOf(want)])
  /\ UNCHANGED <<base, packages, rows, lastId, agents>>

RepairLab(c) ==
  /\ "repair" \in Ops /\ call[c].pc = "idle"
  /\ ~Changing
  /\ base # None
  /\ Begin(c, [Idle EXCEPT !.op = "repair", !.pc = "deploy", !.scope = base])
  /\ UNCHANGED <<nodes, base, packages, rows, lastId, agents>>

----------------------------------------------------------------------------
(* Statements on the programs table *)

\* Mutant: nothing keeps two records of one name on one server apart.
NoConstraint(r) == FALSE

\* UNIQUE(lab_id, name, server_name).
Violates(r) == Taken(r.name, r.server)

InsertProgram(c) ==
  /\ call[c].pc = "insert"
  /\ LET r == call[c].doc.row
     IN IF Violates(r)
        THEN Finish(c, FALSE) /\ UNCHANGED <<rows, lastId>>
        ELSE /\ rows' = [rows EXCEPT ![lastId + 1] = r]
             /\ lastId' = lastId + 1
             /\ call' = [call EXCEPT ![c].doc.id = lastId + 1,
                                     ![c].ok = ~call[c].deployed,
                                     ![c].pc = IF call[c].deployed THEN "install" ELSE "done"]
  /\ UNCHANGED <<nodes, base, packages, agents>>

\* Mutant: a record that is gone is written again.
Upsert(d) == [rows EXCEPT ![d.id] = d.row]

\* UPDATE ... WHERE id = ?
Updated(d) == IF rows[d.id] = None THEN rows ELSE [rows EXCEPT ![d.id] = d.row]

\* UpdateProgram at the end of an operation; a record that is gone is an error.
StoreProgram(c) ==
  /\ call[c].pc = "store"
  /\ LET d == call[c].doc
         found == rows[d.id] # None
     IN /\ rows' = Updated(d)
        /\ IF found /\ call[c].op = "apply" THEN Goto(c, "restore") ELSE Finish(c, found)
  /\ UNCHANGED <<nodes, base, packages, lastId, agents>>

DeleteRow(c) ==
  /\ call[c].pc = "delete"
  /\ rows' = [rows EXCEPT ![call[c].doc.id] = None]
  /\ Finish(c, rows[call[c].doc.id] # None)
  /\ UNCHANGED <<nodes, base, packages, lastId, agents>>

----------------------------------------------------------------------------
(* Calls of a node-agent *)

\* Mutant: a redeploy is not a boot for auto-start programs.
AfterInstallNoBoot(c) ==
  IF call[c].op = "start" \/ (call[c].op = "create" /\ call[c].on)
     \/ (call[c].op \in {"upgrade", "apply"} /\ call[c].doc.row.desired = "Running")
  THEN "start" ELSE "store"

\* What the handler does with an installed definition: only a program that is
\* to run is started.
AfterInstall(c) ==
  LET k == call[c]
      run == CASE k.op = "create" -> k.on
               [] k.op = "start" -> TRUE
               [] k.op = "upgrade" -> k.doc.row.desired = "Running"
               [] k.op = "apply" -> k.doc.row.desired = "Running" \/ k.doc.row.name \in AutoStart
  IN IF run THEN "start" ELSE "store"

\* A failed call aborts the operation, except that a creation only records it.
AbortUnlessCreate(c) == IF call[c].op = "create" THEN Goto(c, "store") ELSE Finish(c, FALSE)

\* The agent has the package version and the definition is registered.
InstallDefinition(c) ==
  LET r == call[c].doc.row
  IN /\ Alive(r.server)
     /\ r.version \in packages
     /\ OnAgent(r) # None => ~OnAgent(r).running
     /\ agents' = Put(r, [version |-> r.version, wanted |-> FALSE, running |-> FALSE])

EnsureOnAgent(c) ==
  /\ call[c].pc = "install"
  /\ InstallDefinition(c)
  /\ Goto(c, AfterInstall(c))
  /\ UNCHANGED <<nodes, base, packages, rows, lastId>>

\* A failure with or without effect; restoreOne tries again until its deadline.
EnsureFails(c) ==
  /\ call[c].pc = "install"
  /\ InstallDefinition(c) \/ UNCHANGED agents
  /\ \/ AbortUnlessCreate(c)
     \/ call[c].op = "apply" /\ UNCHANGED call
  /\ UNCHANGED <<nodes, base, packages, rows, lastId>>

\* Mutant: the desired state is not recorded.
DesiredUnchanged(k) == k.doc.row.desired

\* power records the standing desire; a oneshot has none.
DesiredAfterStart(k) ==
  IF k.op = "start" THEN IF k.doc.row.name \in Oneshot THEN "Stopped" ELSE "Running"
  ELSE k.doc.row.desired

AgentStart(c) ==
  /\ call[c].pc = "start"
  /\ LET r == call[c].doc.row
     IN /\ OnAgent(r) # None
        /\ agents' = Put(r, [OnAgent(r) EXCEPT !.wanted = TRUE, !.running = TRUE])
  /\ call' = [call EXCEPT ![c].pc = "store", ![c].doc.row.desired = DesiredAfterStart(call[c])]
  /\ UNCHANGED <<nodes, base, packages, rows, lastId>>

\* The agent is unreachable or does not know the program, the process cannot
\* be spawned, or the reply is lost.
AgentStartFails(c) ==
  /\ call[c].pc = "start"
  /\ LET r == call[c].doc.row
     IN \/ UNCHANGED agents
        \/ /\ OnAgent(r) # None
           /\ \E up \in BOOLEAN :
                agents' = Put(r, [OnAgent(r) EXCEPT !.wanted = TRUE, !.running = @ \/ up])
  /\ AbortUnlessCreate(c)
  /\ UNCHANGED <<nodes, base, packages, rows, lastId>>

AgentStop(c) ==
  /\ call[c].pc = "stop"
  /\ LET r == call[c].doc.row
     IN /\ OnAgent(r) # None
        /\ agents' = Put(r, [OnAgent(r) EXCEPT !.wanted = FALSE, !.running = FALSE])
  /\ call' = IF call[c].op = "upgrade" THEN [call EXCEPT ![c].pc = "install"]
             ELSE [call EXCEPT ![c].pc = "store", ![c].doc.row.desired = "Stopped"]
  /\ UNCHANGED <<nodes, base, packages, rows, lastId>>

\* An upgrade goes on: the agent may never have seen the program.
AgentStopFails(c) ==
  /\ call[c].pc = "stop"
  /\ LET r == call[c].doc.row
     IN \/ UNCHANGED agents
        \/ /\ OnAgent(r) # None
           /\ \E up \in BOOLEAN :
                agents' = Put(r, [OnAgent(r) EXCEPT !.wanted = FALSE, !.running = @ /\ up])
  /\ IF call[c].op = "upgrade" THEN Goto(c, "install") ELSE Finish(c, FALSE)
  /\ UNCHANGED <<nodes, base, packages, rows, lastId>>

\* Best effort: a failure is logged, and the record deleted all the same.
AgentRemove(c) ==
  /\ call[c].pc = "remove"
  /\ \/ Alive(call[c].doc.row.server) /\ agents' = Put(call[c].doc.row, None)
        /\ Goto(c, "delete")
     \/ UNCHANGED agents
        /\ call' = [call EXCEPT ![c].pc = "delete", ![c].deployed = FALSE]
  /\ UNCHANGED <<nodes, base, packages, rows, lastId>>

----------------------------------------------------------------------------
(* ListPrograms refreshes the status of the records it read *)

\* One server after the other, in no given order; what its agent does not
\* know, or cannot be asked about, is left alone.
QueryAgent(c) ==
  /\ call[c].pc = "query"
  /\ \E d \in call[c].read :
       LET s == d.row.server
           group == {e \in call[c].read : e.row.server = s}
           known == {e \in group : OnAgent(e.row) # None}
       IN \E docs \in {<<>>} \cup Listed(known) :
            call' = [call EXCEPT ![c].pc = "refresh", ![c].todo = docs, ![c].read = @ \ group]
  /\ UNCHANGED <<nodes, base, packages, rows, lastId, agents>>

\* Each record is written back whole, as it was read, with its new status.
RefreshStatus(c) ==
  /\ call[c].pc = "refresh"
  /\ IF call[c].todo = <<>>
     THEN /\ IF call[c].read = {} THEN Finish(c, TRUE) ELSE Goto(c, "query")
          /\ UNCHANGED rows
     ELSE /\ rows' = Updated(Head(call[c].todo))
          /\ call' = [call EXCEPT ![c].todo = Tail(@)]
  /\ UNCHANGED <<nodes, base, packages, lastId, agents>>

----------------------------------------------------------------------------
(* Steps of an apply or a repair *)

\* A full deploy recreates every container; an incremental one creates those
\* of the new servers and removes the others.
DeployTopology(c) ==
  /\ call[c].pc = "deploy"
  /\ agents' = [s \in Servers |->
       IF s \in call[c].scope THEN Fresh ELSE IF s \in call[c].gone THEN None ELSE agents[s]]
  /\ IF call[c].op = "repair" THEN Finish(c, TRUE)
     ELSE Goto(c, "scan")
  /\ UNCHANGED <<nodes, base, packages, rows, lastId>>

\* PruneServerPrograms reads the records of the removed servers.
ListForPrune(c) ==
  /\ call[c].pc = "scan"
  /\ \E docs \in Listed(DocsOn(call[c].gone)) :
       call' = [call EXCEPT ![c].pc = "prune", ![c].todo = docs]
  /\ UNCHANGED <<nodes, base, packages, rows, lastId, agents>>

\* One record after the other; a record that is gone meanwhile fails the apply.
PruneProgram(c) ==
  /\ call[c].pc = "prune"
  /\ IF call[c].todo = <<>>
     THEN Goto(c, "list") /\ UNCHANGED rows
     ELSE LET i == Head(call[c].todo).id
          IN /\ rows' = [rows EXCEPT ![i] = None]
             /\ IF rows[i] = None THEN Finish(c, FALSE)
                ELSE call' = [call EXCEPT ![c].todo = Tail(@)]
  /\ UNCHANGED <<nodes, base, packages, lastId, agents>>

\* RestorePrograms reads the records in its scope.
ListForRestore(c) ==
  /\ call[c].pc = "list"
  /\ \E docs \in Listed(DocsOn(call[c].scope)) :
       call' = [call EXCEPT ![c].pc = "restore", ![c].todo = docs]
  /\ UNCHANGED <<nodes, base, packages, rows, lastId, agents>>

\* One program after the other; then the generation is deployed.
RestoreNext(c) ==
  /\ call[c].pc = "restore"
  /\ IF call[c].todo = <<>>
     THEN Finish(c, TRUE) /\ base' = nodes
     ELSE /\ call' = [call EXCEPT ![c].pc = "install", ![c].doc = Head(call[c].todo),
                                  ![c].todo = Tail(@)]
          /\ UNCHANGED base
  /\ UNCHANGED <<nodes, packages, rows, lastId, agents>>

----------------------------------------------------------------------------
(* The world around the handlers *)

Reply(c) ==
  /\ call[c].pc = "done"
  /\ call' = [call EXCEPT ![c] = Idle]
  /\ UNCHANGED <<nodes, base, packages, rows, lastId, agents>>

\* A process that is not restarted exits; a oneshot is then no longer wanted.
ProcessExits(s, n) ==
  /\ Alive(s) /\ agents[s][n] # None
  /\ agents[s][n].running
  /\ LET d == agents[s][n]
     IN agents' = [agents EXCEPT ![s][n] =
          [d EXCEPT !.running = FALSE, !.wanted = d.wanted /\ n \notin Oneshot]]
  /\ UNCHANGED <<nodes, base, packages, rows, lastId, call>>

\* DeletePackage asks no one who still runs the version.
DeletePackage(v) ==
  /\ "package" \in Ops
  /\ v \in packages
  /\ packages' = packages \ {v}
  /\ UNCHANGED <<nodes, base, rows, lastId, agents, call>>

\* The controller dies: what its handlers had read and not written is lost.
Crash ==
  /\ \E c \in Handlers : call[c].pc # "idle"
  /\ call' = [c \in Handlers |-> Idle]
  /\ UNCHANGED <<nodes, base, packages, rows, lastId, agents>>

----------------------------------------------------------------------------

HandlerStep(c) ==
  \/ InsertProgram(c) \/ StoreProgram(c) \/ DeleteRow(c)
  \/ EnsureOnAgent(c) \/ EnsureFails(c) \/ AgentStart(c) \/ AgentStartFails(c)
  \/ AgentStop(c) \/ AgentStopFails(c) \/ AgentRemove(c)
  \/ QueryAgent(c) \/ RefreshStatus(c)
  \/ DeployTopology(c) \/ ListForPrune(c) \/ PruneProgram(c) \/ ListForRestore(c) \/ RestoreNext(c)

Request(c) ==
  \/ \E n \in Names, s \in Servers, v \in Versions, on \in BOOLEAN :
       CreateProgram(c, n, s, v, on)
  \/ \E i \in Ids : StartProgram(c, i) \/ StopProgram(c, i) \/ DeleteProgram(c, i)
  \/ \E i \in Ids, v \in Versions : UpgradeProgram(c, i, v)
  \/ ListPrograms(c)
  \/ \E want \in SUBSET Servers : ApplyPlan(c, want)
  \/ RepairLab(c)

Environment ==
  \/ \E s \in Servers, n \in Names : ProcessExits(s, n)
  \/ \E v \in Versions : DeletePackage(v)
  \/ Crash

Next == Environment \/ \E c \in Handlers : Request(c) \/ HandlerStep(c) \/ Reply(c)

Spec == Init /\ [][Next]_vars

----------------------------------------------------------------------------
(* Properties *)

\* The definition on the agent is the record's, and wanted exactly when told.
Agrees(r, wanted) ==
  /\ OnAgent(r) # None
  /\ OnAgent(r).version = r.version
  /\ r.name \notin Oneshot => OnAgent(r).wanted = wanted

(***************************************************************************)
(* An operation that succeeds and overlaps no other leaves the record and  *)
(* the agent in agreement, whatever races, failed calls and lost replies   *)
(* came before: a start or an upgrade installs the recorded version and    *)
(* has it run as recorded, a stop leaves nothing wanted, a delete leaves   *)
(* no record, and no definition either when the agent could be reached.    *)
(***************************************************************************)
SerialOpSettles ==
  \A c \in Handlers : LET k == call[c] IN
    k.pc = "done" /\ k.ok /\ k.alone /\ k.op \in {"start", "stop", "upgrade", "delete"} =>
      LET r == rows[k.doc.id] IN
      CASE k.op = "start" -> Agrees(r, r.desired = "Running")
        [] k.op = "upgrade" -> base # None => Agrees(r, r.desired = "Running")
        [] k.op = "stop" -> r.desired = "Stopped" /\ OnAgent(r) # None /\ ~OnAgent(r).wanted
        [] k.op = "delete" -> r = None /\ (k.deployed => OnAgent(k.doc.row) = None)

(***************************************************************************)
(* An apply that succeeds and overlaps no other operation leaves every     *)
(* record bound to a server of the new topology, and the programs of the   *)
(* servers it created installed in the recorded version and wanted when    *)
(* they were to run or start at boot.                                      *)
(***************************************************************************)
ApplyRestoresPrograms ==
  \A c \in Handlers : LET k == call[c] IN
    k.pc = "done" /\ k.ok /\ k.alone /\ k.op = "apply" =>
      \A i \in Records :
        /\ rows[i].server \notin k.gone
        /\ rows[i].server \in k.scope =>
             Agrees(rows[i], rows[i].desired = "Running" \/ rows[i].name \in AutoStart)

(***************************************************************************)
(* A name exists at most once per server, though CreateProgram reads the   *)
(* existing records long before it inserts its own.                        *)
(***************************************************************************)
OneRecordPerServer ==
  \A i, j \in Records : rows[i].name = rows[j].name /\ rows[i].server = rows[j].server => i = j

(***************************************************************************)
(* A deleted record stays deleted, though handlers that read it before     *)
(* write it back whole afterwards.                                         *)
(***************************************************************************)
DeletedStaysDeleted ==
  [][\A i \in Ids : i <= lastId /\ rows[i] = None => rows'[i] = None]_vars

=============================================================================
