-------------------------- MODULE TrafficScenarios --------------------------
(***************************************************************************)
(* The traffic scenarios of a lab (controller/internal/biz/traffic.go): a  *)
(* scenario is a record that names two programs, a trafficgen server and a *)
(* client, which its start creates, its stop stops and its deletion        *)
(* deletes through the operations of LabPrograms.  An apply that removes   *)
(* an endpoint's server deletes the scenario before it prunes programs.    *)
(* The collector (controller/internal/traffic) samples running scenarios,  *)
(* stores what it saw with the document it read, and stops expired ones.   *)
(*                                                                         *)
(* The module composes with LabPrograms: a handler that works on a         *)
(* scenario runs program operations one after the other in its own call,   *)
(* interleaved with whatever other handlers do to the same programs.       *)
(***************************************************************************)
EXTENDS LabPrograms

CONSTANTS
  Source, Dest,           \* the servers of the client and of the server program
  ServerName, ClientName, \* <scenario>-server and <scenario>-client
  Trafficgen,             \* the version of the builtin trafficgen package
  MaxScenario             \* bound: scenarios ever created

ASSUME TrafficAssumptions ==
  /\ Source \in Servers /\ Dest \in Servers
  /\ ServerName \in Names /\ ClientName \in Names /\ ServerName # ClientName
  /\ Trafficgen \in Versions
  /\ MaxScenario \in Nat /\ MaxId \in Nat \ {0}

VARIABLES
  scenarios, \* the traffic_scenarios table
  lastScenario,
  flow,      \* what each handler does for a scenario
  sample     \* the document the collector samples for, None between samples

tvars == <<vars, scenarios, lastScenario, flow, sample>>

----------------------------------------------------------------------------
(* State *)

Sids     == 1 .. MaxScenario
Scenario == [phase : {"Stopped", "Running"}, server : Ids \cup {0}, client : Ids \cup {0}]
FlowPcs  == {"idle", "server", "serverDone", "client", "clientDone", "rollback", "rolledBack",
             "update", "clientOff", "serverOff", "erase", "done"}
Flow == [pc : FlowPcs, op : {"start", "stop", "delete"}, id : Sids \cup {0},
         doc : Scenario \cup {None}, suspended : Call \cup {None}, before : SUBSET Ids,
         ok : BOOLEAN, alone : BOOLEAN]
NoFlow == [pc |-> "idle", op |-> "start", id |-> 0, doc |-> None, suspended |-> None,
           before |-> {}, ok |-> FALSE, alone |-> TRUE]

\* A deployed lab with one program, created by hand, that has the name of the
\* scenario's client.
TrafficInit ==
  /\ nodes = Servers /\ base = Servers
  /\ packages = Versions
  /\ rows = [[i \in Ids |-> None] EXCEPT ![1] =
               [name |-> ClientName, server |-> Source, version |-> Trafficgen, desired |-> "Stopped"]]
  /\ lastId = 1
  /\ agents = [s \in Servers |-> Fresh]
  /\ call = [c \in Handlers |-> Idle]
  /\ scenarios = [x \in Sids |-> None]
  /\ lastScenario = 0
  /\ flow = [c \in Handlers |-> NoFlow]
  /\ sample = None

Free(c) == call[c].pc = "idle" /\ flow[c].pc = "idle"

\* Handler c moves to f; flows of other handlers in flight are overlapped.
Advance(c, f) ==
  flow' = [d \in Handlers |->
    IF d = c THEN f
    ELSE IF flow[d].pc = "idle" THEN flow[d] ELSE [flow[d] EXCEPT !.alone = FALSE]]

At(c, pc) == [flow[c] EXCEPT !.pc = pc]
Ended(c, ok) == [flow[c] EXCEPT !.pc = "done", !.ok = ok]
Alone(c) == sample = None /\ \A d \in Handlers \ {c} : Free(d)

----------------------------------------------------------------------------
(* Requests *)

\* UNIQUE(lab_id, name): the model has one scenario name.
CreateTrafficScenario(c) ==
  /\ Free(c)
  /\ lastScenario < MaxScenario
  /\ Source \in nodes /\ Dest \in nodes
  /\ \A x \in Sids : scenarios[x] = None
  /\ scenarios' = [scenarios EXCEPT ![lastScenario + 1] =
                     [phase |-> "Stopped", server |-> 0, client |-> 0]]
  /\ lastScenario' = lastScenario + 1
  /\ Advance(c, NoFlow)
  /\ UNCHANGED vars

\* The bound: the two records of every start under way can still be created.
Starting == {d \in Handlers : flow[d].pc \in {"server", "serverDone", "client", "clientDone"}}
RoomForStart == lastId + 2 * (Cardinality(Starting) + 1) <= MaxId

\* A running scenario is left untouched, and its destination must exist.
StartTrafficScenario(c, x) ==
  /\ Free(c)
  /\ RoomForStart
  /\ scenarios[x] # None
  /\ scenarios[x].phase # "Running"
  /\ Dest \in nodes
  /\ Advance(c, [NoFlow EXCEPT !.pc = "server", !.op = "start", !.id = x, !.doc = scenarios[x],
                               !.before = Records, !.alone = Alone(c)])
  /\ UNCHANGED <<vars, scenarios, lastScenario>>

\* Requested by a client, or by the collector for an expired scenario.
StopTrafficScenario(c, x) ==
  /\ Free(c)
  /\ scenarios[x] # None
  /\ scenarios[x].phase = "Running"
  /\ Advance(c, [NoFlow EXCEPT !.pc = "clientOff", !.op = "stop", !.id = x, !.doc = scenarios[x],
                               !.alone = Alone(c)])
  /\ UNCHANGED <<vars, scenarios, lastScenario>>

DeleteTrafficScenario(c, x) ==
  /\ Free(c)
  /\ scenarios[x] # None
  /\ Advance(c, [NoFlow EXCEPT !.pc = "clientOff", !.op = "delete", !.id = x,
                               !.doc = scenarios[x], !.alone = Alone(c)])
  /\ UNCHANGED <<vars, scenarios, lastScenario>>

\* PruneForRemovedServers, inside the apply that handler c runs: the regular
\* deletion of a scenario that lost an endpoint.
PruneScenario(c, x) ==
  /\ call[c].pc = "scan" /\ flow[c].pc = "idle"
  /\ scenarios[x] # None
  /\ {Source, Dest} \cap call[c].gone # {}
  /\ Advance(c, [NoFlow EXCEPT !.pc = "clientOff", !.op = "delete", !.id = x,
                               !.doc = scenarios[x], !.suspended = call[c], !.alone = FALSE])
  /\ call' = [call EXCEPT ![c] = Idle]
  /\ UNCHANGED <<nodes, base, packages, rows, lastId, agents, scenarios, lastScenario>>

----------------------------------------------------------------------------
(* StartTrafficScenario *)

\* startRole: CreateProgram with start on one server.
StartServerRole(c) ==
  /\ flow[c].pc = "server"
  /\ CreateProgram(c, ServerName, Dest, Trafficgen, TRUE)
  /\ Advance(c, At(c, "serverDone"))
  /\ UNCHANGED <<scenarios, lastScenario>>

ServerRoleDone(c) ==
  /\ flow[c].pc = "serverDone" /\ call[c].pc = "done"
  /\ Advance(c, IF call[c].ok THEN [At(c, "client") EXCEPT !.doc.server = call[c].doc.id]
                ELSE Ended(c, FALSE))
  /\ Reply(c)
  /\ UNCHANGED <<scenarios, lastScenario>>

StartClientRole(c) ==
  /\ flow[c].pc = "client"
  /\ CreateProgram(c, ClientName, Source, Trafficgen, TRUE)
  /\ Advance(c, At(c, "clientDone"))
  /\ UNCHANGED <<scenarios, lastScenario>>

\* Mutant: a failed client leaves the server program behind.
ClientRoleNoRollback(c) ==
  /\ flow[c].pc = "clientDone" /\ call[c].pc = "done"
  /\ Advance(c, IF call[c].ok
                THEN [At(c, "update") EXCEPT !.doc.client = call[c].doc.id, !.doc.phase = "Running"]
                ELSE Ended(c, FALSE))
  /\ Reply(c)
  /\ UNCHANGED <<scenarios, lastScenario>>

ClientRoleDone(c) ==
  /\ flow[c].pc = "clientDone" /\ call[c].pc = "done"
  /\ Advance(c, IF call[c].ok
                THEN [At(c, "update") EXCEPT !.doc.client = call[c].doc.id, !.doc.phase = "Running"]
                ELSE At(c, "rollback"))
  /\ Reply(c)
  /\ UNCHANGED <<scenarios, lastScenario>>

\* The deletion of a program by its id; a record that is gone is only logged.
DeleteRole(c, i, pc) ==
  IF i \in Records
  THEN DeleteProgram(c, i) /\ Advance(c, At(c, pc))
  ELSE Advance(c, At(c, pc)) /\ UNCHANGED vars

Rollback(c) ==
  /\ flow[c].pc = "rollback"
  /\ DeleteRole(c, flow[c].doc.server, "rolledBack")
  /\ UNCHANGED <<scenarios, lastScenario>>

RolledBack(c) ==
  /\ flow[c].pc = "rolledBack"
  /\ \/ call[c].pc = "done" /\ Reply(c)
     \/ call[c].pc = "idle" /\ UNCHANGED vars
  /\ Advance(c, Ended(c, FALSE))
  /\ UNCHANGED <<scenarios, lastScenario>>

\* UpdateTrafficScenario fails when the scenario is gone.
UpdateScenario(c) ==
  /\ flow[c].pc = "update"
  /\ LET found == scenarios[flow[c].id] # None
     IN /\ scenarios' = IF found THEN [scenarios EXCEPT ![flow[c].id] = flow[c].doc] ELSE scenarios
        /\ Advance(c, Ended(c, found))
  /\ UNCHANGED <<vars, lastScenario>>

----------------------------------------------------------------------------
(* StopTrafficScenario and DeleteTrafficScenario: the client, then the server *)

\* Mutant: a deletion stops the programs and leaves them.
RoleOffStops(c, i, pc) ==
  IF i \in Records THEN StopProgram(c, i) /\ Advance(c, At(c, pc))
  ELSE Advance(c, At(c, pc)) /\ UNCHANGED vars

\* A deletion deletes the program, a stop stops it.
RoleOff(c, i, pc) ==
  IF flow[c].op = "delete" THEN DeleteRole(c, i, pc)
  ELSE IF i \in Records THEN StopProgram(c, i) /\ Advance(c, At(c, pc))
  ELSE Advance(c, At(c, pc)) /\ UNCHANGED vars

\* An error of either program is recorded or logged, and the next one tried.
ClientOff(c) ==
  /\ flow[c].pc = "clientOff" /\ call[c].pc = "idle"
  /\ RoleOff(c, flow[c].doc.client, "serverOff")
  /\ UNCHANGED <<scenarios, lastScenario>>

ProgramOffDone(c) ==
  /\ flow[c].pc \in {"serverOff", "erase"} /\ call[c].pc = "done"
  /\ Reply(c)
  /\ Advance(c, flow[c])
  /\ UNCHANGED <<scenarios, lastScenario>>

ServerOff(c) ==
  /\ flow[c].pc = "serverOff" /\ call[c].pc = "idle"
  /\ RoleOff(c, flow[c].doc.server, "erase")
  /\ UNCHANGED <<scenarios, lastScenario>>

\* The record is updated or deleted last; it may be gone.
EraseScenario(c) ==
  /\ flow[c].pc = "erase" /\ call[c].pc = "idle"
  /\ LET x == flow[c].id
         found == scenarios[x] # None
     IN /\ scenarios' = IF ~found THEN scenarios
                        ELSE [scenarios EXCEPT ![x] =
                                IF flow[c].op = "delete" THEN None
                                ELSE [flow[c].doc EXCEPT !.phase = "Stopped"]]
        /\ Advance(c, Ended(c, found))
  /\ UNCHANGED <<vars, lastScenario>>

\* The reply, or the return to the apply, which overlaps again what is in flight
\* and fails with the deletion.
FlowReturns(c) ==
  /\ flow[c].pc = "done"
  /\ LET k == flow[c].suspended
     IN IF k = None THEN UNCHANGED call
        ELSE Begin(c, IF flow[c].ok THEN k ELSE [k EXCEPT !.pc = "done", !.ok = FALSE])
  /\ Advance(c, NoFlow)
  /\ UNCHANGED <<nodes, base, packages, rows, lastId, agents, scenarios, lastScenario>>

----------------------------------------------------------------------------
(* The collector *)

\* sweepLab lists the scenarios and tails the log of a running one's client.
\* The bound: the document only changes when a flow writes it, so it is read
\* just before such a write; a sample that spans none stores what is there.
\* No other handler is at work when it is read; any may be when it is stored.
SampleScenario(x) ==
  /\ sample = None
  /\ \E c \in Handlers : /\ flow[c].pc \in {"update", "erase"} /\ flow[c].id = x
                         /\ \A d \in Handlers \ {c} : Free(d)
  /\ scenarios[x] # None
  /\ scenarios[x].phase = "Running"
  /\ sample' = [id |-> x, doc |-> scenarios[x]]
  /\ flow' = [c \in Handlers |-> IF flow[c].pc = "idle" THEN flow[c] ELSE [flow[c] EXCEPT !.alone = FALSE]]
  /\ UNCHANGED <<vars, scenarios, lastScenario>>

\* No log, or nothing new in it; else the document read is stored with the
\* point and the results of the assertions, whatever became of it meanwhile.
StoreSample ==
  /\ sample # None
  /\ \/ UNCHANGED scenarios
     \/ scenarios' = IF scenarios[sample.id] = None THEN scenarios
                     ELSE [scenarios EXCEPT ![sample.id] = sample.doc]
  /\ sample' = None
  /\ UNCHANGED <<vars, lastScenario, flow>>

----------------------------------------------------------------------------

FlowStep(c) ==
  \/ StartServerRole(c) \/ ServerRoleDone(c) \/ StartClientRole(c) \/ ClientRoleDone(c)
  \/ Rollback(c) \/ RolledBack(c) \/ UpdateScenario(c)
  \/ ClientOff(c) \/ ProgramOffDone(c) \/ ServerOff(c) \/ EraseScenario(c) \/ FlowReturns(c)

ScenarioRequest(c) ==
  \/ CreateTrafficScenario(c)
  \/ \E x \in Sids : \/ StartTrafficScenario(c, x) \/ StopTrafficScenario(c, x)
                     \/ DeleteTrafficScenario(c, x) \/ PruneScenario(c, x)

\* Other clients change the topology, and delete the scenario's programs by hand.
\* The bound: one such request at a time, as LabPrograms has them overlap, and
\* not during a sample, which touches no program.  Plans are applied one at a
\* time, so not while an apply deletes a scenario.
ProgramRequest(c) ==
  /\ Free(c) /\ sample = None
  /\ \A d \in Handlers : call[d].pc # "idle" => flow[d].pc # "idle"
  /\ \/ \E i \in Ids : DeleteProgram(c, i)
     \/ /\ \A d \in Handlers : flow[d].suspended = None
        /\ \E want \in SUBSET Servers : ApplyPlan(c, want)

\* Steps of the program operations; an apply prunes scenarios first.
ProgramStep(c) ==
  \/ /\ HandlerStep(c)
     /\ call[c].pc = "scan" =>
          ({Source, Dest} \cap call[c].gone = {} \/ \A x \in Sids : scenarios[x] = None)
  \/ flow[c].pc = "idle" /\ Reply(c)

TrafficCrash ==
  /\ Crash
  /\ flow' = [c \in Handlers |-> NoFlow]
  /\ sample' = None
  /\ UNCHANGED <<scenarios, lastScenario>>

TrafficNext ==
  \/ /\ \E c \in Handlers :
          \/ ScenarioRequest(c) \/ FlowStep(c)
          \/ /\ ProgramRequest(c) \/ ProgramStep(c)
             /\ Advance(c, flow[c])
             /\ UNCHANGED <<scenarios, lastScenario>>
     /\ UNCHANGED sample
  \/ \E x \in Sids : SampleScenario(x)
  \/ StoreSample
  \/ TrafficCrash

TrafficSpec == TrafficInit /\ [][TrafficNext]_tvars

----------------------------------------------------------------------------
(* Properties *)

(***************************************************************************)
(* A scenario operation that overlaps no other handler and no sample of    *)
(* the collector is all or nothing, whatever calls of the agents fail: a   *)
(* start that succeeds has created both programs and recorded them, one    *)
(* that fails leaves "no orphaned Program ... behind"                      *)
(* (StartTrafficScenario), a stop leaves the scenario stopped, and a       *)
(* deletion leaves no record of the programs the scenario named.           *)
(***************************************************************************)
FlowIsAllOrNothing ==
  \A c \in Handlers : LET f == flow[c] IN
    f.pc = "done" /\ f.alone =>
      /\ f.op = "start" /\ f.ok =>
           /\ scenarios[f.id] = f.doc
           /\ Records = f.before \cup {f.doc.server, f.doc.client}
      /\ f.op = "start" /\ ~f.ok => Records = f.before
      /\ f.op = "stop" => scenarios[f.id].phase = "Stopped"
      /\ f.op = "delete" =>
           f.ok /\ scenarios[f.id] = None /\ {f.doc.server, f.doc.client} \cap Records = {}

(***************************************************************************)
(* Also among other requests on the same scenario and programs: a start    *)
(* that fails leaves no server program behind that was not there before,   *)
(* unless the scenario was deleted under it, and no deletion of a scenario *)
(* ends before the programs it read are gone.                              *)
(***************************************************************************)
NoProgramLeftBehind ==
  \A c \in Handlers : LET f == flow[c] IN
    f.pc = "done" =>
      /\ f.op = "start" /\ ~f.ok /\ scenarios[f.id] # None
           => f.doc.server \notin Records \ f.before
      /\ f.op = "delete" => {f.doc.server, f.doc.client} \cap Records = {}

=============================================================================
