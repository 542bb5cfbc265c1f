--------------------------- MODULE FaultScenarios ---------------------------
(***************************************************************************)
(* The fault scenarios of one lab (controller/internal/biz/fault.go): a    *)
(* scenario is a record that names a target, a node or a link; applying it *)
(* pauses the node or degrades interfaces of the link through the runtime  *)
(* driver, recovering it restores a fixed baseline, and a plan that        *)
(* removes the target deletes the record.                                  *)
(*                                                                         *)
(* Faults of different targets do not meet, so the model has one node and  *)
(* one link.  A handler takes no lock: a step is one statement on the      *)
(* database or one call of the driver, which may fail with or without      *)
(* having taken effect.                                                    *)
(***************************************************************************)
EXTENDS Integers, FiniteSets, SequencesExt

CONSTANTS
  Faults,   \* scenario ids
  Type,     \* scenario -> its fault type
  Sides,    \* scenario -> the ends of the link it acts on, <<>> for a node
  Plans,    \* the sets of targets that plans ask for
  Handlers, \* API handlers that can be in flight at once
  MayCrash, \* whether the controller may die
  None,     \* no scenario yet, no generation
  Deleted   \* a scenario that was deleted: ids are not reused

Types == {"node-stop", "node-restart", "link-down", "interface-down", "impairment"}
Ends  == {"a", "b"}
Targets == {"node", "link"}

\* The sides a fault of type t may act on.
FaultShape(t) ==
  CASE t \in {"node-stop", "node-restart"} -> {<<>>}
    [] t = "link-down" -> {<<"a", "b">>}
    [] t = "interface-down" -> {<<"a">>, <<"b">>}
    [] t = "impairment" -> {<<"a">>, <<"b">>, <<"a", "b">>}

Record == [applied : BOOLEAN]

ASSUME FaultAssumptions ==
  /\ IsFiniteSet(Faults) /\ None # Deleted /\ {None, Deleted} \cap Record = {}
  /\ Plans \subseteq SUBSET Targets
  /\ MayCrash \in BOOLEAN
  /\ Type \in [Faults -> Types]
  /\ \A s \in Faults : Sides[s] \in FaultShape(Type[s])

VARIABLES
  topo,   \* the targets among the lab's records
  base,   \* the targets of the deployed generation, None at generation 0
  live,   \* the targets that exist in the runtime
  paused, \* the node's container is paused
  down,   \* the ends whose interface is down
  netem,  \* the ends whose interface has a netem qdisc
  rec,    \* the fault_scenarios table
  call,   \* the handlers
  raced   \* history: two scenario operations have overlapped

net  == <<live, paused, down, netem>>
vars == <<topo, base, net, rec, call, raced>>

----------------------------------------------------------------------------
(* State *)

Pcs  == {"idle", "check", "resolve", "stop", "start", "inject", "rollback", "record",
         "again", "locate", "undo", "erase", "deploy", "scan", "prune", "commit", "done"}
Call == [pc : Pcs, op : {"apply", "recover", "delete", "plan"}, id : Faults \cup {None},
         was : BOOLEAN, todo : Seq(Ends), faulted : Seq(Ends), prune : Seq(Faults),
         gone : SUBSET Targets, err : BOOLEAN, ok : BOOLEAN, alone : BOOLEAN]
Idle == [pc |-> "idle", op |-> "plan", id |-> None, was |-> FALSE, todo |-> <<>>, faulted |-> <<>>,
         prune |-> <<>>, gone |-> {}, err |-> FALSE, ok |-> FALSE, alone |-> TRUE]

TypeOK ==
  /\ topo \subseteq Targets /\ base \in (SUBSET Targets) \cup {None} /\ live \subseteq Targets
  /\ paused \in BOOLEAN /\ down \subseteq Ends /\ netem \subseteq Ends
  /\ paused => "node" \in live
  /\ down \cup netem # {} => "link" \in live
  /\ rec \in [Faults -> Record \cup {None, Deleted}]
  /\ call \in [Handlers -> Call]
  /\ raced \in BOOLEAN

Init ==
  /\ topo = {} /\ base = None
  /\ live = {} /\ paused = FALSE /\ down = {} /\ netem = {}
  /\ rec = [s \in Faults |-> None]
  /\ call = [c \in Handlers |-> Idle]
  /\ raced = FALSE

OnNode(s) == Type[s] \in {"node-stop", "node-restart"}
Target(s) == IF OnNode(s) THEN "node" ELSE "link"
Scenarios == {s \in Faults : rec[s] \notin {None, Deleted}}
Applied   == {s \in Scenarios : rec[s].applied}

\* A handler begins: from now on it overlaps the ones in flight.
Begin(c, r) ==
  LET others == {d \in Handlers \ {c} : call[d].pc # "idle"}
  IN /\ call' = [d \in Handlers |->
          IF d = c THEN [r EXCEPT !.alone = others = {}]
          ELSE IF d \in others THEN [call[d] EXCEPT !.alone = FALSE] ELSE call[d]]
     /\ raced' = (raced \/ others # {})

\* What happens outside the handlers overlaps all of them.
Disturb ==
  call' = [d \in Handlers |->
    IF call[d].pc = "idle" THEN call[d] ELSE [call[d] EXCEPT !.alone = FALSE]]

Goto(c, pc) == call' = [call EXCEPT ![c].pc = pc]
Finish(c, ok) == call' = [call EXCEPT ![c].pc = "done", ![c].ok = ok]

----------------------------------------------------------------------------
(* The first step of each operation: the record it reads *)

\* The target must exist.
CreateFaultScenario(s) ==
  /\ rec[s] = None
  /\ Target(s) \in topo
  /\ rec' = [rec EXCEPT ![s] = [applied |-> FALSE]]
  /\ UNCHANGED <<topo, base, net, call, raced>>

\* An applied scenario is left alone.
ApplyFaultScenario(c, s) ==
  /\ call[c].pc = "idle"
  /\ s \in Scenarios \ Applied
  /\ Begin(c, [Idle EXCEPT !.op = "apply", !.id = s, !.pc = "check"])
  /\ UNCHANGED <<topo, base, net, rec>>

RecoverFaultScenario(c, s) ==
  /\ call[c].pc = "idle"
  /\ s \in Applied
  /\ Begin(c, [Idle EXCEPT !.op = "recover", !.id = s, !.was = TRUE, !.pc = "locate"])
  /\ UNCHANGED <<topo, base, net, rec>>

DeleteFaultScenario(c, s) ==
  /\ call[c].pc = "idle"
  /\ s \in Scenarios
  /\ Begin(c, [Idle EXCEPT !.op = "delete", !.id = s, !.was = rec[s].applied,
                           !.pc = IF rec[s].applied THEN "again" ELSE "erase"])
  /\ UNCHANGED <<topo, base, net, rec>>

----------------------------------------------------------------------------
(* ApplyFaultScenario *)

\* Mutant: a target may carry several faults.
NoneIsInTheWay(s) == {}

\* The applied scenarios that stand in the way of s.
Conflicts(s) == {o \in Applied \ {s} : Target(o) = Target(s)}

\* checkTargetFree, and the lab must be deployed.
CheckTargetFree(c) ==
  /\ call[c].pc = "check"
  /\ IF Conflicts(call[c].id) = {} /\ base # None THEN Goto(c, "resolve") ELSE Finish(c, FALSE)
  /\ UNCHANGED <<topo, base, net, rec, raced>>

Failed(c) == [call EXCEPT ![c].pc = "record", ![c].err = TRUE]

\* inject: the node or the link is looked up again.
ResolveTarget(c) ==
  /\ call[c].pc = "resolve"
  /\ LET s == call[c].id
     IN call' = IF Target(s) \notin topo THEN Failed(c)
                ELSE [call EXCEPT ![c].pc = IF OnNode(s) THEN "stop" ELSE "inject",
                                  ![c].todo = Sides[s]]
  /\ UNCHANGED <<topo, base, net, rec, raced>>

\* StopNode pauses the container; a restart starts it again.
StopNode(c) ==
  /\ call[c].pc = "stop"
  /\ \/ /\ "node" \in live /\ paused' = TRUE
        /\ Goto(c, IF Type[call[c].id] = "node-restart" THEN "start" ELSE "record")
     \/ /\ paused' \in {paused, "node" \in live}
        /\ call' = Failed(c)
  /\ UNCHANGED <<topo, base, live, down, netem, rec, raced>>

\* StartNode of a restart or of a recovery.
StartNode(c) ==
  /\ call[c].pc = "start"
  /\ \/ "node" \in live /\ paused' = FALSE /\ Goto(c, "record")
     \/ paused' \in {paused, FALSE} /\ call' = Failed(c)
  /\ UNCHANGED <<topo, base, live, down, netem, rec, raced>>

\* applyEndpoint: ip link set down, or tc qdisc replace.
Degrade(s, e) ==
  /\ "link" \in live
  /\ down' = IF Type[s] = "impairment" THEN down ELSE down \cup {e}
  /\ netem' = IF Type[s] = "impairment" THEN netem \cup {e} ELSE netem

\* recoverEndpoint: ip link set up, or tc qdisc del when there is one.
Restore(s, e) ==
  /\ "link" \in live
  /\ down' = IF Type[s] = "impairment" THEN down ELSE down \ {e}
  /\ netem' = IF Type[s] = "impairment" THEN netem \ {e} ELSE netem

\* injectLinkFault: one end after the other.
InjectEnd(c) ==
  /\ call[c].pc = "inject"
  /\ LET e == Head(call[c].todo)
         rest == Tail(call[c].todo)
     IN /\ Degrade(call[c].id, e)
        /\ call' = [call EXCEPT ![c].todo = rest, ![c].faulted = Append(@, e),
                                ![c].pc = IF rest = <<>> THEN "record" ELSE "inject"]
  /\ UNCHANGED <<topo, base, live, paused, rec, raced>>

\* A failure rolls the ends before it back.
InjectEndFails(c) ==
  /\ call[c].pc = "inject"
  /\ Degrade(call[c].id, Head(call[c].todo)) \/ UNCHANGED <<down, netem>>
  /\ call' = [call EXCEPT ![c].err = TRUE, ![c].todo = call[c].faulted,
                          ![c].pc = IF call[c].faulted = <<>> THEN "record" ELSE "rollback"]
  /\ UNCHANGED <<topo, base, live, paused, rec, raced>>

\* Best effort: a failure is logged.
RollbackEnd(c) ==
  /\ call[c].pc = "rollback"
  /\ LET rest == Tail(call[c].todo)
     IN /\ Restore(call[c].id, Head(call[c].todo)) \/ UNCHANGED <<down, netem>>
        /\ call' = [call EXCEPT ![c].todo = rest,
                                ![c].pc = IF rest = <<>> THEN "record" ELSE "rollback"]
  /\ UNCHANGED <<topo, base, live, paused, rec, raced>>

\* Mutant: a recovery that failed counts as one.
AppliedUnlessRecovered(c) ==
  call[c].op = "apply" /\ ~call[c].err /\ Type[call[c].id] # "node-restart"

\* Status.Applied as the operation leaves it (LastError is only shown); a
\* restart heals by itself.
AppliedAfter(c) ==
  IF call[c].op = "apply" THEN ~call[c].err /\ Type[call[c].id] # "node-restart"
  ELSE call[c].err

\* UpdateFaultScenario; a record that is gone is an error.
RecordStatus(c) ==
  /\ call[c].pc = "record"
  /\ LET s == call[c].id
         ok == s \in Scenarios /\ ~call[c].err
     IN /\ rec' = IF s \notin Scenarios THEN rec
                  ELSE [rec EXCEPT ![s] = [applied |-> AppliedAfter(c)]]
        /\ IF ok /\ call[c].op = "delete" THEN Goto(c, "erase") ELSE Finish(c, ok)
  /\ UNCHANGED <<topo, base, net, raced>>

----------------------------------------------------------------------------
(* RecoverFaultScenario and DeleteFaultScenario *)

\* A deletion recovers through the regular operation, which reads the record again.
RecoverBeforeDelete(c) ==
  /\ call[c].pc = "again"
  /\ LET s == call[c].id
     IN IF s \notin Scenarios THEN Finish(c, FALSE)
        ELSE Goto(c, IF s \in Applied THEN "locate" ELSE "erase")
  /\ UNCHANGED <<topo, base, net, rec, raced>>

LocateTarget(c) ==
  /\ call[c].pc = "locate"
  /\ LET s == call[c].id
     IN call' = IF Target(s) \notin topo \/ base = None THEN Failed(c)
                ELSE [call EXCEPT ![c].pc = IF OnNode(s) THEN "start" ELSE "undo",
                                  ![c].todo = Sides[s]]
  /\ UNCHANGED <<topo, base, net, rec, raced>>

\* Every end is tried; an error is kept.
UndoEnd(c) ==
  /\ call[c].pc = "undo"
  /\ LET rest == Tail(call[c].todo)
     IN \E failed \in BOOLEAN :
          /\ Restore(call[c].id, Head(call[c].todo)) \/ (failed /\ UNCHANGED <<down, netem>>)
          /\ call' = [call EXCEPT ![c].todo = rest, ![c].err = @ \/ failed,
                                  ![c].pc = IF rest = <<>> THEN "record" ELSE "undo"]
  /\ UNCHANGED <<topo, base, live, paused, rec, raced>>

EraseScenario(c) ==
  /\ call[c].pc = "erase"
  /\ rec' = [rec EXCEPT ![call[c].id] = Deleted]
  /\ Finish(c, call[c].id \in Scenarios)
  /\ UNCHANGED <<topo, base, net, raced>>

----------------------------------------------------------------------------
(* Plans, repairs and power *)

Changing == \E c \in Handlers : call[c].pc # "idle" /\ call[c].op = "plan"

\* What is left of the runtime when the targets in gone die and fresh ones appear.
Rebuild(gone, fresh) ==
  /\ live' = (live \ gone) \cup fresh
  /\ paused' = (paused /\ "node" \notin gone \cup fresh)
  /\ down' = (IF "link" \in gone \cup fresh THEN {} ELSE down)
  /\ netem' = (IF "link" \in gone \cup fresh THEN {} ELSE netem)

Base == IF base = None THEN {} ELSE base

ApplyPlan(c, want) ==
  /\ call[c].pc = "idle" /\ ~Changing
  /\ topo' = want
  /\ Begin(c, [Idle EXCEPT !.pc = "deploy", !.gone = Base \ want])
  /\ UNCHANGED <<base, net, rec>>

\* A first deployment creates everything, a later one what is new.
DeployTopology(c) ==
  /\ call[c].pc = "deploy"
  /\ Rebuild(live \ topo, topo \ Base)
  /\ Goto(c, "scan")
  /\ UNCHANGED <<topo, base, rec, raced>>

\* PruneForRemovedTargets reads the scenarios of the removed targets.
ListForPrune(c) ==
  /\ call[c].pc = "scan"
  /\ call' = [call EXCEPT ![c].pc = "prune",
       ![c].prune = SetToSeq({s \in Scenarios : Target(s) \in call[c].gone})]
  /\ UNCHANGED <<topo, base, net, rec, raced>>

\* Mutant: only one scenario is pruned.
PruneOne(c) ==
  /\ call[c].pc = "prune"
  /\ rec' = IF call[c].prune = <<>> THEN rec ELSE [rec EXCEPT ![Head(call[c].prune)] = Deleted]
  /\ Goto(c, "commit")
  /\ UNCHANGED <<topo, base, net, raced>>

\* The records go without a recovery; one that is gone meanwhile fails the apply.
PruneScenario(c) ==
  /\ call[c].pc = "prune"
  /\ IF call[c].prune = <<>>
     THEN Goto(c, "commit") /\ UNCHANGED rec
     ELSE LET s == Head(call[c].prune)
          IN /\ rec' = [rec EXCEPT ![s] = Deleted]
             /\ IF s \in Scenarios THEN call' = [call EXCEPT ![c].prune = Tail(@)]
                ELSE Finish(c, FALSE)
  /\ UNCHANGED <<topo, base, net, raced>>

CommitPlan(c) ==
  /\ call[c].pc = "commit"
  /\ base' = topo
  /\ Finish(c, TRUE)
  /\ UNCHANGED <<topo, net, rec, raced>>

\* The deploy step of RepairLab recreates every container.
RepairLab ==
  /\ base # None /\ ~Changing
  /\ Rebuild({}, topo)
  /\ Disturb
  /\ UNCHANGED <<topo, base, rec, raced>>

\* A client powers the node, or the lab, on or off.
PowerNode(on) ==
  /\ base # None /\ "node" \in live
  /\ paused' = ~on
  /\ Disturb
  /\ UNCHANGED <<topo, base, live, down, netem, rec, raced>>

Reply(c) ==
  /\ call[c].pc = "done"
  /\ call' = [call EXCEPT ![c] = Idle]
  /\ UNCHANGED <<topo, base, net, rec, raced>>

\* The controller dies: what its handlers had done and not recorded is forgotten.
Crash ==
  /\ MayCrash
  /\ \E c \in Handlers : call[c].pc # "idle"
  /\ call' = [c \in Handlers |-> Idle]
  /\ UNCHANGED <<topo, base, net, rec, raced>>

----------------------------------------------------------------------------

Request(c) ==
  \/ \E s \in Faults : \/ ApplyFaultScenario(c, s) \/ RecoverFaultScenario(c, s)
                       \/ DeleteFaultScenario(c, s)
  \/ \E want \in Plans : ApplyPlan(c, want)

Step(c) ==
  \/ CheckTargetFree(c) \/ ResolveTarget(c) \/ StopNode(c) \/ StartNode(c)
  \/ InjectEnd(c) \/ InjectEndFails(c) \/ RollbackEnd(c) \/ RecordStatus(c)
  \/ RecoverBeforeDelete(c) \/ LocateTarget(c) \/ UndoEnd(c) \/ EraseScenario(c)
  \/ DeployTopology(c) \/ ListForPrune(c) \/ PruneScenario(c) \/ CommitPlan(c) \/ Reply(c)

Environment ==
  \/ \E s \in Faults : CreateFaultScenario(s)
  \/ \E on \in BOOLEAN : PowerNode(on)
  \/ RepairLab \/ Crash

Next == Environment \/ \E c \in Handlers : Request(c) \/ Step(c)

Spec == Init /\ [][Next]_vars

----------------------------------------------------------------------------
(* Properties *)

\* All, or nothing, of what s does to its target is there.
InForce(s) == IF OnNode(s) THEN paused
              ELSE ToSet(Sides[s]) \subseteq (IF Type[s] = "impairment" THEN netem ELSE down)
Lifted(s)  == IF OnNode(s) THEN ~paused
              ELSE ToSet(Sides[s]) \cap (IF Type[s] = "impairment" THEN netem ELSE down) = {}

(***************************************************************************)
(* An operation that overlaps no other one, whatever races, failed driver  *)
(* calls and crashes came before: an apply that succeeds has its fault in  *)
(* force on the whole target exactly when it is recorded as applied, and a *)
(* restart has it lifted again; a recovery that succeeds has lifted it,    *)
(* and one that fails stays applied "so recovery can be retried"; a        *)
(* deletion leaves nothing of a fault that was applied.                    *)
(***************************************************************************)
SerialFaultSettles ==
  \A c \in Handlers : LET k == call[c]  s == k.id IN
    k.pc = "done" /\ k.alone =>
      /\ k.op = "apply" /\ k.ok => IF s \in Applied THEN InForce(s) ELSE Lifted(s)
      /\ k.op = "apply" /\ ~k.ok => s \notin Applied
      /\ k.op = "recover" => IF k.ok THEN s \notin Applied /\ Lifted(s) ELSE s \in Applied
      /\ k.op = "delete" /\ k.ok => s \notin Scenarios /\ (k.was => Lifted(s))

(***************************************************************************)
(* "A target allows at most one applied scenario at a time": it does as    *)
(* long as no two operations have overlapped, across failures and crashes. *)
(***************************************************************************)
OneFaultPerTarget ==
  ~raced => \A s, o \in Applied : Target(s) = Target(o) => s = o

(***************************************************************************)
(* A plan that succeeds and overlaps no other operation leaves no scenario *)
(* on a target it removed.                                                 *)
(***************************************************************************)
NoFaultOnRemovedTarget ==
  \A c \in Handlers :
    call[c].pc = "done" /\ call[c].alone /\ call[c].op = "plan" /\ call[c].ok
      => \A s \in Scenarios : Target(s) \notin call[c].gone

=============================================================================
