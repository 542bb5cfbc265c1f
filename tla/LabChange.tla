----------------------------- MODULE LabChange -----------------------------
(***************************************************************************)
(* The change flow of one lab in the controller: the lab document and the  *)
(* use cases that read it, work for a while and write it back as a whole   *)
(* (biz/lab.go, biz/plan.go, biz/power.go), the operation executor that    *)
(* runs their steps (operation/operation.go), the observer that reconciles *)
(* phases with what runs (observer/observer.go), the database rows they    *)
(* share (data/) and the containers on the host.                           *)
(*                                                                         *)
(* SQLite is used through one connection, so a database call is atomic and *)
(* a sequence of calls is not.  A step of the model is one write, together *)
(* with the reads directly before it where no decision depends on the gap, *)
(* or one container changed on the host.                                   *)
(***************************************************************************)
EXTENDS Integers, FiniteSets

CONSTANTS
  Nodes,     \* names of the devices a topology can have
  Shapes,    \* the topology specs users ask for, as the set of nodes they build
  Plans,     \* slots for plan documents: the number of plans ever made
  Workers,   \* requests, with the operation they start, that can be under way at once
  Kinds,     \* the use cases the clients call
  Observes,  \* whether the observer runs
  Crashes,   \* whether the controller may die
  MaxGen,    \* bound on generation numbers
  Retained,  \* how many generation snapshots are kept (10 in the code)
  None       \* no document

PowerKinds == {"startLab", "stopLab"}
NodeKinds  == {"startNode", "stopNode"}
AllKinds   == {"topology", "plan", "rollback", "apply", "repair", "delete"}
                \cup PowerKinds \cup NodeKinds

ASSUME LabAssumptions ==
  /\ Shapes \subseteq SUBSET Nodes
  /\ {} \notin Shapes
  /\ Kinds \subseteq AllKinds
  /\ Observes \in BOOLEAN
  /\ Crashes \in BOOLEAN
  /\ MaxGen \in Nat
  /\ Retained \in Nat \ {0, 1}
  /\ None \notin AllKinds /\ None \notin Plans

VARIABLES
  lab,      \* the row of table labs, None before it is created
  deleted,  \* whether the lab has been deleted
  rows,     \* table nodes: the desired topology, by node name
  plans,    \* table plans
  gens,     \* table generations: the retained snapshots
  dirs,     \* the artifact directory of every generation, {} when unwritten
  cont,     \* the container of every node on the host
  work,     \* the requests and operations under way
  ops,      \* table operations: the last operation each worker started
  sweep     \* the observer's current sweep

vars == <<lab, deleted, rows, plans, gens, dirs, cont, work, ops, sweep>>

----------------------------------------------------------------------------
(* State *)

Phases     == {"Pending", "Planning", "Applying", "Running", "Stopped", "Degraded",
               "Failed", "Deleting"}
Containers == {"missing", "running", "paused"}
Lab        == [gen : 0 .. MaxGen, phase : Phases, shape : Shapes]
Row        == [phase : {"Pending", "Running", "Stopped", "Failed"}, observed : BOOLEAN]
Rows       == UNION {[s -> Row] : s \in SUBSET Nodes}
Plan       == [base : 0 .. MaxGen, state : {"Pending", "Applied"}, nodes : SUBSET Nodes]
Snapshot   == [shape : Shapes, nodes : SUBSET Nodes]
Work       == [kind : AllKinds \cup {None},
               pc : {"idle", "write", "replace", "record", "phase", "start", "prepare", "save",
                     "deploy", "add", "remove", "validate", "power", "destroy", "erase", "finish",
                     "lab", "failed", "report"},
               lab : Lab \cup {None}, gen : 0 .. MaxGen, rows : Rows,
               nodes : SUBSET Nodes, base : SUBSET Nodes, plan : Plans \cup {None}, todo : SUBSET Nodes,
               ok : BOOLEAN]
Op         == [kind : AllKinds \cup {None}, plan : Plans \cup {None},
               state : {"none", "Queued", "Running", "Succeeded", "Failed"}]
Sweep      == [pc : {"idle", "nodes", "reconcile"}, lab : Lab \cup {None}, rows : Rows,
               states : [Nodes -> Containers]]

ASSUME NoneIsNoDocument == None \notin Lab \cup Plan

NoRows  == [n \in {} |-> None]
NoWork  == [kind |-> None, pc |-> "idle", lab |-> None, gen |-> 0, rows |-> NoRows,
            nodes |-> {}, base |-> {}, plan |-> None, todo |-> {}, ok |-> TRUE]
NoOp    == [kind |-> None, plan |-> None, state |-> "none"]
NoSweep == [pc |-> "idle", lab |-> None, rows |-> NoRows,
            states |-> [n \in Nodes |-> "missing"]]

TypeOK ==
  /\ lab \in Lab \cup {None}
  /\ deleted \in BOOLEAN
  /\ rows \in Rows
  /\ plans \in [Plans -> Plan \cup {None}]
  /\ gens \in UNION {[g -> Snapshot] : g \in SUBSET (1 .. MaxGen)}
  /\ dirs \in [1 .. MaxGen -> SUBSET Nodes]
  /\ cont \in [Nodes -> Containers]
  /\ work \in [Workers -> Work]
  /\ ops \in [Workers -> Op]
  /\ sweep \in Sweep

Init ==
  /\ lab = None
  /\ deleted = FALSE
  /\ rows = NoRows
  /\ plans = [p \in Plans |-> None]
  /\ gens = [g \in {} |-> None]
  /\ dirs = [g \in 1 .. MaxGen |-> {}]
  /\ cont = [n \in Nodes |-> "missing"]
  /\ work = [w \in Workers |-> NoWork]
  /\ ops = [w \in Workers |-> NoOp]
  /\ sweep = NoSweep

----------------------------------------------------------------------------
(* The data layer *)

\* UpdateLab replaces the whole document, and finds no row once the lab is
\* deleted.
UpdateLab(doc) == IF lab = None THEN None ELSE doc

\* UpdateNode replaces the document of a node that still has a row.
UpdateNodes(docs) == [n \in DOMAIN rows |-> IF n \in DOMAIN docs THEN docs[n] ELSE rows[n]]

\* ReplaceTopology with the identity and state carried over from the rows
\* read before (carryOverIdentity); nodes without one start Pending.
CarryOver(nodes, old) ==
  [n \in nodes |-> IF n \in DOMAIN old THEN old[n]
                                       ELSE [phase |-> "Pending", observed |-> FALSE]]

\* Mutant: the prune query skips one row less.
KeptOneLess(g, numbers) == Cardinality({h \in numbers : h > g}) + 1 < Retained

\* A snapshot stays while fewer than Retained snapshots are newer.
Kept(g, numbers) == Cardinality({h \in numbers : h > g}) < Retained

SaveGeneration(g, snap) ==
  LET numbers == DOMAIN gens \cup {g}
  IN [h \in {k \in numbers : Kept(k, numbers)} |-> IF h = g THEN snap ELSE gens[h]]

----------------------------------------------------------------------------
(* Requests *)

\* A request reads the lab and the node rows into memory.
Take(w, kind, pc) ==
  /\ work[w].pc = "idle"
  /\ kind \in Kinds
  /\ lab # None
  /\ work' = [work EXCEPT ![w] = [NoWork EXCEPT !.kind = kind, !.pc = pc, !.lab = lab,
                                                !.gen = lab.gen, !.rows = rows,
                                                !.nodes = DOMAIN rows]]

Goto(w, pc) == work' = [work EXCEPT ![w].pc = pc]

\* Operations are created Queued and become Running in the same request,
\* unless the request fails in between.
StoreOp(w, kind, plan, state) ==
  ops' = [ops EXCEPT ![w] = [kind |-> kind, plan |-> plan, state |-> state]]

StartOp(w, kind, plan) == StoreOp(w, kind, plan, "Running")

CreateLab(s) ==
  /\ lab = None
  /\ ~deleted
  /\ lab' = [gen |-> 0, phase |-> "Pending", shape |-> s]
  /\ UNCHANGED <<deleted, rows, plans, gens, dirs, cont, work, ops, sweep>>

\* Mutant: UpdateTopology is never refused.
TopologyReadAlways(w) ==
  /\ Take(w, "topology", "write")
  /\ UNCHANGED <<lab, deleted, rows, plans, gens, dirs, cont, ops, sweep>>

\* UpdateTopology is refused while a plan is being applied.
TopologyRead(w) ==
  /\ Take(w, "topology", "write")
  /\ lab.phase # "Applying"
  /\ UNCHANGED <<lab, deleted, rows, plans, gens, dirs, cont, ops, sweep>>

TopologyWrite(w, s) ==
  /\ work[w].pc = "write"
  /\ lab' = UpdateLab([work[w].lab EXCEPT !.shape = s])
  /\ work' = [work EXCEPT ![w] = NoWork]
  /\ UNCHANGED <<deleted, rows, plans, gens, dirs, cont, ops, sweep>>

----------------------------------------------------------------------------
(* Planning *)

FreePlan(p) == plans[p] = None /\ \A w \in Workers : work[w].plan # p

Planning(w, kind, p, shape, nodes) ==
  /\ work[w].pc = "idle"
  /\ kind \in Kinds
  /\ lab.gen < MaxGen
  /\ FreePlan(p)
  /\ work' = [work EXCEPT ![w] = [NoWork EXCEPT
       !.kind = kind, !.pc = "replace", !.lab = [lab EXCEPT !.shape = shape], !.rows = rows,
       !.nodes = nodes, !.plan = p]]
  /\ UNCHANGED <<lab, deleted, rows, plans, gens, dirs, cont, ops, sweep>>

\* CreatePlan builds what the spec asks for.  It does not look at the phase.
PlanRead(w, p) ==
  /\ lab # None
  /\ lab.gen > 0 => lab.gen \in DOMAIN gens
  /\ Planning(w, "plan", p, lab.shape, lab.shape)

\* CreateRollbackPlan takes a retained snapshot, and its spec with it.
RollbackRead(w, p, g) ==
  /\ lab # None
  /\ lab.gen # 0
  /\ g # lab.gen
  /\ {g, lab.gen} \subseteq DOMAIN gens
  /\ Planning(w, "rollback", p, gens[g].shape, gens[g].nodes)

PlanReplace(w) ==
  /\ work[w].pc = "replace"
  /\ rows' = CarryOver(work[w].nodes, work[w].rows)
  /\ Goto(w, "record")
  /\ UNCHANGED <<lab, deleted, plans, gens, dirs, cont, ops, sweep>>

PlanRecord(w) ==
  /\ work[w].pc = "record"
  /\ plans' = [plans EXCEPT ![work[w].plan] =
       [base |-> work[w].lab.gen, state |-> "Pending", nodes |-> work[w].nodes]]
  /\ Goto(w, "phase")
  /\ UNCHANGED <<lab, deleted, rows, gens, dirs, cont, ops, sweep>>

\* The lab document that is written is the one the request began with.
PlanPhase(w) ==
  /\ work[w].pc = "phase"
  /\ lab' = UpdateLab([work[w].lab EXCEPT !.phase = "Planning"])
  /\ work' = [work EXCEPT ![w] = NoWork]
  /\ UNCHANGED <<deleted, rows, plans, gens, dirs, cont, ops, sweep>>

----------------------------------------------------------------------------
(* Applying a plan *)

\* Only a pending plan whose base is the deployed generation.
Applicable(p) ==
  /\ plans[p] # None
  /\ plans[p].state = "Pending"
  /\ plans[p].base = lab.gen

ApplyRead(w, p) ==
  /\ work[w].pc = "idle"
  /\ "apply" \in Kinds
  /\ lab # None
  /\ Applicable(p)
  /\ work' = [work EXCEPT ![w] = [NoWork EXCEPT !.kind = "apply", !.pc = "start",
                                                !.lab = lab, !.gen = plans[p].base,
                                                !.plan = p]]
  /\ UNCHANGED <<lab, deleted, rows, plans, gens, dirs, cont, ops, sweep>>

\* The rest of the request.  What will be deployed is the rows of this moment.
ApplyStart(w) ==
  LET base == work[w].gen
      doc  == [work[w].lab EXCEPT !.phase = "Applying"]
  IN /\ work[w].pc = "start" /\ work[w].kind = "apply"
     /\ IF lab = None \/ (base > 0 /\ base \notin DOMAIN gens)
          THEN /\ IF base = 0 THEN StoreOp(w, "apply", work[w].plan, "Queued")
                              ELSE UNCHANGED ops
               /\ work' = [work EXCEPT ![w] = NoWork]
               /\ UNCHANGED lab
          ELSE /\ lab' = doc
               /\ StartOp(w, "apply", work[w].plan)
               /\ work' = [work EXCEPT ![w] =
                    [@ EXCEPT !.pc = "prepare", !.lab = doc, !.rows = rows,
                              !.nodes = DOMAIN rows,
                              !.base = IF base > 0 THEN gens[base].nodes ELSE {}]]
     /\ UNCHANGED <<deleted, rows, plans, gens, dirs, cont, sweep>>

\* EnsureImages, CompileArtifacts and WriteArtifacts.
ApplyPrepare(w) ==
  /\ work[w].pc = "prepare"
  /\ dirs' = [dirs EXCEPT ![work[w].gen + 1] = work[w].nodes]
  /\ Goto(w, "save")
  /\ UNCHANGED <<lab, deleted, rows, plans, gens, cont, ops, sweep>>

ApplySave(w) ==
  /\ work[w].pc = "save"
  /\ gens' = SaveGeneration(work[w].gen + 1,
                            [shape |-> work[w].lab.shape, nodes |-> work[w].nodes])
  /\ Goto(w, "deploy")
  /\ UNCHANGED <<lab, deleted, rows, plans, dirs, cont, ops, sweep>>

\* DeployTopology deploys a directory from scratch, or the difference
\* between the base snapshot and the rows that were read (buildIncrement).
\* RepairLab deploys the directory of the generation it read.
FullDeploy(w) == work[w].kind = "repair" \/ work[w].gen = 0
Deployed(w)   == IF work[w].kind = "repair" THEN dirs[work[w].gen] ELSE dirs[1]

DeployBegin(w) ==
  /\ work[w].pc = "deploy"
  /\ work' = [work EXCEPT ![w].pc = "add", ![w].todo =
       IF FullDeploy(w) THEN Deployed(w) ELSE work[w].nodes \ work[w].base]
  /\ UNCHANGED <<lab, deleted, rows, plans, gens, dirs, cont, ops, sweep>>

\* A container that is left of an earlier attempt goes first (createNode);
\* deploy --reconfigure also takes away what is not in its directory.
ClearNode(w, n) ==
  /\ work[w].pc = "add"
  /\ n \in work[w].todo \/ (FullDeploy(w) /\ n \notin Deployed(w))
  /\ cont[n] # "missing"
  /\ cont' = [cont EXCEPT ![n] = "missing"]
  /\ UNCHANGED <<lab, deleted, rows, plans, gens, dirs, work, ops, sweep>>

AddNode(w, n) ==
  /\ work[w].pc = "add"
  /\ n \in work[w].todo
  /\ cont' = [cont EXCEPT ![n] = "running"]
  /\ work' = [work EXCEPT ![w].todo = @ \ {n}]
  /\ UNCHANGED <<lab, deleted, rows, plans, gens, dirs, ops, sweep>>

\* Containers are removed last.
AddDone(w) ==
  /\ work[w].pc = "add"
  /\ work[w].todo = {}
  /\ FullDeploy(w) => \A n \in Nodes \ Deployed(w) : cont[n] = "missing"
  /\ work' = [work EXCEPT ![w].pc = "remove", ![w].todo = work[w].base \ work[w].nodes]
  /\ UNCHANGED <<lab, deleted, rows, plans, gens, dirs, cont, ops, sweep>>

RemoveNode(w, n) ==
  /\ work[w].pc \in {"remove", "destroy"}
  /\ n \in work[w].todo
  /\ cont' = [cont EXCEPT ![n] = "missing"]
  /\ work' = [work EXCEPT ![w].todo = @ \ {n}]
  /\ UNCHANGED <<lab, deleted, rows, plans, gens, dirs, ops, sweep>>

RemoveDone(w) ==
  /\ work[w].pc = "remove"
  /\ work[w].todo = {}
  /\ Goto(w, "validate")
  /\ UNCHANGED <<lab, deleted, rows, plans, gens, dirs, cont, ops, sweep>>

\* The validators ask every device for its sessions and for an answer.
Validated(w) == \A n \in work[w].nodes : cont[n] = "running"

\* ValidateControlPlane and ValidateDataPlane, with the steps around them
\* that leave this state alone (prune, internet, capture tool, programs).
Validate(w) ==
  /\ work[w].pc = "validate"
  /\ Validated(w)
  /\ Goto(w, IF work[w].kind = "apply" THEN "finish" ELSE "lab")
  /\ UNCHANGED <<lab, deleted, rows, plans, gens, dirs, cont, ops, sweep>>

----------------------------------------------------------------------------
(* Repair, power and delete *)

\* RepairLab does not touch the phase before it ends.
RepairRead(w) ==
  /\ Take(w, "repair", "deploy")
  /\ lab.gen # 0
  /\ StartOp(w, "repair", None)
  /\ UNCHANGED <<lab, deleted, rows, plans, gens, dirs, cont, sweep>>

\* powerLab; every device of the rows is handed to the driver.
PowerLab(w, kind) ==
  /\ work[w].pc = "idle"
  /\ kind \in Kinds
  /\ lab # None
  /\ lab.gen # 0
  /\ work' = [work EXCEPT ![w] = [NoWork EXCEPT
       !.kind = kind, !.pc = "power", !.lab = lab, !.rows = rows, !.todo = DOMAIN rows]]
  /\ StartOp(w, kind, None)
  /\ UNCHANGED <<lab, deleted, rows, plans, gens, dirs, cont, sweep>>

\* powerNode is synchronous: it has no operation.
PowerNode(w, kind, n) ==
  /\ work[w].pc = "idle"
  /\ kind \in Kinds
  /\ lab # None
  /\ lab.gen # 0
  /\ n \in DOMAIN rows
  /\ work' = [work EXCEPT ![w] = [NoWork EXCEPT
       !.kind = kind, !.pc = "power", !.lab = lab, !.rows = rows, !.nodes = {n}, !.todo = {n}]]
  /\ UNCHANGED <<lab, deleted, rows, plans, gens, dirs, cont, ops, sweep>>

Starting(kind) == kind \in {"startLab", "startNode"}

\* StartNodes unpauses what is paused, StopNodes pauses what runs.
Powered(kind, state) ==
  IF Starting(kind) /\ state = "paused" THEN "running"
  ELSE IF ~Starting(kind) /\ state = "running" THEN "paused" ELSE state

PowerStep(w, n) ==
  /\ work[w].pc = "power"
  /\ n \in work[w].todo
  /\ cont' = [cont EXCEPT ![n] = Powered(work[w].kind, @)]
  /\ work' = [work EXCEPT ![w].todo = @ \ {n}]
  /\ UNCHANGED <<lab, deleted, rows, plans, gens, dirs, ops, sweep>>

PowerDone(w) ==
  /\ work[w].pc = "power"
  /\ work[w].todo = {}
  /\ Goto(w, "finish")
  /\ UNCHANGED <<lab, deleted, rows, plans, gens, dirs, cont, ops, sweep>>

DeleteRead(w) ==
  /\ Take(w, "delete", "start")
  /\ UNCHANGED <<lab, deleted, rows, plans, gens, dirs, cont, ops, sweep>>

\* A lab that was never applied has nothing to destroy.
DeleteStart(w) ==
  /\ work[w].pc = "start" /\ work[w].kind = "delete"
  /\ IF lab = None
       THEN /\ StoreOp(w, "delete", None, "Queued")
            /\ work' = [work EXCEPT ![w] = NoWork]
            /\ UNCHANGED lab
       ELSE /\ lab' = [work[w].lab EXCEPT !.phase = "Deleting"]
            /\ StartOp(w, "delete", None)
            /\ work' = [work EXCEPT ![w].pc = "destroy",
                                    ![w].todo = IF work[w].gen = 0 THEN {} ELSE Nodes]
  /\ UNCHANGED <<deleted, rows, plans, gens, dirs, cont, sweep>>

DestroyDone(w) ==
  /\ work[w].pc = "destroy"
  /\ work[w].todo = {}
  /\ Goto(w, "erase")
  /\ UNCHANGED <<lab, deleted, rows, plans, gens, dirs, cont, ops, sweep>>

\* DeleteResources: one transaction.
DeleteResources(w) ==
  /\ work[w].pc = "erase"
  /\ lab' = None
  /\ deleted' = TRUE
  /\ rows' = NoRows
  /\ plans' = [p \in Plans |-> None]
  /\ gens' = [g \in {} |-> None]
  /\ Goto(w, "report")
  /\ UNCHANGED <<dirs, cont, ops, sweep>>

----------------------------------------------------------------------------
(* The end of an operation *)

\* Mutant: a failed step ends the operation without onDone.
ReportsOnly(w) == work' = [work EXCEPT ![w].pc = "report", ![w].ok = FALSE]

\* A failed step skips the rest; deletes have no onDone, and a node's power
\* request just returns the error.
FailStep(w) ==
  work' = IF work[w].kind \in NodeKinds THEN [work EXCEPT ![w] = NoWork]
          ELSE [work EXCEPT ![w].pc = IF work[w].kind = "delete" THEN "report" ELSE "failed",
                            ![w].ok = FALSE]

StepFails(w) ==
  /\ work[w].pc \in {"prepare", "save", "deploy", "add", "remove", "validate", "power",
                     "destroy", "erase"}
  /\ FailStep(w)
  /\ UNCHANGED <<lab, deleted, rows, plans, gens, dirs, cont, ops, sweep>>

PhaseOf(kind) == IF kind \in {"stopLab", "stopNode"} THEN "Stopped" ELSE "Running"

\* The nodes as the use case will store them.
FinalRows(x) ==
  CASE x.kind = "apply"       -> [n \in x.nodes |-> [phase |-> "Running", observed |-> TRUE]]
    [] x.kind \in PowerKinds  -> [n \in DOMAIN x.rows |-> [x.rows[n] EXCEPT !.phase = PhaseOf(x.kind)]]
    [] x.kind \in NodeKinds   -> [n \in x.nodes |-> [x.rows[n] EXCEPT !.phase = PhaseOf(x.kind)]]

\* Mutant: onDone forgets the plan.
FinishRowsOnly(w) ==
  /\ work[w].pc = "finish"
  /\ rows' = UpdateNodes(FinalRows(work[w]))
  /\ work' = [work EXCEPT ![w].pc = "lab"]
  /\ UNCHANGED <<lab, deleted, plans, gens, dirs, cont, ops, sweep>>

\* onDone stores the plan and the nodes; powerNode its node, if it is there.
FinishRows(w) ==
  /\ work[w].pc = "finish"
  /\ rows' = UpdateNodes(FinalRows(work[w]))
  /\ plans' = IF work[w].kind = "apply" /\ plans[work[w].plan] # None
                THEN [plans EXCEPT ![work[w].plan].state = "Applied"] ELSE plans
  /\ work' = IF work[w].kind \in NodeKinds /\ work[w].nodes \cap DOMAIN rows = {}
               THEN [work EXCEPT ![w] = NoWork]
               ELSE [work EXCEPT ![w].pc = "lab"]
  /\ UNCHANGED <<lab, deleted, gens, dirs, cont, ops, sweep>>

\* reconcileLabPhase counts the node documents of the request.
ReconciledPhase(x) ==
  LET down == {n \in DOMAIN x.rows :
                 IF n \in x.nodes THEN PhaseOf(x.kind) = "Stopped"
                                  ELSE x.rows[n].phase = "Stopped"}
  IN IF down = {} THEN "Running"
     ELSE IF down = DOMAIN x.rows THEN "Stopped" ELSE "Degraded"

\* The lab document at the end: the one read at the start, amended.
FinalLab(x) ==
  IF ~x.ok THEN [x.lab EXCEPT !.phase = "Failed"]
  ELSE IF x.kind = "apply" THEN [x.lab EXCEPT !.phase = "Running", !.gen = x.gen + 1]
  ELSE IF x.kind \in NodeKinds THEN [x.lab EXCEPT !.phase = ReconciledPhase(x)]
  ELSE [x.lab EXCEPT !.phase = PhaseOf(x.kind)]

FinishLab(w) ==
  /\ work[w].pc \in {"lab", "failed"}
  /\ lab' = UpdateLab(FinalLab(work[w]))
  /\ work' = IF work[w].kind \in NodeKinds THEN [work EXCEPT ![w] = NoWork]
                                           ELSE [work EXCEPT ![w].pc = "report"]
  /\ UNCHANGED <<deleted, rows, plans, gens, dirs, cont, ops, sweep>>

\* The final state of the operation is stored after onDone.
Report(w) ==
  /\ work[w].pc = "report"
  /\ ops' = [ops EXCEPT ![w].state = IF work[w].ok THEN "Succeeded" ELSE "Failed"]
  /\ work' = [work EXCEPT ![w] = NoWork]
  /\ UNCHANGED <<lab, deleted, rows, plans, gens, dirs, cont, sweep>>

----------------------------------------------------------------------------
(* The observer *)

Observable == lab # None /\ lab.gen > 0 /\ lab.phase \notin {"Applying", "Deleting"}

SweepLab ==
  /\ Observes
  /\ sweep.pc = "idle"
  /\ Observable
  /\ sweep' = [NoSweep EXCEPT !.pc = "nodes", !.lab = lab]
  /\ UNCHANGED <<lab, deleted, rows, plans, gens, dirs, cont, work, ops>>

\* sweepLab looks at deployed nodes only; the deep sweep takes its time.
SweepNodes ==
  LET seen == {n \in DOMAIN rows : rows[n].observed}
  IN /\ sweep.pc = "nodes"
     /\ sweep' = IF seen = {} THEN NoSweep
                 ELSE [sweep EXCEPT !.pc = "reconcile", !.rows = [n \in seen |-> rows[n]],
                                    !.states = cont]
     /\ UNCHANGED <<lab, deleted, rows, plans, gens, dirs, cont, work, ops>>

\* Mutant: a device in an unknown state gets a phase that only labs have.
PhaseForLab(state) == IF state = "running" THEN "Running"
                      ELSE IF state = "paused" THEN "Stopped" ELSE "Degraded"

PhaseFor(state) == CASE state = "running" -> "Running"
                     [] state = "paused"  -> "Stopped"
                     [] OTHER             -> "Failed"

\* Mutant: what is not running is degraded.
SweptPhaseNoStop(nodes, states) ==
  IF \A n \in nodes : PhaseFor(states[n]) = "Running" THEN "Running" ELSE "Degraded"

SweptPhase(nodes, states) ==
  IF \A n \in nodes : PhaseFor(states[n]) = "Running" THEN "Running"
  ELSE IF \A n \in nodes : PhaseFor(states[n]) = "Stopped" THEN "Stopped" ELSE "Degraded"

\* reconcile stores the nodes whose phase, or whose metrics, changed, and
\* the lab when its phase is steady and differs.
Reconcile ==
  LET nodes == DOMAIN sweep.rows
      phase == SweptPhase(nodes, sweep.states)
  IN /\ sweep.pc = "reconcile"
     /\ \E metrics \in SUBSET nodes :
          rows' = UpdateNodes([n \in {m \in nodes : \/ m \in metrics
                                                    \/ sweep.rows[m].phase # PhaseFor(sweep.states[m])} |->
                                 [sweep.rows[n] EXCEPT !.phase = PhaseFor(sweep.states[n])]])
     /\ lab' = IF sweep.lab.phase \in {"Running", "Stopped", "Degraded", "Failed"} \ {phase}
                 THEN UpdateLab([sweep.lab EXCEPT !.phase = phase]) ELSE lab
     /\ sweep' = NoSweep
     /\ UNCHANGED <<deleted, plans, gens, dirs, cont, work, ops>>

----------------------------------------------------------------------------

\* The controller dies and comes back: nothing resumes its operations.
Crash ==
  /\ Crashes
  /\ \E w \in Workers : work[w].pc # "idle"
  /\ work' = [w \in Workers |-> NoWork]
  /\ sweep' = NoSweep
  /\ UNCHANGED <<lab, deleted, rows, plans, gens, dirs, cont, ops>>

Requests(w) ==
  \/ TopologyRead(w) \/ ApplyStart(w) \/ RepairRead(w) \/ DeleteRead(w) \/ DeleteStart(w)
  \/ \E s \in Shapes : TopologyWrite(w, s)
  \/ \E p \in Plans : PlanRead(w, p) \/ ApplyRead(w, p)
  \/ \E p \in Plans, g \in DOMAIN gens : RollbackRead(w, p, g)
  \/ PlanReplace(w) \/ PlanRecord(w) \/ PlanPhase(w)
  \/ \E kind \in PowerKinds : PowerLab(w, kind)
  \/ \E kind \in NodeKinds, n \in Nodes : PowerNode(w, kind, n)

\* The steps of an operation, run by the goroutine of operation.Manager.Run.
Execute(w) ==
  \/ ApplyPrepare(w) \/ ApplySave(w) \/ DeployBegin(w) \/ AddDone(w) \/ RemoveDone(w)
  \/ Validate(w) \/ PowerDone(w) \/ DestroyDone(w) \/ DeleteResources(w)
  \/ \E n \in Nodes : ClearNode(w, n) \/ AddNode(w, n) \/ RemoveNode(w, n) \/ PowerStep(w, n)
  \/ StepFails(w) \/ FinishRows(w) \/ FinishLab(w) \/ Report(w)

Observer == SweepLab \/ SweepNodes \/ Reconcile

Next ==
  \/ \E s \in Shapes : CreateLab(s)
  \/ \E w \in Workers : Requests(w) \/ Execute(w)
  \/ Observer
  \/ Crash

Spec == Init /\ [][Next]_vars

\* Every step of an operation ends or is ended by the operation's timeout,
\* and Go goes on with the goroutine.
FairSpec == Spec /\ \A w \in Workers : WF_vars(Execute(w))

\* The observer's ticker fires and a sweep ends: its calls have timeouts.
ObservedSpec == FairSpec /\ WF_vars(Observer)

----------------------------------------------------------------------------
(* Properties *)

\* The snapshot of the deployed generation is always retained, although a
\* failed apply has already saved the next one and pruned: planning, apply
\* and rollback can always load their base (SaveGeneration, GetGeneration).
DeployedIsRetained ==
  lab # None /\ lab.gen > 0 => lab.gen \in DOMAIN gens

\* A lab says Applying only while an apply is under way: no other request
\* writes a copy of the document that still says so (UpdateLab).
ApplyingIsUnderWay ==
  lab # None /\ lab.phase = "Applying" =>
    \E w \in Workers : work[w].kind = "apply" /\ work[w].pc \notin {"idle", "start", "report"}

\* A client that reads a finished apply finds its plan applied, or the lab
\* deleted: Run stores the final state only after onDone.
ReportedIsFinal ==
  \A w \in Workers :
    ops[w].kind = "apply" /\ ops[w].state = "Succeeded" /\ ~deleted =>
      plans[ops[w].plan].state = "Applied"

\* A lab does not say Applying for ever (Run, onDone).
ApplyingEnds ==
  (lab # None /\ lab.phase = "Applying") ~> (lab = None \/ lab.phase # "Applying")

Observed == {n \in DOMAIN rows : rows[n].observed}

\* Once nobody changes the lab any more, a steady phase tells what runs:
\* the observer corrects drift, also the one a crash or a failed operation
\* left (reconcile).
DriftIsCorrected ==
  <>[](\A w \in Workers : work[w].pc = "idle") =>
    <>[](lab # None /\ lab.gen > 0 /\ Observed # {}
           /\ lab.phase \in {"Running", "Stopped", "Degraded", "Failed"}
         => /\ lab.phase # "Failed"
            /\ lab.phase = "Running" <=> \A n \in Observed : cont[n] = "running"
            /\ lab.phase = "Stopped" <=> \A n \in Observed : cont[n] = "paused")

=============================================================================
