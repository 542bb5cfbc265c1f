-------------------------- MODULE LabChangeProofs --------------------------
(***************************************************************************)
(* Proofs about LabChange, for any devices, topologies, plans, requests    *)
(* and bound on generations: the type invariant; that a lab says Applying  *)
(* only while an apply is under way; that a finished apply has applied its *)
(* plan; and, for one request at a time, that the deployed generation      *)
(* keeps its snapshot.                                                     *)
(*                                                                         *)
(* The type invariant is not inductive: that a generation number stays in  *)
(* its range, that a request in flight has a document to write back and    *)
(* that onDone knows the kind of its operation depend on how the request   *)
(* got where it is.  References says that.  The last two results add what  *)
(* an operation has stored by the step it is at (Reporting, Retention),    *)
(* over an outline of the steps that write no table (Begin, Glide).        *)
(***************************************************************************)
EXTENDS LabChange, FiniteSetTheorems, TLAPS

\* What a request in flight has read, by the step it is at.
GoodWork(x) ==
  /\ x.pc # "idle" => x.lab \in Lab
  /\ x.pc = "write" => x.lab.phase # "Applying"
  /\ x.pc \in {"replace", "record"} => x.lab.gen < MaxGen /\ x.plan \in Plans
  /\ x.kind = "apply" => x.gen < MaxGen /\ x.plan \in Plans
  /\ x.kind = "repair" => x.gen > 0
  /\ x.pc \in {"prepare", "save"} => x.kind = "apply"
  /\ x.pc = "deploy" => x.kind \in {"apply", "repair"}
  /\ x.pc = "power" => x.kind \in PowerKinds \cup NodeKinds
  /\ x.pc = "finish" => x.kind \in {"apply"} \cup PowerKinds \cup NodeKinds
  /\ x.kind \in NodeKinds => x.nodes \subseteq DOMAIN x.rows

PlanRefs  == \A p \in Plans : plans[p] # None => plans[p].base < MaxGen
WorkRefs  == \A w \in Workers : GoodWork(work[w])
SweepRefs == sweep.pc # "idle" => sweep.lab \in Lab /\ sweep.lab.phase # "Applying"

References == PlanRefs /\ WorkRefs /\ SweepRefs

\* The inductive invariant.
IInv == TypeOK /\ References

\* The generations table holds snapshots of some generations.
Gens == UNION {[g -> Snapshot] : g \in SUBSET (1 .. MaxGen)}

----------------------------------------------------------------------------
(* What the helpers return *)

\* Node documents are indexed by some of the names.
LEMMA RowsElim ==
  ASSUME NEW f \in Rows
  PROVE  DOMAIN f \in SUBSET Nodes /\ f \in [DOMAIN f -> Row]
<1>1. PICK s \in SUBSET Nodes : f \in [s -> Row]
  BY DEF Rows
<1> QED
  BY <1>1

\* ... and any such documents are node documents.
LEMMA RowsIntro ==
  ASSUME NEW s \in SUBSET Nodes, NEW f \in [s -> Row]
  PROVE  f \in Rows
  BY DEF Rows

\* No rows are rows.
LEMMA NoRowsType == NoRows \in Rows
<1>1. NoRows \in [{} -> Row]
  BY DEF NoRows
<1> QED
  BY <1>1, RowsIntro

\* UpdateNode keeps the rows well formed.
LEMMA UpdateNodesType ==
  ASSUME rows \in Rows, NEW docs \in Rows
  PROVE  UpdateNodes(docs) \in Rows
<1>1. DOMAIN rows \in SUBSET Nodes /\ rows \in [DOMAIN rows -> Row] /\ docs \in [DOMAIN docs -> Row]
  BY RowsElim
<1>2. UpdateNodes(docs) \in [DOMAIN rows -> Row]
  BY <1>1 DEF UpdateNodes
<1> QED
  BY <1>1, <1>2, RowsIntro

\* So does ReplaceTopology.
LEMMA CarryOverType ==
  ASSUME NEW nodes \in SUBSET Nodes, NEW old \in Rows
  PROVE  CarryOver(nodes, old) \in Rows
<1>1. old \in [DOMAIN old -> Row]
  BY RowsElim
<1>2. [phase |-> "Pending", observed |-> FALSE] \in Row
  BY DEF Row
<1>3. CarryOver(nodes, old) \in [nodes -> Row]
  BY <1>1, <1>2 DEF CarryOver
<1> QED
  BY <1>3, RowsIntro

\* A snapshot of the table is a snapshot.
LEMMA GensElim ==
  ASSUME NEW f \in Gens
  PROVE  DOMAIN f \in SUBSET (1 .. MaxGen) /\ f \in [DOMAIN f -> Snapshot]
<1>1. PICK s \in SUBSET (1 .. MaxGen) : f \in [s -> Snapshot]
  BY DEF Gens
<1> QED
  BY <1>1

\* Saving a snapshot and pruning keep the table well formed.
LEMMA SaveGenerationType ==
  ASSUME gens \in Gens, NEW g \in 1 .. MaxGen, NEW snap \in Snapshot
  PROVE  SaveGeneration(g, snap) \in Gens
<1> DEFINE numbers == DOMAIN gens \cup {g}
           kept    == {k \in numbers : Kept(k, numbers)}
<1>1. DOMAIN gens \in SUBSET (1 .. MaxGen) /\ gens \in [DOMAIN gens -> Snapshot]
  BY GensElim
<1>2. kept \in SUBSET (1 .. MaxGen) /\ \A h \in kept : h = g \/ h \in DOMAIN gens
  BY <1>1
<1>3. SaveGeneration(g, snap) = [h \in kept |-> IF h = g THEN snap ELSE gens[h]]
  BY DEF SaveGeneration
<1> HIDE DEF kept, numbers
<1>4. SaveGeneration(g, snap) \in [kept -> Snapshot]
  BY <1>1, <1>2, <1>3
<1> QED
  BY <1>2, <1>4 DEF Gens

\* A worker at rest.
LEMMA NoWorkGood == NoWork \in Work /\ GoodWork(NoWork) /\ NoWork.pc = "idle" /\ NoWork.kind = None
<1>1. NoWork \in Work
  BY NoRowsType, LabAssumptions DEF NoWork, Work
<1> QED
  BY <1>1, LabAssumptions DEF NoWork, GoodWork, AllKinds, PowerKinds, NodeKinds

\* The observer at rest.
LEMMA NoSweepType == NoSweep \in Sweep /\ NoSweep.pc = "idle"
  BY NoRowsType DEF NoSweep, Sweep, Containers

----------------------------------------------------------------------------
(* Steps of one worker *)

\* What is known of a worker.
LEMMA WorkFacts ==
  ASSUME IInv, NEW w \in Workers
  PROVE  work[w] \in Work /\ GoodWork(work[w])
  BY DEF IInv, TypeOK, References, WorkRefs

\* A worker moves on to a well-formed state of its own.
LEMMA WorkUpdate ==
  ASSUME IInv, NEW w \in Workers, NEW v \in Work, GoodWork(v), work' = [work EXCEPT ![w] = v]
  PROVE  work' \in [Workers -> Work] /\ WorkRefs'
<1>1. work \in [Workers -> Work] /\ \A u \in Workers : GoodWork(work[u])
  BY DEF IInv, TypeOK, References, WorkRefs
<1>2. \A u \in Workers : work'[u] = IF u = w THEN v ELSE work[u]
  BY <1>1
<1>3. work' \in [Workers -> Work]
  BY <1>1
<1>4. \A u \in Workers : GoodWork(work'[u])
  BY <1>1, <1>2
<1>5. WorkRefs' <=> \A u \in Workers : GoodWork(work'[u])
  BY DEF WorkRefs, GoodWork
<1> QED
  BY <1>3, <1>4, <1>5

\* A step that changes only a worker and containers.
LEMMA WorkStep ==
  ASSUME IInv, NEW w \in Workers, NEW v \in Work, GoodWork(v), work' = [work EXCEPT ![w] = v],
         cont' \in [Nodes -> Containers],
         UNCHANGED <<lab, deleted, rows, plans, gens, dirs, ops, sweep>>
  PROVE  IInv'
<1>1. work' \in [Workers -> Work] /\ WorkRefs'
  BY WorkUpdate
<1>2. TypeOK'
  BY <1>1 DEF IInv, TypeOK
<1> QED
  BY <1>1, <1>2 DEF IInv, References, PlanRefs, SweepRefs

\* A step that writes the lab or the operations besides.
LEMMA WriteStep ==
  ASSUME IInv, NEW w \in Workers, NEW v \in Work, GoodWork(v), work' = [work EXCEPT ![w] = v],
         lab' \in Lab \cup {None}, ops' \in [Workers -> Op],
         UNCHANGED <<deleted, rows, plans, gens, dirs, cont, sweep>>
  PROVE  IInv'
<1>1. work' \in [Workers -> Work] /\ WorkRefs'
  BY WorkUpdate
<1>2. TypeOK'
  BY <1>1 DEF IInv, TypeOK
<1> QED
  BY <1>1, <1>2 DEF IInv, References, PlanRefs, SweepRefs

\* Operations are stored well formed.
LEMMA StoreOpType ==
  ASSUME IInv, NEW w \in Workers, NEW kind \in AllKinds, NEW plan \in Plans \cup {None},
         NEW state \in {"Queued", "Running"}, StoreOp(w, kind, plan, state)
  PROVE  ops' \in [Workers -> Op]
  BY DEF IInv, TypeOK, StoreOp, Op

\* A request that has read the lab.
LEMMA TakeStep ==
  ASSUME IInv, NEW w \in Workers, NEW kind \in AllKinds \ ({"apply"} \cup NodeKinds),
         NEW pc \in {"write", "start", "deploy"}, Take(w, kind, pc),
         pc = "write" => lab.phase # "Applying", pc = "deploy" => kind = "repair",
         kind = "repair" => lab.gen # 0,
         lab' = lab, ops' \in [Workers -> Op],
         UNCHANGED <<deleted, rows, plans, gens, dirs, cont, sweep>>
  PROVE  IInv'
<1> DEFINE v == [NoWork EXCEPT !.kind = kind, !.pc = pc, !.lab = lab, !.gen = lab.gen,
                               !.rows = rows, !.nodes = DOMAIN rows]
<1>1. lab \in Lab /\ lab.gen \in 0 .. MaxGen /\ rows \in Rows
  BY DEF IInv, TypeOK, Take, Lab
<1>2. DOMAIN rows \in SUBSET Nodes
  BY <1>1, RowsElim
<1>3. v \in Work
  BY <1>1, <1>2, NoWorkGood DEF Work
<1>4. v.kind = kind /\ v.pc = pc /\ v.lab = lab /\ v.gen = lab.gen
  BY NoWorkGood DEF Work
<1>5. GoodWork(v)
  BY <1>1, <1>4 DEF GoodWork, PowerKinds, NodeKinds
<1>6. work' = [work EXCEPT ![w] = v]
  BY DEF Take
<1> HIDE DEF v
<1> QED
  BY <1>1, <1>3, <1>5, <1>6, WriteStep

\* CreateLab inserts a well-formed row.
LEMMA CreateLabStep ==
  ASSUME IInv, NEW s \in Shapes, CreateLab(s)
  PROVE  IInv'
<1>1. lab' \in Lab
  BY LabAssumptions DEF CreateLab, Lab, Phases
<1>2. TypeOK'
  BY <1>1 DEF IInv, TypeOK, CreateLab
<1> QED
  BY <1>2 DEF IInv, References, PlanRefs, WorkRefs, SweepRefs, GoodWork, CreateLab

\* UpdateTopology reads a lab that is not being applied.
LEMMA TopologyReadStep ==
  ASSUME IInv, NEW w \in Workers, TopologyRead(w)
  PROVE  IInv'
<1>1. "topology" \in AllKinds \ ({"apply"} \cup NodeKinds)
  BY DEF AllKinds, NodeKinds
<1>2. ops' \in [Workers -> Op]
  BY DEF IInv, TypeOK, TopologyRead
<1> QED
  BY <1>1, <1>2, TakeStep DEF TopologyRead

\* UpdateTopology writes the document it read, with another spec.
LEMMA TopologyWriteStep ==
  ASSUME IInv, NEW w \in Workers, NEW s \in Shapes, TopologyWrite(w, s)
  PROVE  IInv'
<1>1. work[w].lab \in Lab
  BY WorkFacts DEF GoodWork, TopologyWrite
<1>2. lab' \in Lab \cup {None}
  BY <1>1 DEF TopologyWrite, UpdateLab, Lab
<1>3. ops' \in [Workers -> Op]
  BY DEF IInv, TypeOK, TopologyWrite
<1> QED
  BY <1>2, <1>3, NoWorkGood, WriteStep DEF TopologyWrite

\* A plan that is being made.
LEMMA PlanningStep ==
  ASSUME IInv, NEW w \in Workers, NEW kind \in {"plan", "rollback"}, NEW p \in Plans,
         NEW shape \in Shapes, NEW nodes \in SUBSET Nodes, lab # None,
         Planning(w, kind, p, shape, nodes)
  PROVE  IInv'
<1> DEFINE v == [NoWork EXCEPT !.kind = kind, !.pc = "replace",
                               !.lab = [lab EXCEPT !.shape = shape], !.rows = rows,
                               !.nodes = nodes, !.plan = p]
<1>1. lab \in Lab /\ rows \in Rows /\ lab.gen < MaxGen
  BY DEF IInv, TypeOK, Planning
<1>2. [lab EXCEPT !.shape = shape] \in Lab /\ [lab EXCEPT !.shape = shape].gen = lab.gen
  BY <1>1 DEF Lab
<1>3. v \in Work
  BY <1>1, <1>2, NoWorkGood DEF Work, AllKinds
<1>4. v.kind = kind /\ v.pc = "replace" /\ v.lab = [lab EXCEPT !.shape = shape] /\ v.plan = p
  BY NoWorkGood DEF Work
<1>5. GoodWork(v)
  BY <1>1, <1>2, <1>4 DEF GoodWork, PowerKinds, NodeKinds
<1>6. work' = [work EXCEPT ![w] = v] /\ cont' \in [Nodes -> Containers]
  BY DEF Planning, IInv, TypeOK
<1> HIDE DEF v
<1> QED
  BY <1>3, <1>5, <1>6, WorkStep DEF Planning

\* CreatePlan builds a topology of the spec.
LEMMA PlanReadStep ==
  ASSUME IInv, NEW w \in Workers, NEW p \in Plans, PlanRead(w, p)
  PROVE  IInv'
<1>1. lab.shape \in Shapes /\ lab.shape \in SUBSET Nodes /\ lab # None
  BY LabAssumptions DEF IInv, TypeOK, PlanRead, Lab
<1> QED
  BY <1>1, PlanningStep DEF PlanRead

\* CreateRollbackPlan takes a topology from a snapshot.
LEMMA RollbackReadStep ==
  ASSUME IInv, NEW w \in Workers, NEW p \in Plans, NEW g \in DOMAIN gens, RollbackRead(w, p, g)
  PROVE  IInv'
<1>1. gens \in Gens
  BY DEF IInv, TypeOK, Gens
<1>2. gens[g] \in Snapshot
  BY <1>1, GensElim
<1>3. gens[g].shape \in Shapes /\ gens[g].nodes \in SUBSET Nodes /\ lab # None
  BY <1>2 DEF Snapshot, RollbackRead
<1> QED
  BY <1>3, PlanningStep DEF RollbackRead

\* ReplaceTopology writes well-formed rows.
LEMMA PlanReplaceStep ==
  ASSUME IInv, NEW w \in Workers, PlanReplace(w)
  PROVE  IInv'
<1> DEFINE v == [work[w] EXCEPT !.pc = "record"]
<1>1. work[w] \in Work /\ GoodWork(work[w]) /\ work[w].pc = "replace"
  BY WorkFacts DEF PlanReplace
<1>2. rows' \in Rows
  BY <1>1, CarryOverType DEF PlanReplace, Work
<1>3. v \in Work
  BY <1>1 DEF Work
<1>4. GoodWork(v)
  BY <1>1 DEF GoodWork, Work
<1>5. work' = [work EXCEPT ![w] = v]
  BY DEF PlanReplace, Goto
<1> HIDE DEF v
<1>6. work' \in [Workers -> Work] /\ WorkRefs'
  BY <1>3, <1>4, <1>5, WorkUpdate
<1>7. TypeOK'
  BY <1>2, <1>6 DEF IInv, TypeOK, PlanReplace
<1> QED
  BY <1>6, <1>7 DEF IInv, References, PlanRefs, SweepRefs, PlanReplace

\* A stored plan has a base below the bound.
LEMMA PlanRecordStep ==
  ASSUME IInv, NEW w \in Workers, PlanRecord(w)
  PROVE  IInv'
<1> DEFINE q == [base |-> work[w].lab.gen, state |-> "Pending", nodes |-> work[w].nodes]
           v == [work[w] EXCEPT !.pc = "phase"]
<1>1. /\ work[w] \in Work /\ GoodWork(work[w]) /\ work[w].pc = "record"
      /\ work[w].lab \in Lab /\ work[w].plan \in Plans /\ work[w].lab.gen < MaxGen
  BY WorkFacts DEF PlanRecord, GoodWork
<1>2. q \in Plan /\ q.base < MaxGen
  BY <1>1 DEF Plan, Work, Lab
<1>3. v \in Work /\ GoodWork(v)
  BY <1>1 DEF GoodWork, Work
<1>4. plans' = [plans EXCEPT ![work[w].plan] = q] /\ work' = [work EXCEPT ![w] = v]
  BY DEF PlanRecord, Goto
<1> HIDE DEF q, v
<1>5. plans \in [Plans -> Plan \cup {None}] /\ PlanRefs
  BY DEF IInv, TypeOK, References
<1>6. plans' \in [Plans -> Plan \cup {None}]
  BY <1>1, <1>2, <1>4, <1>5
<1>7. PlanRefs'
  BY <1>1, <1>2, <1>4, <1>5 DEF PlanRefs
<1>8. work' \in [Workers -> Work] /\ WorkRefs'
  BY <1>3, <1>4, WorkUpdate
<1>9. TypeOK'
  BY <1>6, <1>8 DEF IInv, TypeOK, PlanRecord
<1> QED
  BY <1>7, <1>8, <1>9 DEF IInv, References, SweepRefs, PlanRecord

\* The lab is written back as Planning.
LEMMA PlanPhaseStep ==
  ASSUME IInv, NEW w \in Workers, PlanPhase(w)
  PROVE  IInv'
<1>1. work[w].lab \in Lab
  BY WorkFacts DEF PlanPhase, GoodWork
<1>2. lab' \in Lab \cup {None}
  BY <1>1 DEF PlanPhase, UpdateLab, Lab, Phases
<1>3. ops' \in [Workers -> Op]
  BY DEF IInv, TypeOK, PlanPhase
<1> QED
  BY <1>2, <1>3, NoWorkGood, WriteStep DEF PlanPhase

----------------------------------------------------------------------------
(* Applying a plan *)

\* ApplyPlan has a plan and the lab.
LEMMA ApplyReadStep ==
  ASSUME IInv, NEW w \in Workers, NEW p \in Plans, ApplyRead(w, p)
  PROVE  IInv'
<1> DEFINE v == [NoWork EXCEPT !.kind = "apply", !.pc = "start", !.lab = lab,
                               !.gen = plans[p].base, !.plan = p]
<1>1. lab \in Lab /\ plans[p] \in Plan /\ plans[p].base < MaxGen
  BY DEF IInv, TypeOK, References, PlanRefs, ApplyRead, Applicable
<1>2. v \in Work
  BY <1>1, NoWorkGood DEF Work, Plan, AllKinds
<1>3. v.kind = "apply" /\ v.pc = "start" /\ v.lab = lab /\ v.gen = plans[p].base /\ v.plan = p
  BY NoWorkGood DEF Work
<1>4. GoodWork(v)
  BY <1>1, <1>3 DEF GoodWork, NodeKinds
<1>5. work' = [work EXCEPT ![w] = v] /\ cont' \in [Nodes -> Containers]
  BY DEF ApplyRead, IInv, TypeOK
<1> HIDE DEF v
<1> QED
  BY <1>2, <1>4, <1>5, WorkStep DEF ApplyRead

\* ApplyPlan writes Applying and has its base, or gives up.
LEMMA ApplyStartStep ==
  ASSUME IInv, NEW w \in Workers, ApplyStart(w)
  PROVE  IInv'
<1> DEFINE base == work[w].gen
           doc  == [work[w].lab EXCEPT !.phase = "Applying"]
           v    == [work[w] EXCEPT !.pc = "prepare", !.lab = doc, !.rows = rows,
                                   !.nodes = DOMAIN rows,
                                   !.base = IF base > 0 THEN gens[base].nodes ELSE {}]
<1>1. /\ work[w] \in Work /\ GoodWork(work[w]) /\ work[w].kind = "apply"
      /\ work[w].lab \in Lab /\ work[w].plan \in Plans
  BY WorkFacts DEF ApplyStart, GoodWork
<1>2. lab \in Lab \cup {None} /\ ops \in [Workers -> Op] /\ rows \in Rows /\ gens \in Gens
  BY DEF IInv, TypeOK, Gens
<1>3. "apply" \in AllKinds
  BY DEF AllKinds
<1>4. CASE lab = None \/ (base > 0 /\ base \notin DOMAIN gens)
  <2>1. work' = [work EXCEPT ![w] = NoWork] /\ lab' = lab
    BY <1>4 DEF ApplyStart
  <2>2. ops' \in [Workers -> Op]
    BY <1>1, <1>2, <1>3, <1>4, StoreOpType DEF ApplyStart
  <2> QED
    BY <1>2, <2>1, <2>2, NoWorkGood, WriteStep DEF ApplyStart
<1>5. CASE ~(lab = None \/ (base > 0 /\ base \notin DOMAIN gens))
  <2>1. lab' = doc /\ StoreOp(w, "apply", work[w].plan, "Running") /\ work' = [work EXCEPT ![w] = v]
    BY <1>5 DEF ApplyStart, StartOp
  <2>2. doc \in Lab
    BY <1>1 DEF Lab, Phases
  <2>3. DOMAIN rows \in SUBSET Nodes
    BY <1>2, RowsElim
  <2>4. base > 0 => gens[base] \in Snapshot
    BY <1>2, <1>5, GensElim
  <2>5. (IF base > 0 THEN gens[base].nodes ELSE {}) \in SUBSET Nodes
    BY <2>4 DEF Snapshot
  <2>6. v \in Work
    BY <1>1, <1>2, <2>2, <2>3, <2>5 DEF Work
  <2>7. v.kind = "apply" /\ v.pc = "prepare" /\ v.lab = doc /\ v.gen = work[w].gen /\ v.plan = work[w].plan
    BY <1>1 DEF Work
  <2>8. GoodWork(v)
    BY <1>1, <2>2, <2>7 DEF GoodWork, NodeKinds
  <2>9. ops' \in [Workers -> Op]
    BY <1>1, <1>3, <2>1, StoreOpType
  <2> HIDE DEF v, doc
  <2> QED
    BY <2>1, <2>2, <2>6, <2>8, <2>9, WriteStep DEF ApplyStart
<1> QED
  BY <1>4, <1>5

\* A worker that only moves on, with some nodes to work on.
LEMMA MoveOn ==
  ASSUME NEW x \in Work, GoodWork(x), x.pc # "idle",
         NEW pc \in {"deploy", "add", "remove", "validate", "erase", "destroy", "lab", "failed", "report"},
         pc = "deploy" => x.kind = "apply", NEW todo \in SUBSET Nodes
  PROVE  /\ [x EXCEPT !.pc = pc, !.todo = todo] \in Work
         /\ GoodWork([x EXCEPT !.pc = pc, !.todo = todo])
         /\ [x EXCEPT !.pc = pc] \in Work /\ GoodWork([x EXCEPT !.pc = pc])
<1>1. [x EXCEPT !.pc = pc] \in Work
  BY DEF Work
<1>2. [x EXCEPT !.pc = pc, !.todo = todo] \in Work
  BY DEF Work
<1>3. GoodWork([x EXCEPT !.pc = pc])
  BY DEF Work, GoodWork
<1>4. GoodWork([x EXCEPT !.pc = pc, !.todo = todo])
  BY DEF Work, GoodWork
<1> QED BY <1>1, <1>2, <1>3, <1>4

\* WriteArtifacts writes one directory.
LEMMA ApplyPrepareStep ==
  ASSUME IInv, NEW w \in Workers, ApplyPrepare(w)
  PROVE  IInv'
<1> DEFINE v == [work[w] EXCEPT !.pc = "save"]
<1>1. work[w] \in Work /\ GoodWork(work[w]) /\ work[w].pc = "prepare"
  BY WorkFacts DEF ApplyPrepare
<1>2. v \in Work
  BY <1>1 DEF Work
<1>3. GoodWork(v)
  BY <1>1 DEF GoodWork, Work
<1>4. work' = [work EXCEPT ![w] = v]
  BY DEF ApplyPrepare, Goto
<1> HIDE DEF v
<1>5. work' \in [Workers -> Work] /\ WorkRefs'
  BY <1>2, <1>3, <1>4, WorkUpdate
<1>6. dirs' \in [1 .. MaxGen -> SUBSET Nodes]
  BY <1>1 DEF ApplyPrepare, IInv, TypeOK, Work
<1>7. TypeOK'
  BY <1>5, <1>6 DEF IInv, TypeOK, ApplyPrepare
<1> QED
  BY <1>5, <1>7 DEF IInv, References, PlanRefs, SweepRefs, ApplyPrepare

\* SaveGeneration saves the generation after the base.
LEMMA ApplySaveStep ==
  ASSUME IInv, NEW w \in Workers, ApplySave(w)
  PROVE  IInv'
<1> DEFINE v == [work[w] EXCEPT !.pc = "deploy"]
           snap == [shape |-> work[w].lab.shape, nodes |-> work[w].nodes]
<1>1. /\ work[w] \in Work /\ GoodWork(work[w]) /\ work[w].pc = "save"
      /\ work[w].gen < MaxGen /\ work[w].lab \in Lab /\ work[w].kind = "apply"
  BY WorkFacts DEF ApplySave, GoodWork
<1>2. v \in Work /\ GoodWork(v)
  BY <1>1, MoveOn
<1>3. work' = [work EXCEPT ![w] = v] /\ gens' = SaveGeneration(work[w].gen + 1, snap)
  BY DEF ApplySave, Goto
<1>4. snap \in Snapshot
  BY <1>1 DEF Snapshot, Work, Lab
<1>5. work[w].gen + 1 \in 1 .. MaxGen /\ gens \in Gens
  BY <1>1, LabAssumptions DEF Work, IInv, TypeOK, Gens
<1> HIDE DEF v, snap
<1>6. gens' \in Gens
  BY <1>3, <1>4, <1>5, SaveGenerationType
<1>7. work' \in [Workers -> Work] /\ WorkRefs'
  BY <1>2, <1>3, WorkUpdate
<1>8. TypeOK'
  BY <1>6, <1>7 DEF IInv, TypeOK, ApplySave, Gens
<1> QED
  BY <1>7, <1>8 DEF IInv, References, PlanRefs, SweepRefs, ApplySave

\* A deploy has a directory or a difference to work on.
LEMMA DeployBeginStep ==
  ASSUME IInv, NEW w \in Workers, DeployBegin(w)
  PROVE  IInv'
<1> DEFINE todo == IF FullDeploy(w) THEN Deployed(w) ELSE work[w].nodes \ work[w].base
           v    == [work[w] EXCEPT !.pc = "add", !.todo = todo]
<1>1. work[w] \in Work /\ GoodWork(work[w]) /\ work[w].pc = "deploy"
  BY WorkFacts DEF DeployBegin
<1>2. /\ work[w].kind = "repair" => work[w].gen \in 1 .. MaxGen
      /\ work[w].kind # "repair" => 1 \in 1 .. MaxGen
  BY <1>1, LabAssumptions DEF GoodWork, Work
<1>3. Deployed(w) \in SUBSET Nodes
  BY <1>2 DEF Deployed, IInv, TypeOK
<1>4. todo \in SUBSET Nodes
  BY <1>1, <1>3 DEF Work
<1>5. work' = [work EXCEPT ![w] = v] /\ cont' \in [Nodes -> Containers]
  BY DEF DeployBegin, IInv, TypeOK
<1> HIDE DEF todo
<1>6. v \in Work /\ GoodWork(v)
  BY <1>1, <1>4, MoveOn
<1> HIDE DEF v
<1> QED
  BY <1>5, <1>6, WorkStep DEF DeployBegin

\* A step on one container, which leaves the list of things to do.
LEMMA ContainerStep ==
  ASSUME IInv, NEW w \in Workers, NEW n \in Nodes, NEW c \in Containers,
         work[w].pc \in {"add", "remove", "destroy", "power"},
         cont' = [cont EXCEPT ![n] = c], work' = [work EXCEPT ![w].todo = @ \ {n}],
         UNCHANGED <<lab, deleted, rows, plans, gens, dirs, ops, sweep>>
  PROVE  IInv'
<1> DEFINE v == [work[w] EXCEPT !.todo = work[w].todo \ {n}]
<1>1. work[w] \in Work /\ GoodWork(work[w])
  BY WorkFacts
<1>2. v \in Work
  BY <1>1 DEF Work
<1>3. GoodWork(v)
  BY <1>1 DEF GoodWork, Work
<1>4. work' = [work EXCEPT ![w] = v]
  OBVIOUS
<1>5. cont' \in [Nodes -> Containers]
  BY DEF IInv, TypeOK
<1> HIDE DEF v
<1> QED
  BY <1>2, <1>3, <1>4, <1>5, WorkStep

\* A container is taken away.
LEMMA ClearNodeStep ==
  ASSUME IInv, NEW w \in Workers, NEW n \in Nodes, ClearNode(w, n)
  PROVE  IInv'
<1>1. cont' \in [Nodes -> Containers]
  BY DEF IInv, TypeOK, ClearNode, Containers
<1>2. TypeOK'
  BY <1>1 DEF IInv, TypeOK, ClearNode
<1> QED
  BY <1>2 DEF IInv, References, PlanRefs, WorkRefs, GoodWork, SweepRefs, ClearNode

\* A container is created or removed.
LEMMA AddRemoveStep ==
  ASSUME IInv, NEW w \in Workers, NEW n \in Nodes, AddNode(w, n) \/ RemoveNode(w, n)
  PROVE  IInv'
<1>1. "running" \in Containers /\ "missing" \in Containers
  BY DEF Containers
<1>2. CASE AddNode(w, n)
  BY <1>1, <1>2, ContainerStep DEF AddNode
<1>3. CASE RemoveNode(w, n)
  BY <1>1, <1>3, ContainerStep DEF RemoveNode
<1> QED
  BY <1>2, <1>3

\* A container is frozen or thawed.
LEMMA PowerStepStep ==
  ASSUME IInv, NEW w \in Workers, NEW n \in Nodes, PowerStep(w, n)
  PROVE  IInv'
<1>1. cont[n] \in Containers
  BY DEF IInv, TypeOK
<1>2. Powered(work[w].kind, cont[n]) \in Containers
  BY <1>1 DEF Powered, Containers
<1>3. cont' = [cont EXCEPT ![n] = Powered(work[w].kind, cont[n])]
  BY DEF PowerStep
<1> QED
  BY <1>2, <1>3, ContainerStep DEF PowerStep

\* The removals of an increment follow the additions.
LEMMA AddDoneStep ==
  ASSUME IInv, NEW w \in Workers, AddDone(w)
  PROVE  IInv'
<1> DEFINE todo == work[w].base \ work[w].nodes
           v    == [work[w] EXCEPT !.pc = "remove", !.todo = todo]
<1>1. work[w] \in Work /\ GoodWork(work[w]) /\ work[w].pc = "add"
  BY WorkFacts DEF AddDone
<1>2. todo \in SUBSET Nodes
  BY <1>1 DEF Work
<1>3. work' = [work EXCEPT ![w] = v] /\ cont' \in [Nodes -> Containers]
  BY DEF AddDone, IInv, TypeOK
<1> HIDE DEF todo
<1>4. v \in Work /\ GoodWork(v)
  BY <1>1, <1>2, MoveOn
<1> HIDE DEF v
<1> QED
  BY <1>3, <1>4, WorkStep DEF AddDone

\* A removal or a teardown is complete.
LEMMA DoneStep ==
  ASSUME IInv, NEW w \in Workers, RemoveDone(w) \/ DestroyDone(w)
  PROVE  IInv'
<1> DEFINE pc == IF RemoveDone(w) THEN "validate" ELSE "erase"
           v  == [work[w] EXCEPT !.pc = pc]
<1>1. work[w] \in Work /\ GoodWork(work[w]) /\ work[w].pc # "idle"
  BY WorkFacts DEF RemoveDone, DestroyDone
<1>2. v \in Work /\ GoodWork(v)
  BY <1>1, MoveOn
<1>3. /\ work' = [work EXCEPT ![w] = v] /\ cont' \in [Nodes -> Containers]
      /\ UNCHANGED <<lab, deleted, rows, plans, gens, dirs, ops, sweep>>
  BY DEF RemoveDone, DestroyDone, Goto, IInv, TypeOK
<1> HIDE DEF v
<1> QED
  BY <1>2, <1>3, WorkStep

\* The validators pass.
LEMMA ValidateStep ==
  ASSUME IInv, NEW w \in Workers, Validate(w)
  PROVE  IInv'
<1> DEFINE pc == IF work[w].kind = "apply" THEN "finish" ELSE "lab"
           v  == [work[w] EXCEPT !.pc = pc]
<1>1. work[w] \in Work /\ GoodWork(work[w]) /\ work[w].pc = "validate"
  BY WorkFacts DEF Validate
<1>2. v \in Work
  BY <1>1 DEF Work
<1>3. GoodWork(v)
  BY <1>1 DEF GoodWork, Work
<1>4. work' = [work EXCEPT ![w] = v] /\ cont' \in [Nodes -> Containers]
  BY DEF Validate, Goto, IInv, TypeOK
<1> HIDE DEF v
<1> QED
  BY <1>2, <1>3, <1>4, WorkStep DEF Validate

----------------------------------------------------------------------------
(* Repair, power and delete *)

\* RepairLab reads a deployed lab.
LEMMA RepairReadStep ==
  ASSUME IInv, NEW w \in Workers, RepairRead(w)
  PROVE  IInv'
<1>1. "repair" \in AllKinds \ ({"apply"} \cup NodeKinds)
  BY DEF AllKinds, NodeKinds
<1>2. ops' \in [Workers -> Op]
  BY <1>1, StoreOpType DEF RepairRead, StartOp
<1> QED
  BY <1>1, <1>2, TakeStep DEF RepairRead

\* DeleteLab reads the lab.
LEMMA DeleteReadStep ==
  ASSUME IInv, NEW w \in Workers, DeleteRead(w)
  PROVE  IInv'
<1>1. "delete" \in AllKinds \ ({"apply"} \cup NodeKinds)
  BY DEF AllKinds, NodeKinds
<1>2. ops' \in [Workers -> Op]
  BY DEF IInv, TypeOK, DeleteRead
<1> QED
  BY <1>1, <1>2, TakeStep DEF DeleteRead

\* powerLab reads a deployed lab and its nodes.
LEMMA PowerLabStep ==
  ASSUME IInv, NEW w \in Workers, NEW kind \in PowerKinds, PowerLab(w, kind)
  PROVE  IInv'
<1> DEFINE v == [NoWork EXCEPT !.kind = kind, !.pc = "power", !.lab = lab, !.rows = rows,
                               !.todo = DOMAIN rows]
<1>1. lab \in Lab /\ rows \in Rows /\ kind \in AllKinds
  BY DEF IInv, TypeOK, PowerLab, AllKinds
<1>2. DOMAIN rows \in SUBSET Nodes
  BY <1>1, RowsElim
<1>3. v \in Work
  BY <1>1, <1>2, NoWorkGood DEF Work
<1>4. v.kind = kind /\ v.pc = "power" /\ v.lab = lab
  BY NoWorkGood DEF Work
<1>5. GoodWork(v)
  BY <1>1, <1>4 DEF GoodWork, PowerKinds, NodeKinds
<1>6. work' = [work EXCEPT ![w] = v] /\ lab' \in Lab \cup {None}
  BY <1>1 DEF PowerLab
<1>7. ops' \in [Workers -> Op]
  BY <1>1, StoreOpType DEF PowerLab, StartOp
<1> HIDE DEF v
<1> QED
  BY <1>3, <1>5, <1>6, <1>7, WriteStep DEF PowerLab

\* powerNode reads a deployed lab and finds its node.
LEMMA PowerNodeStep ==
  ASSUME IInv, NEW w \in Workers, NEW kind \in NodeKinds, NEW n \in Nodes, PowerNode(w, kind, n)
  PROVE  IInv'
<1> DEFINE v == [NoWork EXCEPT !.kind = kind, !.pc = "power", !.lab = lab, !.rows = rows,
                               !.nodes = {n}, !.todo = {n}]
<1>1. lab \in Lab /\ rows \in Rows /\ n \in DOMAIN rows /\ kind \in AllKinds
  BY DEF IInv, TypeOK, PowerNode, AllKinds
<1>2. v \in Work
  BY <1>1, NoWorkGood DEF Work
<1>3. v.kind = kind /\ v.pc = "power" /\ v.lab = lab /\ v.rows = rows /\ v.nodes = {n}
  BY NoWorkGood DEF Work
<1>4. GoodWork(v)
  BY <1>1, <1>3 DEF GoodWork, PowerKinds, NodeKinds
<1>5. work' = [work EXCEPT ![w] = v] /\ cont' \in [Nodes -> Containers]
  BY DEF PowerNode, IInv, TypeOK
<1> HIDE DEF v
<1> QED
  BY <1>2, <1>4, <1>5, WorkStep DEF PowerNode

\* The driver has powered every device.
LEMMA PowerDoneStep ==
  ASSUME IInv, NEW w \in Workers, PowerDone(w)
  PROVE  IInv'
<1> DEFINE v == [work[w] EXCEPT !.pc = "finish"]
<1>1. work[w] \in Work /\ GoodWork(work[w]) /\ work[w].pc = "power"
  BY WorkFacts DEF PowerDone
<1>2. v \in Work
  BY <1>1 DEF Work
<1>3. GoodWork(v)
  BY <1>1 DEF GoodWork, Work
<1>4. work' = [work EXCEPT ![w] = v] /\ cont' \in [Nodes -> Containers]
  BY DEF PowerDone, Goto, IInv, TypeOK
<1> HIDE DEF v
<1> QED
  BY <1>2, <1>3, <1>4, WorkStep DEF PowerDone

\* DeleteLab writes Deleting, or gives up.
LEMMA DeleteStartStep ==
  ASSUME IInv, NEW w \in Workers, DeleteStart(w)
  PROVE  IInv'
<1> DEFINE todo == IF work[w].gen = 0 THEN {} ELSE Nodes
           v    == [work[w] EXCEPT !.pc = "destroy", !.todo = todo]
<1>1. /\ work[w] \in Work /\ GoodWork(work[w]) /\ work[w].lab \in Lab
      /\ work[w].pc = "start" /\ work[w].kind = "delete"
  BY WorkFacts DEF DeleteStart, GoodWork
<1>2. "delete" \in AllKinds
  BY DEF AllKinds
<1>3. ops' \in [Workers -> Op]
  BY <1>2, StoreOpType DEF DeleteStart, StartOp
<1>4. CASE lab = None
  BY <1>3, <1>4, NoWorkGood, WriteStep DEF DeleteStart
<1>5. CASE lab # None
  <2>1. work' = [work EXCEPT ![w] = v] /\ lab' = [work[w].lab EXCEPT !.phase = "Deleting"]
    BY <1>5 DEF DeleteStart
  <2>2. lab' \in Lab \cup {None}
    BY <1>1, <2>1 DEF Lab, Phases
  <2>3. todo \in SUBSET Nodes
    OBVIOUS
  <2> HIDE DEF todo
  <2>4. v \in Work /\ GoodWork(v)
    BY <1>1, <2>3, MoveOn
  <2> HIDE DEF v
  <2> QED
    BY <1>3, <2>1, <2>2, <2>4, WriteStep DEF DeleteStart
<1> QED
  BY <1>4, <1>5

\* The tables are emptied.
LEMMA DeleteResourcesStep ==
  ASSUME IInv, NEW w \in Workers, DeleteResources(w)
  PROVE  IInv'
<1> DEFINE v == [work[w] EXCEPT !.pc = "report"]
<1>1. work[w] \in Work /\ GoodWork(work[w]) /\ work[w].pc # "idle"
  BY WorkFacts DEF DeleteResources
<1>2. v \in Work /\ GoodWork(v)
  BY <1>1, MoveOn
<1>3. work' = [work EXCEPT ![w] = v]
  BY DEF DeleteResources, Goto
<1> HIDE DEF v
<1>4. work' \in [Workers -> Work] /\ WorkRefs'
  BY <1>2, <1>3, WorkUpdate
<1>5. gens' \in Gens
  <2>1. [g \in {} |-> None] \in [{} -> Snapshot]
    OBVIOUS
  <2> QED
    BY <2>1 DEF DeleteResources, Gens
<1>6. TypeOK'
  BY <1>4, <1>5, NoRowsType DEF IInv, TypeOK, DeleteResources, Gens
<1> QED
  BY <1>4, <1>6 DEF IInv, References, PlanRefs, SweepRefs, DeleteResources

----------------------------------------------------------------------------
(* The end of an operation *)

\* A step that fails leads to a well-formed state.
LEMMA FailedGood ==
  ASSUME NEW x \in Work, GoodWork(x), x.pc # "idle", NEW pc \in {"failed", "report"}
  PROVE  /\ [x EXCEPT !.pc = pc, !.ok = FALSE] \in Work
         /\ GoodWork([x EXCEPT !.pc = pc, !.ok = FALSE])
<1>1. [x EXCEPT !.pc = pc, !.ok = FALSE] \in Work
  BY DEF Work
<1> QED
  BY <1>1 DEF Work, GoodWork

\* A step fails.
LEMMA StepFailsStep ==
  ASSUME IInv, NEW w \in Workers, StepFails(w)
  PROVE  IInv'
<1> DEFINE pc == IF work[w].kind = "delete" THEN "report" ELSE "failed"
           v  == IF work[w].kind \in NodeKinds THEN NoWork
                 ELSE [work[w] EXCEPT !.pc = pc, !.ok = FALSE]
<1>1. work[w] \in Work /\ GoodWork(work[w]) /\ work[w].pc # "idle"
  BY WorkFacts DEF StepFails
<1>2. v \in Work /\ GoodWork(v)
  BY <1>1, FailedGood, NoWorkGood
<1>3. work' = [work EXCEPT ![w] = v] /\ cont' \in [Nodes -> Containers]
  BY DEF StepFails, FailStep, IInv, TypeOK
<1> HIDE DEF v
<1> QED
  BY <1>2, <1>3, WorkStep DEF StepFails

\* onDone and powerNode store well-formed nodes.
LEMMA FinalRowsType ==
  ASSUME NEW x \in Work, GoodWork(x), x.pc = "finish"
  PROVE  FinalRows(x) \in Rows
<1>1. x.rows \in Rows /\ x.nodes \in SUBSET Nodes
  BY DEF Work
<1>2. DOMAIN x.rows \in SUBSET Nodes /\ x.rows \in [DOMAIN x.rows -> Row]
  BY <1>1, RowsElim
<1>3. \A n \in DOMAIN x.rows : [x.rows[n] EXCEPT !.phase = PhaseOf(x.kind)] \in Row
  BY <1>2 DEF Row, PhaseOf
<1>4. CASE x.kind = "apply"
  <2>1. FinalRows(x) = [n \in x.nodes |-> [phase |-> "Running", observed |-> TRUE]]
    BY <1>4 DEF FinalRows, PowerKinds, NodeKinds
  <2>2. [phase |-> "Running", observed |-> TRUE] \in Row
    BY DEF Row
  <2>3. FinalRows(x) \in [x.nodes -> Row]
    BY <2>1, <2>2
  <2> QED
    BY <1>1, <2>3, RowsIntro
<1>5. CASE x.kind \in PowerKinds
  <2>1. FinalRows(x) = [n \in DOMAIN x.rows |-> [x.rows[n] EXCEPT !.phase = PhaseOf(x.kind)]]
    BY <1>5 DEF FinalRows, PowerKinds, NodeKinds
  <2>2. FinalRows(x) \in [DOMAIN x.rows -> Row]
    BY <1>3, <2>1
  <2> QED
    BY <1>2, <2>2, RowsIntro
<1>6. CASE x.kind \in NodeKinds
  <2>1. FinalRows(x) = [n \in x.nodes |-> [x.rows[n] EXCEPT !.phase = PhaseOf(x.kind)]]
    BY <1>6 DEF FinalRows, PowerKinds, NodeKinds
  <2>2. x.nodes \subseteq DOMAIN x.rows
    BY <1>6 DEF GoodWork
  <2>3. FinalRows(x) \in [x.nodes -> Row]
    BY <1>3, <2>1, <2>2
  <2> QED
    BY <1>1, <2>3, RowsIntro
<1> QED
  BY <1>4, <1>5, <1>6 DEF GoodWork

\* onDone stores the plan and the nodes.
LEMMA FinishRowsStep ==
  ASSUME IInv, NEW w \in Workers, FinishRows(w)
  PROVE  IInv'
<1> DEFINE v == IF work[w].kind \in NodeKinds /\ work[w].nodes \cap DOMAIN rows = {}
                  THEN NoWork ELSE [work[w] EXCEPT !.pc = "lab"]
<1>1. work[w] \in Work /\ GoodWork(work[w]) /\ work[w].pc = "finish"
  BY WorkFacts DEF FinishRows
<1>2. v \in Work /\ GoodWork(v)
  BY <1>1, MoveOn, NoWorkGood
<1>3. work' = [work EXCEPT ![w] = v]
  BY DEF FinishRows
<1> HIDE DEF v
<1>4. work' \in [Workers -> Work] /\ WorkRefs'
  BY <1>2, <1>3, WorkUpdate
<1>5. rows' \in Rows
  <2>1. FinalRows(work[w]) \in Rows /\ rows \in Rows
    BY <1>1, FinalRowsType DEF IInv, TypeOK
  <2>2. rows' = UpdateNodes(FinalRows(work[w]))
    BY DEF FinishRows
  <2> QED
    BY <2>1, <2>2, UpdateNodesType
<1>6. plans' \in [Plans -> Plan \cup {None}] /\ PlanRefs'
  <2>1. plans \in [Plans -> Plan \cup {None}] /\ \A p \in Plans : plans[p] # None => plans[p].base < MaxGen
    BY DEF IInv, TypeOK, References, PlanRefs
  <2>2. CASE work[w].kind = "apply" /\ plans[work[w].plan] # None
    <3> DEFINE p == work[w].plan
               q == [plans[p] EXCEPT !.state = "Applied"]
    <3>1. p \in Plans /\ plans[p] \in Plan /\ plans[p].base < MaxGen
      BY <1>1, <2>1, <2>2 DEF GoodWork
    <3>2. q \in Plan /\ q.base < MaxGen
      BY <3>1 DEF Plan
    <3>3. plans' = [plans EXCEPT ![p] = q]
      BY <2>2 DEF FinishRows
    <3> HIDE DEF p, q
    <3> QED
      BY <2>1, <3>1, <3>2, <3>3 DEF PlanRefs
  <2>3. CASE ~(work[w].kind = "apply" /\ plans[work[w].plan] # None)
    <3>1. plans' = plans
      BY <2>3 DEF FinishRows
    <3> QED
      BY <2>1, <3>1 DEF PlanRefs
  <2> QED
    BY <2>2, <2>3
<1>7. TypeOK'
  BY <1>4, <1>5, <1>6 DEF IInv, TypeOK, FinishRows
<1> QED
  BY <1>4, <1>6, <1>7 DEF IInv, References, SweepRefs, FinishRows

\* The document at the end of an operation is well formed and steady.
LEMMA FinalLabType ==
  ASSUME NEW x \in Work, GoodWork(x), x.pc # "idle"
  PROVE  FinalLab(x) \in Lab /\ FinalLab(x).phase # "Applying"
<1>1. x.lab \in Lab /\ x.gen \in 0 .. MaxGen /\ (x.kind = "apply" => x.gen + 1 \in 0 .. MaxGen)
  BY LabAssumptions DEF GoodWork, Work
<1>2. PhaseOf(x.kind) \in {"Stopped", "Running"}
  BY DEF PhaseOf
<1>3. ReconciledPhase(x) \in {"Running", "Stopped", "Degraded"}
  BY DEF ReconciledPhase
<1> QED
  BY <1>1, <1>2, <1>3 DEF FinalLab, Lab, Phases

\* onDone stores the lab, which then does not say Applying.
LEMMA FinishLabStep ==
  ASSUME IInv, NEW w \in Workers, FinishLab(w)
  PROVE  IInv' /\ (lab' = None \/ lab'.phase # "Applying")
<1> DEFINE v == IF work[w].kind \in NodeKinds THEN NoWork ELSE [work[w] EXCEPT !.pc = "report"]
<1>1. work[w] \in Work /\ GoodWork(work[w]) /\ work[w].pc # "idle"
  BY WorkFacts DEF FinishLab
<1>2. v \in Work /\ GoodWork(v)
  BY <1>1, MoveOn, NoWorkGood
<1>3. work' = [work EXCEPT ![w] = v] /\ ops' \in [Workers -> Op]
  BY DEF FinishLab, IInv, TypeOK
<1>4. lab' \in Lab \cup {None} /\ (lab' = None \/ lab'.phase # "Applying")
  BY <1>1, FinalLabType DEF FinishLab, UpdateLab
<1> HIDE DEF v
<1> QED
  BY <1>2, <1>3, <1>4, WriteStep DEF FinishLab

\* The final state of the operation is stored.
LEMMA ReportStep ==
  ASSUME IInv, NEW w \in Workers, Report(w)
  PROVE  IInv'
<1>1. ops' \in [Workers -> Op]
  BY DEF IInv, TypeOK, Report, Op
<1>2. lab' \in Lab \cup {None}
  BY DEF IInv, TypeOK, Report
<1> QED
  BY <1>1, <1>2, NoWorkGood, WriteStep DEF Report

----------------------------------------------------------------------------
(* The observer, and a crash *)

\* A sweep starts from a lab that is not being applied.
LEMMA SweepLabStep ==
  ASSUME IInv, SweepLab
  PROVE  IInv'
<1>1. lab \in Lab /\ lab.phase # "Applying"
  BY DEF IInv, TypeOK, SweepLab, Observable
<1>2. sweep' \in Sweep /\ sweep'.lab = lab
  BY <1>1, NoSweepType DEF SweepLab, Sweep
<1>3. TypeOK'
  BY <1>2 DEF IInv, TypeOK, SweepLab
<1>4. SweepRefs'
  BY <1>1, <1>2 DEF SweepRefs
<1> QED
  BY <1>3, <1>4 DEF IInv, References, PlanRefs, WorkRefs, GoodWork, SweepLab

\* A sweep reads the deployed nodes.
LEMMA SweepNodesStep ==
  ASSUME IInv, SweepNodes
  PROVE  IInv'
<1> DEFINE seen == {n \in DOMAIN rows : rows[n].observed}
           docs == [n \in seen |-> rows[n]]
<1>1. /\ sweep \in Sweep /\ sweep.pc = "nodes" /\ rows \in Rows /\ cont \in [Nodes -> Containers]
      /\ sweep.lab \in Lab /\ sweep.lab.phase # "Applying"
  BY DEF IInv, TypeOK, References, SweepRefs, SweepNodes
<1>2. docs \in Rows
  <2>1. DOMAIN rows \in SUBSET Nodes /\ rows \in [DOMAIN rows -> Row]
    BY <1>1, RowsElim
  <2>2. seen \in SUBSET Nodes /\ docs \in [seen -> Row]
    BY <2>1
  <2> QED
    BY <2>2, RowsIntro
<1>3. sweep' = IF seen = {} THEN NoSweep
               ELSE [sweep EXCEPT !.pc = "reconcile", !.rows = docs, !.states = cont]
  BY DEF SweepNodes
<1> HIDE DEF docs, seen
<1>4. sweep' \in Sweep /\ (sweep'.pc # "idle" => sweep'.lab = sweep.lab)
  BY <1>1, <1>2, <1>3, NoSweepType DEF Sweep
<1>5. TypeOK'
  BY <1>4 DEF IInv, TypeOK, SweepNodes
<1>6. SweepRefs'
  BY <1>1, <1>4 DEF SweepRefs
<1> QED
  BY <1>5, <1>6 DEF IInv, References, PlanRefs, WorkRefs, GoodWork, SweepNodes

\* The phases the observer gives a lab.
LEMMA SweptPhases ==
  ASSUME NEW nodes, NEW states
  PROVE  SweptPhase(nodes, states) \in {"Running", "Stopped", "Degraded"}
  BY DEF SweptPhase

\* reconcile stores well-formed nodes and a steady lab.
LEMMA ReconcileStep ==
  ASSUME IInv, Reconcile
  PROVE  IInv' /\ (lab' = lab \/ lab' = None \/ lab'.phase # "Applying")
<1> DEFINE nodes == DOMAIN sweep.rows
           phase == SweptPhase(nodes, sweep.states)
<1>1. sweep \in Sweep /\ sweep.lab \in Lab /\ sweep.pc = "reconcile" /\ rows \in Rows /\ lab \in Lab \cup {None}
  BY DEF IInv, TypeOK, References, SweepRefs, Reconcile
<1>2. sweep.rows \in Rows
  BY <1>1 DEF Sweep
<1>3. nodes \in SUBSET Nodes /\ sweep.rows \in [nodes -> Row]
  BY <1>2, RowsElim
<1>4. \A n \in nodes : [sweep.rows[n] EXCEPT !.phase = PhaseFor(sweep.states[n])] \in Row
  <2>1. \A c : PhaseFor(c) \in {"Running", "Stopped", "Failed"}
    BY DEF PhaseFor
  <2> QED
    BY <1>3, <2>1 DEF Row
<1>5. rows' \in Rows
  <2>1. PICK metrics \in SUBSET nodes :
          rows' = UpdateNodes([n \in {m \in nodes : \/ m \in metrics
                                                    \/ sweep.rows[m].phase # PhaseFor(sweep.states[m])} |->
                                 [sweep.rows[n] EXCEPT !.phase = PhaseFor(sweep.states[n])]])
    BY DEF Reconcile
  <2> DEFINE changed == {m \in nodes : m \in metrics \/ sweep.rows[m].phase # PhaseFor(sweep.states[m])}
             docs    == [n \in changed |-> [sweep.rows[n] EXCEPT !.phase = PhaseFor(sweep.states[n])]]
  <2>2. changed \in SUBSET Nodes /\ changed \subseteq nodes
    BY <1>3
  <2>3. rows' = UpdateNodes(docs)
    BY <2>1
  <2> HIDE DEF changed
  <2>4. docs \in [changed -> Row]
    BY <1>4, <2>2
  <2>5. docs \in Rows
    BY <2>2, <2>4, RowsIntro
  <2> HIDE DEF docs
  <2> QED
    BY <1>1, <2>3, <2>5, UpdateNodesType
<1>6. lab' \in Lab \cup {None} /\ (lab' = lab \/ lab' = None \/ lab'.phase # "Applying")
  <2>1. phase \in {"Running", "Stopped", "Degraded"}
    BY SweptPhases
  <2>2. lab' = lab \/ lab' = UpdateLab([sweep.lab EXCEPT !.phase = phase])
    BY DEF Reconcile
  <2> HIDE DEF phase
  <2> QED
    BY <1>1, <2>1, <2>2 DEF UpdateLab, Lab, Phases
<1>7. TypeOK'
  BY <1>5, <1>6, NoSweepType DEF IInv, TypeOK, Reconcile
<1>8. SweepRefs'
  BY NoSweepType DEF SweepRefs, Reconcile
<1> QED
  BY <1>6, <1>7, <1>8 DEF IInv, References, PlanRefs, WorkRefs, GoodWork, Reconcile

\* A restart forgets requests and sweeps.
LEMMA CrashStep ==
  ASSUME IInv, Crash
  PROVE  IInv'
<1>1. TypeOK'
  BY NoWorkGood, NoSweepType DEF IInv, TypeOK, Crash
<1>2. work' = [w \in Workers |-> NoWork] /\ sweep' = NoSweep
  BY DEF Crash
<1>3. \A w \in Workers : GoodWork(work'[w])
  BY <1>2, NoWorkGood
<1>4. WorkRefs'
  BY <1>3 DEF WorkRefs, GoodWork
<1> QED
  BY <1>1, <1>2, <1>4, NoSweepType DEF IInv, References, PlanRefs, SweepRefs, Crash

----------------------------------------------------------------------------
(* The type invariant *)

\* The invariant holds of an empty database.
LEMMA InitInv == Init => IInv
<1> SUFFICES ASSUME Init PROVE IInv
  OBVIOUS
<1>1. NoOp \in Op
  BY DEF NoOp, Op
<1>2. gens \in Gens
  <2>1. [g \in {} |-> None] \in [{} -> Snapshot]
    OBVIOUS
  <2> QED
    BY <2>1 DEF Init, Gens
<1>3. TypeOK
  BY <1>1, <1>2, NoRowsType, NoWorkGood, NoSweepType DEF Init, TypeOK, Gens, Containers
<1> QED
  BY <1>3, NoWorkGood, NoSweepType DEF Init, IInv, References, PlanRefs, WorkRefs, SweepRefs

\* A step that changes nothing keeps the invariant.
LEMMA StutterInv ==
  ASSUME IInv, UNCHANGED vars
  PROVE  IInv'
<1>1. TypeOK'
  BY DEF IInv, TypeOK, vars
<1> QED
  BY <1>1 DEF IInv, References, PlanRefs, WorkRefs, SweepRefs, GoodWork, vars

\* Every request keeps the invariant.
LEMMA RequestsInv ==
  ASSUME IInv, NEW w \in Workers, Requests(w)
  PROVE  IInv'
  BY TopologyReadStep, ApplyStartStep, RepairReadStep, DeleteReadStep, DeleteStartStep,
     TopologyWriteStep, PlanReadStep, ApplyReadStep, RollbackReadStep, PlanReplaceStep,
     PlanRecordStep, PlanPhaseStep, PowerLabStep, PowerNodeStep DEF Requests

\* Every step of an operation keeps the invariant.
LEMMA ExecuteInv ==
  ASSUME IInv, NEW w \in Workers, Execute(w)
  PROVE  IInv'
  BY ApplyPrepareStep, ApplySaveStep, DeployBeginStep, AddDoneStep, DoneStep, ValidateStep,
     PowerDoneStep, DeleteResourcesStep, ClearNodeStep, AddRemoveStep, PowerStepStep,
     StepFailsStep, FinishRowsStep, FinishLabStep, ReportStep DEF Execute

\* Every step keeps the invariant.
LEMMA NextInv == IInv /\ [Next]_vars => IInv'
<1> SUFFICES ASSUME IInv, [Next]_vars PROVE IInv'
  OBVIOUS
<1>1. CASE UNCHANGED vars
  BY <1>1, StutterInv
<1>2. CASE Next
  BY <1>2, CreateLabStep, RequestsInv, ExecuteInv, SweepLabStep, SweepNodesStep, ReconcileStep,
     CrashStep DEF Next, Observer
<1> QED
  BY <1>1, <1>2

\* Every behaviour satisfies the inductive invariant.
THEOREM Inductive == Spec => []IInv
  BY InitInv, NextInv, PTL DEF Spec

\* Requests, operations, the observer and restarts keep every table and
\* every copy of a document well formed, generation numbers in particular
\* (ApplyPlan, SaveGeneration, reconcile).
THEOREM LabTypeOK == Spec => []TypeOK
<1>1. IInv => TypeOK
  BY DEF IInv
<1> QED
  BY <1>1, Inductive, PTL

----------------------------------------------------------------------------
(* A lab says Applying only while an apply is under way *)

\* An apply that has written Applying and has not yet written the end.
Busy(x) == x.kind = "apply" /\ x.pc \notin {"idle", "start", "report"}

\* What a step may do: keep the lab and every apply under way, leave one
\* under way, or write another phase.
Harmless ==
  \/ lab' = lab /\ \A u \in Workers : Busy(work[u]) => Busy(work'[u])
  \/ \E u \in Workers : Busy(work'[u])
  \/ lab' = None
  \/ lab'.phase # "Applying"

\* Such a step keeps the property.
LEMMA HarmlessIsEnough ==
  ASSUME ApplyingIsUnderWay, Harmless
  PROVE  ApplyingIsUnderWay'
  BY DEF ApplyingIsUnderWay, Harmless, Busy

\* A worker that moves on without leaving the apply.
LEMMA BusyUpdate ==
  ASSUME IInv, NEW w \in Workers, NEW v, work' = [work EXCEPT ![w] = v], lab' = lab,
         Busy(work[w]) => Busy(v)
  PROVE  Harmless
<1>1. work \in [Workers -> Work]
  BY DEF IInv, TypeOK
<1>2. \A u \in Workers : work'[u] = IF u = w THEN v ELSE work[u]
  BY <1>1
<1> QED
  BY <1>2 DEF Harmless

\* Requests.
LEMMA RequestsHarmless ==
  ASSUME IInv, NEW w \in Workers, Requests(w)
  PROVE  Harmless
<1>1. work[w] \in Work /\ GoodWork(work[w]) /\ work \in [Workers -> Work] /\ lab \in Lab \cup {None}
  BY WorkFacts DEF IInv, TypeOK
<1>2. CASE work[w].pc = "idle" /\ lab' = lab /\ \E v : work' = [work EXCEPT ![w] = v]
  BY <1>2, BusyUpdate DEF Busy
<1>3. CASE TopologyRead(w) \/ RepairRead(w) \/ DeleteRead(w)
  BY <1>2, <1>3 DEF TopologyRead, RepairRead, DeleteRead, Take
<1>4. CASE \E p \in Plans : PlanRead(w, p) \/ ApplyRead(w, p)
  BY <1>2, <1>4 DEF PlanRead, ApplyRead, Planning
<1>5. CASE \E p \in Plans, g \in DOMAIN gens : RollbackRead(w, p, g)
  BY <1>2, <1>5 DEF RollbackRead, Planning
<1>6. CASE \E kind \in PowerKinds : PowerLab(w, kind)
  BY <1>2, <1>6 DEF PowerLab
<1>7. CASE \E kind \in NodeKinds, n \in Nodes : PowerNode(w, kind, n)
  BY <1>2, <1>7 DEF PowerNode
<1>8. CASE ApplyStart(w)
  <2>1. work[w].kind = "apply" /\ work[w].pc = "start"
    BY <1>8 DEF ApplyStart
  <2>2. CASE lab = None \/ (work[w].gen > 0 /\ work[w].gen \notin DOMAIN gens)
    <3>1. lab' = lab /\ work' = [work EXCEPT ![w] = NoWork]
      BY <1>8, <2>2 DEF ApplyStart
    <3> QED
      BY <2>1, <3>1, BusyUpdate DEF Busy
  <2>3. CASE ~(lab = None \/ (work[w].gen > 0 /\ work[w].gen \notin DOMAIN gens))
    <3> DEFINE v == [work[w] EXCEPT !.pc = "prepare",
                                    !.lab = [work[w].lab EXCEPT !.phase = "Applying"],
                                    !.rows = rows, !.nodes = DOMAIN rows,
                                    !.base = IF work[w].gen > 0 THEN gens[work[w].gen].nodes ELSE {}]
    <3>1. work' = [work EXCEPT ![w] = v]
      BY <1>8, <2>3 DEF ApplyStart
    <3>2. v.pc = "prepare" /\ v.kind = "apply"
      BY <1>1, <2>1 DEF Work
    <3> HIDE DEF v
    <3>3. work'[w] = v
      BY <1>1, <3>1
    <3> QED
      BY <3>2, <3>3 DEF Harmless, Busy
  <2> QED
    BY <2>2, <2>3
<1>9. CASE DeleteStart(w)
  <2>1. work[w].pc = "start" /\ work[w].lab \in Lab
    BY <1>1, <1>9 DEF DeleteStart, GoodWork
  <2>2. CASE lab = None
    BY <1>9, <2>1, <2>2 DEF DeleteStart, Harmless
  <2>3. CASE lab # None
    BY <1>9, <2>1, <2>3 DEF DeleteStart, Harmless, Lab
  <2> QED
    BY <2>2, <2>3
<1>10. CASE \E s \in Shapes : TopologyWrite(w, s)
  <2>1. work[w].lab \in Lab /\ work[w].lab.phase # "Applying"
    BY <1>1, <1>10 DEF TopologyWrite, GoodWork
  <2> QED
    BY <1>10, <2>1 DEF TopologyWrite, UpdateLab, Harmless, Lab
<1>11. CASE PlanReplace(w)
  <2>1. work' = [work EXCEPT ![w] = [work[w] EXCEPT !.pc = "record"]] /\ lab' = lab
    BY <1>11 DEF PlanReplace, Goto
  <2>2. Busy(work[w]) => Busy([work[w] EXCEPT !.pc = "record"])
    BY <1>1 DEF Busy, Work
  <2> QED
    BY <2>1, <2>2, BusyUpdate
<1>12. CASE PlanRecord(w)
  <2>1. work' = [work EXCEPT ![w] = [work[w] EXCEPT !.pc = "phase"]] /\ lab' = lab
    BY <1>12 DEF PlanRecord, Goto
  <2>2. Busy(work[w]) => Busy([work[w] EXCEPT !.pc = "phase"])
    BY <1>1 DEF Busy, Work
  <2> QED
    BY <2>1, <2>2, BusyUpdate
<1>13. CASE PlanPhase(w)
  <2>1. work[w].lab \in Lab
    BY <1>1, <1>13 DEF PlanPhase, GoodWork
  <2> QED
    BY <1>13, <2>1 DEF PlanPhase, UpdateLab, Harmless, Lab
<1> QED
  BY <1>3, <1>4, <1>5, <1>6, <1>7, <1>8, <1>9, <1>10, <1>11, <1>12, <1>13 DEF Requests

\* Steps of an operation.
LEMMA ExecuteHarmless ==
  ASSUME IInv, NEW w \in Workers, Execute(w)
  PROVE  Harmless
<1>1. work[w] \in Work /\ GoodWork(work[w]) /\ work \in [Workers -> Work]
  BY WorkFacts DEF IInv, TypeOK
<1>2. CASE \E pc : /\ pc \notin {"idle", "start", "report"} /\ lab' = lab
                   /\ work' = [work EXCEPT ![w].pc = pc]
  <2>1. PICK pc : /\ pc \notin {"idle", "start", "report"} /\ lab' = lab
                  /\ work' = [work EXCEPT ![w].pc = pc]
    BY <1>2
  <2>2. Busy(work[w]) => Busy([work[w] EXCEPT !.pc = pc])
    BY <1>1, <2>1 DEF Busy, Work
  <2> QED
    BY <2>1, <2>2, BusyUpdate
<1>3. CASE \E pc, todo : /\ pc \notin {"idle", "start", "report"} /\ lab' = lab
                         /\ work' = [work EXCEPT ![w].pc = pc, ![w].todo = todo]
  <2>1. PICK pc, todo : /\ pc \notin {"idle", "start", "report"} /\ lab' = lab
                        /\ work' = [work EXCEPT ![w].pc = pc, ![w].todo = todo]
    BY <1>3
  <2> DEFINE v == [work[w] EXCEPT !.pc = pc, !.todo = todo]
  <2>2. Busy(work[w]) => Busy(v)
    BY <1>1, <2>1 DEF Busy, Work
  <2>3. work' = [work EXCEPT ![w] = v]
    BY <1>1, <2>1
  <2> HIDE DEF v
  <2> QED
    BY <2>1, <2>2, <2>3, BusyUpdate
<1>4. CASE \E n \in Nodes : lab' = lab /\ work' = [work EXCEPT ![w].todo = @ \ {n}]
  <2>1. PICK n \in Nodes : lab' = lab /\ work' = [work EXCEPT ![w].todo = @ \ {n}]
    BY <1>4
  <2>2. Busy(work[w]) => Busy([work[w] EXCEPT !.todo = work[w].todo \ {n}])
    BY <1>1 DEF Busy, Work
  <2> QED
    BY <2>1, <2>2, BusyUpdate
<1>5. CASE ApplyPrepare(w) \/ ApplySave(w) \/ RemoveDone(w) \/ Validate(w) \/ PowerDone(w) \/ DestroyDone(w)
  BY <1>2, <1>5 DEF ApplyPrepare, ApplySave, RemoveDone, Validate, PowerDone, DestroyDone, Goto
<1>6. CASE DeployBegin(w) \/ AddDone(w)
  BY <1>3, <1>6 DEF DeployBegin, AddDone
<1>7. CASE \E n \in Nodes : AddNode(w, n) \/ RemoveNode(w, n) \/ PowerStep(w, n)
  BY <1>4, <1>7 DEF AddNode, RemoveNode, PowerStep
<1>8. CASE \E n \in Nodes : ClearNode(w, n)
  BY <1>8 DEF ClearNode, Harmless
<1>9. CASE DeleteResources(w)
  BY <1>9 DEF DeleteResources, Harmless
<1>10. CASE StepFails(w)
  <2> DEFINE v == IF work[w].kind \in NodeKinds THEN NoWork
                  ELSE [work[w] EXCEPT !.pc = IF work[w].kind = "delete" THEN "report" ELSE "failed",
                                       !.ok = FALSE]
  <2>1. work' = [work EXCEPT ![w] = v] /\ lab' = lab
    BY <1>1, <1>10 DEF StepFails, FailStep
  <2>2. Busy(work[w]) => Busy(v)
    BY <1>1 DEF Busy, Work, NodeKinds
  <2> HIDE DEF v
  <2> QED
    BY <2>1, <2>2, BusyUpdate
<1>11. CASE FinishRows(w)
  <2> DEFINE v == IF work[w].kind \in NodeKinds /\ work[w].nodes \cap DOMAIN rows = {}
                    THEN NoWork ELSE [work[w] EXCEPT !.pc = "lab"]
  <2>1. work' = [work EXCEPT ![w] = v] /\ lab' = lab
    BY <1>11 DEF FinishRows
  <2>2. Busy(work[w]) => Busy(v)
    BY <1>1 DEF Busy, Work, NodeKinds
  <2> HIDE DEF v
  <2> QED
    BY <2>1, <2>2, BusyUpdate
<1>12. CASE FinishLab(w)
  BY <1>12, FinishLabStep DEF Harmless
<1>13. CASE Report(w)
  <2>1. ~Busy(work[w]) /\ work' = [work EXCEPT ![w] = NoWork] /\ lab' = lab
    BY <1>13 DEF Report, Busy
  <2> QED
    BY <2>1, BusyUpdate
<1> QED
  BY <1>5, <1>6, <1>7, <1>8, <1>9, <1>10, <1>11, <1>12, <1>13 DEF Execute

\* Every step of a controller that does not die is harmless.
LEMMA NextHarmless ==
  ASSUME IInv, Next, ~Crashes
  PROVE  Harmless
<1>1. ASSUME NEW s \in Shapes, CreateLab(s) PROVE Harmless
  BY <1>1 DEF CreateLab, Harmless
<1>2. CASE SweepLab \/ SweepNodes
  BY <1>2 DEF SweepLab, SweepNodes, Harmless
<1>3. CASE Reconcile
  <2>1. work' = work
    BY <1>3 DEF Reconcile
  <2> QED
    BY <1>3, <2>1, ReconcileStep DEF Harmless
<1>4. ~Crash
  BY DEF Crash
<1> QED
  BY <1>1, <1>2, <1>3, <1>4, RequestsHarmless, ExecuteHarmless DEF Next, Observer

\* Unless the controller dies, a lab says Applying only while an apply is
\* under way: of all the requests that write back a document they read
\* earlier, none brings Applying back (UpdateTopology's refusal,
\* observable, onDone).
THEOREM NoStrandedApply == ~Crashes => (Spec => []ApplyingIsUnderWay)
<1> SUFFICES ASSUME ~Crashes PROVE Spec => []ApplyingIsUnderWay
  OBVIOUS
<1>1. Init => ApplyingIsUnderWay
  BY DEF Init, ApplyingIsUnderWay
<1>2. ApplyingIsUnderWay /\ IInv /\ [Next]_vars => ApplyingIsUnderWay'
  <2> SUFFICES ASSUME ApplyingIsUnderWay, IInv, [Next]_vars PROVE ApplyingIsUnderWay'
    OBVIOUS
  <2>1. CASE Next
    BY <2>1, NextHarmless, HarmlessIsEnough
  <2>2. CASE UNCHANGED vars
    BY <2>2 DEF ApplyingIsUnderWay, vars
  <2> QED
    BY <2>1, <2>2
<1> QED
  BY <1>1, <1>2, Inductive, PTL DEF Spec

----------------------------------------------------------------------------
(* The steps of a worker, in outline *)

OpKinds == {"apply", "repair", "delete"} \cup PowerKinds

\* The request is over and its operation runs.
Begun(x) == x.pc \notin {"idle", "write", "replace", "record", "phase", "start"}

\* A request that has just read the lab.
Begin(w, v) ==
  /\ work[w].pc = "idle" /\ lab # None
  /\ work' = [work EXCEPT ![w] = v]
  /\ UNCHANGED <<lab, deleted, plans, gens>>
  /\ v.lab.gen = lab.gen
  /\ v.pc \in {"write", "replace", "start", "deploy", "power"}
  /\ v.pc = "replace" => v.plan \in Plans /\ FreePlan(v.plan)
  /\ v.pc = "deploy" => v.kind = "repair"
  /\ v.pc = "power" => v.kind \in PowerKinds \cup NodeKinds
  /\ v.pc = "start" => v.kind \in {"apply", "delete"}
  /\ v.kind = "apply" => v.pc = "start" /\ v.gen = lab.gen /\ v.plan \in Plans /\ plans[v.plan] # None
  /\ v.pc \notin {"replace", "start"} => v.plan = None
  /\ v.kind = "delete" => v.pc = "start" /\ v.plan = None
  /\ v.kind \in {"repair"} \cup PowerKinds => v.plan = None
  /\ ops' = IF v.kind \in {"repair"} \cup PowerKinds
              THEN [ops EXCEPT ![w] = [kind |-> v.kind, plan |-> None, state |-> "Running"]]
              ELSE ops

\* An operation that goes on to its next step without a write to a table.
Glide(w, v) ==
  LET x == work[w]
  IN /\ Begun(x)
     /\ work' = [work EXCEPT ![w] = v]
     /\ UNCHANGED <<lab, deleted, plans, gens, ops>>
     /\ v.kind = x.kind /\ v.plan = x.plan /\ v.lab = x.lab /\ v.gen = x.gen /\ v.ok = x.ok
     /\ \/ v.pc = x.pc
        \/ x.pc = "prepare" /\ v.pc = "save"
        \/ x.pc = "deploy" /\ v.pc = "add"
        \/ x.pc = "add" /\ v.pc = "remove"
        \/ x.pc = "remove" /\ v.pc = "validate"
        \/ x.pc = "validate" /\ v.pc = (IF x.kind = "apply" THEN "finish" ELSE "lab")
        \/ x.pc = "power" /\ v.pc = "finish" /\ x.kind # "apply"
        \/ x.pc = "destroy" /\ v.pc = "erase"

\* Requests that begin.
LEMMA RequestBegins ==
  ASSUME IInv, NEW w \in Workers,
         \/ TopologyRead(w) \/ RepairRead(w) \/ DeleteRead(w)
         \/ \E p \in Plans : PlanRead(w, p) \/ ApplyRead(w, p)
         \/ \E p \in Plans, g \in DOMAIN gens : RollbackRead(w, p, g)
         \/ \E kind \in PowerKinds : PowerLab(w, kind)
         \/ \E kind \in NodeKinds, n \in Nodes : PowerNode(w, kind, n)
  PROVE  \E v : Begin(w, v)
<1>1. ASSUME NEW kind \in {"topology", "repair", "delete"}, NEW pc \in {"write", "deploy", "start"},
             Take(w, kind, pc), UNCHANGED <<lab, deleted, plans, gens>>,
             pc = IF kind = "topology" THEN "write" ELSE IF kind = "repair" THEN "deploy" ELSE "start",
             ops' = IF kind = "repair"
                      THEN [ops EXCEPT ![w] = [kind |-> kind, plan |-> None, state |-> "Running"]]
                      ELSE ops
      PROVE  \E v : Begin(w, v)
  <2>1. PICK v : v = [NoWork EXCEPT !.kind = kind, !.pc = pc, !.lab = lab, !.gen = lab.gen,
                                    !.rows = rows, !.nodes = DOMAIN rows]
    OBVIOUS
  <2>2. v.kind = kind /\ v.pc = pc /\ v.lab = lab /\ v.plan = None
    BY <2>1 DEF NoWork
  <2>3. Begin(w, v)
    BY <1>1, <2>1, <2>2 DEF Take, Begin, PowerKinds
  <2> QED BY <2>3
<1>2. CASE TopologyRead(w)
  BY <1>1, <1>2 DEF TopologyRead
<1>3. CASE RepairRead(w)
  BY <1>1, <1>3 DEF RepairRead, StartOp, StoreOp
<1>4. CASE DeleteRead(w)
  BY <1>1, <1>4 DEF DeleteRead
<1>5. ASSUME NEW kind \in {"plan", "rollback"}, NEW p \in Plans, NEW shape, NEW nodes,
             lab # None, Planning(w, kind, p, shape, nodes)
      PROVE  \E v : Begin(w, v)
  <2>1. PICK v : v = [NoWork EXCEPT !.kind = kind, !.pc = "replace", !.lab = [lab EXCEPT !.shape = shape],
                                    !.rows = rows, !.nodes = nodes, !.plan = p]
    OBVIOUS
  <2>2. v.kind = kind /\ v.pc = "replace" /\ v.lab = [lab EXCEPT !.shape = shape] /\ v.plan = p
    BY <2>1 DEF NoWork
  <2>3. v.lab.gen = lab.gen
    BY <1>5, <2>2 DEF IInv, TypeOK, Lab
  <2>4. Begin(w, v)
    BY <1>5, <2>1, <2>2, <2>3 DEF Planning, Begin, PowerKinds
  <2> QED BY <2>4
<1>6. ASSUME NEW p \in Plans, PlanRead(w, p) PROVE \E v : Begin(w, v)
  BY <1>5, <1>6 DEF PlanRead
<1>7. ASSUME NEW p \in Plans, NEW g \in DOMAIN gens, RollbackRead(w, p, g) PROVE \E v : Begin(w, v)
  BY <1>5, <1>7 DEF RollbackRead
<1>8. ASSUME NEW p \in Plans, ApplyRead(w, p) PROVE \E v : Begin(w, v)
  <2>1. PICK v : v = [NoWork EXCEPT !.kind = "apply", !.pc = "start", !.lab = lab,
                                    !.gen = plans[p].base, !.plan = p]
    OBVIOUS
  <2>2. v.kind = "apply" /\ v.pc = "start" /\ v.lab = lab /\ v.plan = p /\ v.gen = plans[p].base
    BY <2>1 DEF NoWork
  <2>3. Begin(w, v)
    BY <1>8, <2>1, <2>2 DEF ApplyRead, Applicable, Begin, PowerKinds
  <2> QED BY <2>3
<1>9. ASSUME NEW kind \in PowerKinds, PowerLab(w, kind) PROVE \E v : Begin(w, v)
  <2>1. PICK v : v = [NoWork EXCEPT !.kind = kind, !.pc = "power", !.lab = lab, !.rows = rows,
                                    !.todo = DOMAIN rows]
    OBVIOUS
  <2>2. v.kind = kind /\ v.pc = "power" /\ v.lab = lab /\ v.plan = None
    BY <2>1 DEF NoWork
  <2>3. Begin(w, v)
    BY <1>9, <2>1, <2>2 DEF PowerLab, StartOp, StoreOp, Begin, PowerKinds
  <2> QED BY <2>3
<1>10. ASSUME NEW kind \in NodeKinds, NEW n \in Nodes, PowerNode(w, kind, n) PROVE \E v : Begin(w, v)
  <2>1. PICK v : v = [NoWork EXCEPT !.kind = kind, !.pc = "power", !.lab = lab, !.rows = rows,
                                    !.nodes = {n}, !.todo = {n}]
    OBVIOUS
  <2>2. v.kind = kind /\ v.pc = "power" /\ v.lab = lab /\ v.plan = None
    BY <2>1 DEF NoWork
  <2>3. Begin(w, v)
    BY <1>10, <2>1, <2>2 DEF PowerNode, Begin, PowerKinds, NodeKinds
  <2> QED BY <2>3
<1> QED BY <1>2, <1>3, <1>4, <1>6, <1>7, <1>8, <1>9, <1>10

\* Operations that go on.
LEMMA OperationGlides ==
  ASSUME IInv, NEW w \in Workers,
         \/ ApplyPrepare(w) \/ DeployBegin(w) \/ AddDone(w) \/ RemoveDone(w) \/ Validate(w)
         \/ PowerDone(w) \/ DestroyDone(w)
         \/ \E n \in Nodes : ClearNode(w, n) \/ AddNode(w, n) \/ RemoveNode(w, n) \/ PowerStep(w, n)
  PROVE  \E v : Glide(w, v)
<1>1. work[w] \in Work /\ GoodWork(work[w]) /\ work \in [Workers -> Work]
  BY WorkFacts DEF IInv, TypeOK
<1>2. ASSUME NEW pc, NEW todo, work' = [work EXCEPT ![w].pc = pc, ![w].todo = todo],
             UNCHANGED <<lab, deleted, plans, gens, ops>>, Begun(work[w]),
             \/ pc = work[w].pc
             \/ work[w].pc = "prepare" /\ pc = "save"
             \/ work[w].pc = "deploy" /\ pc = "add"
             \/ work[w].pc = "add" /\ pc = "remove"
             \/ work[w].pc = "remove" /\ pc = "validate"
             \/ work[w].pc = "validate" /\ pc = (IF work[w].kind = "apply" THEN "finish" ELSE "lab")
             \/ work[w].pc = "power" /\ pc = "finish" /\ work[w].kind # "apply"
             \/ work[w].pc = "destroy" /\ pc = "erase"
      PROVE  \E v : Glide(w, v)
  <2>1. PICK v : v = [work[w] EXCEPT !.pc = pc, !.todo = todo]
    OBVIOUS
  <2>2. /\ v.pc = pc /\ v.kind = work[w].kind /\ v.plan = work[w].plan /\ v.lab = work[w].lab
        /\ v.gen = work[w].gen /\ v.ok = work[w].ok
    BY <1>1, <2>1 DEF Work
  <2>3. work' = [work EXCEPT ![w] = v]
    BY <1>1, <1>2, <2>1
  <2>4. Glide(w, v)
    BY <1>2, <2>2, <2>3 DEF Glide
  <2> QED BY <2>4
<1>3. ASSUME NEW pc, work' = [work EXCEPT ![w].pc = pc]
      PROVE  work' = [work EXCEPT ![w].pc = pc, ![w].todo = work[w].todo]
  <2>1. [work[w] EXCEPT !.pc = pc] = [work[w] EXCEPT !.pc = pc, !.todo = work[w].todo]
    BY <1>1 DEF Work
  <2> QED BY <1>1, <1>3, <2>1
<1>4. ASSUME NEW todo, work' = [work EXCEPT ![w].todo = todo]
      PROVE  work' = [work EXCEPT ![w].pc = work[w].pc, ![w].todo = todo]
  <2>1. [work[w] EXCEPT !.todo = todo] = [work[w] EXCEPT !.pc = work[w].pc, !.todo = todo]
    BY <1>1 DEF Work
  <2> QED BY <1>1, <1>4, <2>1
<1>5. CASE ApplyPrepare(w) \/ RemoveDone(w) \/ Validate(w) \/ DestroyDone(w) \/ PowerDone(w)
  <2>1. PICK pc : /\ work' = [work EXCEPT ![w].pc = pc]
                  /\ UNCHANGED <<lab, deleted, plans, gens, ops>>
                  /\ \/ work[w].pc = "prepare" /\ pc = "save"
                     \/ work[w].pc = "remove" /\ pc = "validate"
                     \/ work[w].pc = "validate" /\ pc = (IF work[w].kind = "apply" THEN "finish" ELSE "lab")
                     \/ work[w].pc = "power" /\ pc = "finish"
                     \/ work[w].pc = "destroy" /\ pc = "erase"
    BY <1>5 DEF ApplyPrepare, RemoveDone, Validate, DestroyDone, PowerDone, Goto
  <2>2. work[w].pc = "power" => work[w].kind # "apply"
    BY <1>1 DEF GoodWork, PowerKinds, NodeKinds
  <2> QED BY <1>2, <1>3, <2>1, <2>2 DEF Begun
<1>6. CASE DeployBegin(w) \/ AddDone(w)
  <2>1. PICK pc, todo : /\ work' = [work EXCEPT ![w].pc = pc, ![w].todo = todo]
                        /\ UNCHANGED <<lab, deleted, plans, gens, ops>>
                        /\ \/ work[w].pc = "deploy" /\ pc = "add"
                           \/ work[w].pc = "add" /\ pc = "remove"
    BY <1>6 DEF DeployBegin, AddDone
  <2> QED BY <1>2, <2>1 DEF Begun
<1>7. CASE \E n \in Nodes : AddNode(w, n) \/ RemoveNode(w, n) \/ PowerStep(w, n)
  <2>1. PICK n \in Nodes : AddNode(w, n) \/ RemoveNode(w, n) \/ PowerStep(w, n)
    BY <1>7
  <2>2. PICK todo : work' = [work EXCEPT ![w].todo = todo]
    BY <2>1 DEF AddNode, RemoveNode, PowerStep
  <2>3. UNCHANGED <<lab, deleted, plans, gens, ops>> /\ Begun(work[w])
    BY <2>1 DEF AddNode, RemoveNode, PowerStep, Begun
  <2> QED BY <1>2, <1>4, <2>2, <2>3
<1>8. CASE \E n \in Nodes : ClearNode(w, n)
  <2>1. work' = work /\ UNCHANGED <<lab, deleted, plans, gens, ops>> /\ Begun(work[w])
    BY <1>8 DEF ClearNode, Begun
  <2>2. work' = [work EXCEPT ![w] = work[w]]
    BY <1>1, <2>1
  <2>3. Glide(w, work[w])
    BY <2>1, <2>2 DEF Glide
  <2> QED BY <2>3
<1> QED BY <1>5, <1>6, <1>7, <1>8

----------------------------------------------------------------------------
(* A finished apply has applied its plan *)

\* What an operation of worker w has done by the step it is at, and which plan
\* a request may write.
Accounted(w, x) ==
  /\ Begun(x) => x.kind \in OpKinds \cup NodeKinds
  /\ x.pc = "report" => x.kind \notin NodeKinds
  /\ x.pc \in {"destroy", "erase"} => x.kind = "delete"
  /\ x.pc = "failed" => ~x.ok
  /\ x.kind = "delete" => x.plan = None
  /\ x.kind = "apply" => x.pc \notin {"replace", "record", "phase"}
  /\ Begun(x) /\ x.kind \in OpKinds =>
       ops[w] = [kind |-> x.kind, plan |-> x.plan, state |-> "Running"]
  /\ ~deleted /\ x.kind = "apply" => plans[x.plan] # None
  /\ ~deleted /\ x.kind = "apply" /\ x.pc \in {"lab", "report"} /\ x.ok
       => plans[x.plan].state = "Applied"
  /\ ~deleted /\ x.pc \in {"replace", "record"} => plans[x.plan] = None

\* An operation of the table that is an apply has a plan, applied once it
\* succeeded.
Filed(y) ==
  ~deleted /\ y.kind = "apply" =>
    /\ y.plan \in Plans /\ plans[y.plan] # None
    /\ y.state = "Succeeded" => plans[y.plan].state = "Applied"

\* A plan that is being made is known to its request only.
Private(u, w) ==
  ~deleted /\ work[u].pc \in {"replace", "record"} => work[w].plan # work[u].plan

Reporting ==
  /\ \A w \in Workers : Accounted(w, work[w]) /\ Filed(ops[w])
  /\ \A u, w \in Workers : u # w => Private(u, w)

\* A worker moves on and no plan changes.
LEMMA ReportingStep ==
  ASSUME IInv, Reporting, NEW w \in Workers, NEW v, NEW y, work' = [work EXCEPT ![w] = v],
         UNCHANGED <<deleted, plans>>,
         ops' = [ops EXCEPT ![w] = y],
         Filed(y), Accounted(w, v)',
         v.pc \in {"replace", "record"} =>
           (v.plan = work[w].plan /\ work[w].pc \in {"replace", "record"}) \/ FreePlan(v.plan),
         v.plan \in {None, work[w].plan} \/ v.pc = "replace" \/ plans[v.plan] # None
  PROVE  Reporting'
<1>1. /\ work'[w] = v /\ \A u \in Workers \ {w} : work'[u] = work[u]
      /\ ops'[w] = y /\ \A u \in Workers \ {w} : ops'[u] = ops[u]
  BY DEF IInv, TypeOK
<1>2. ASSUME NEW u \in Workers \ {w} PROVE Accounted(u, work[u])'
  <2>1. Accounted(u, work[u]) /\ work'[u] = work[u] /\ ops'[u] = ops[u]
    BY <1>1 DEF Reporting
  <2> QED BY <2>1 DEF Accounted, Begun
<1>3. ASSUME NEW u \in Workers PROVE Filed(ops[u])'
  <2>1. Filed(ops'[u])
    BY <1>1 DEF Reporting
  <2> QED BY <2>1 DEF Filed
<1>4. ASSUME NEW u \in Workers \ {w} PROVE Private(u, w)' /\ Private(w, u)'
  <2>1. Private(u, w)'
    <3> SUFFICES ASSUME ~deleted, work[u].pc \in {"replace", "record"} PROVE v.plan # work[u].plan
      BY <1>1 DEF Private
    <3>1. work[w].plan # work[u].plan /\ plans[work[u].plan] = None
      BY DEF Reporting, Private, Accounted
    <3>2. work[u].plan \in Plans
      BY DEF IInv, References, WorkRefs, GoodWork
    <3> QED BY <3>1, <3>2, LabAssumptions DEF FreePlan
  <2>2. Private(w, u)'
    BY <1>1 DEF Reporting, Private, FreePlan
  <2> QED BY <2>1, <2>2
<1>5. \A t, u \in Workers \ {w} : t # u => Private(t, u)'
  BY <1>1 DEF Reporting, Private
<1>6. Accounted(w, work[w])'
  BY <1>1 DEF Accounted, Begun
<1> QED BY <1>2, <1>3, <1>4, <1>5, <1>6 DEF Reporting

\* An idle worker has nothing to account for.
LEMMA IdleAccounted == \A w \in Workers : Accounted(w, NoWork) /\ Accounted(w, NoWork)'
  BY NoWorkGood, LabAssumptions DEF Accounted, Begun, AllKinds, NoWork

\* The table is left alone.
LEMMA SameOps ==
  ASSUME IInv, Reporting, NEW w \in Workers, UNCHANGED ops
  PROVE  ops' = [ops EXCEPT ![w] = ops[w]] /\ Filed(ops[w])
  BY DEF IInv, TypeOK, Reporting

\* A worker that gives up or is done.
LEMMA IdleReporting ==
  ASSUME IInv, Reporting, NEW w \in Workers, work' = [work EXCEPT ![w] = NoWork],
         UNCHANGED <<deleted, plans, ops>>
  PROVE  Reporting'
<1>1. NoWork.pc = "idle" /\ NoWork.plan = None
  BY DEF NoWork
<1>2. Accounted(w, NoWork)'
  BY IdleAccounted
<1> QED BY <1>1, <1>2, SameOps, ReportingStep

\* Requests that begin.
LEMMA BeginReporting ==
  ASSUME IInv, Reporting, NEW w \in Workers, NEW v, Begin(w, v)
  PROVE  Reporting'
<1>1. PICK y : y = IF v.kind \in {"repair"} \cup PowerKinds
                     THEN [kind |-> v.kind, plan |-> None, state |-> "Running"] ELSE ops[w]
  OBVIOUS
<1>2. ops' = [ops EXCEPT ![w] = y] /\ ops'[w] = y
  BY <1>1 DEF Begin, IInv, TypeOK
<1>3. Filed(y)
  <2>1. CASE v.kind \in {"repair"} \cup PowerKinds
    BY <1>1, <2>1 DEF Filed, PowerKinds
  <2>2. CASE v.kind \notin {"repair"} \cup PowerKinds
    BY <1>1, <2>2 DEF Reporting
  <2> QED BY <2>1, <2>2
<1>4. UNCHANGED <<deleted, plans>> /\ work' = [work EXCEPT ![w] = v]
  BY DEF Begin
<1>5. Accounted(w, v)'
  BY <1>1, <1>2, <1>4 DEF Begin, Accounted, Begun, OpKinds, PowerKinds, NodeKinds, FreePlan
<1>6. /\ v.pc \in {"replace", "record"} => FreePlan(v.plan)
      /\ v.plan = None \/ v.pc = "replace" \/ plans[v.plan] # None \/ v.plan = work[w].plan
  <2>1. v.pc \in {"replace", "record"} => FreePlan(v.plan)
    BY DEF Begin
  <2>2. v.pc = "start" => v.plan = None \/ plans[v.plan] # None
    BY DEF Begin
  <2> QED BY <2>1, <2>2 DEF Begin
<1> QED BY <1>2, <1>3, <1>4, <1>5, <1>6, ReportingStep

\* Operations that go on.
LEMMA GlideReporting ==
  ASSUME IInv, Reporting, NEW w \in Workers, NEW v, Glide(w, v)
  PROVE  Reporting'
<1>1. /\ UNCHANGED <<deleted, plans, ops>> /\ work' = [work EXCEPT ![w] = v] /\ v.plan = work[w].plan
      /\ v.pc \notin {"replace", "record"}
  BY DEF Glide, Begun
<1>2. Accounted(w, work[w])
  BY DEF Reporting
<1>3. Accounted(w, v)'
  BY <1>1, <1>2 DEF Glide, Accounted, Begun
<1> QED BY <1>1, <1>3, SameOps, ReportingStep

\* The rest of a request.
LEMMA RequestsReporting ==
  ASSUME IInv, Reporting, NEW w \in Workers,
         \/ ApplyStart(w) \/ DeleteStart(w) \/ (\E s \in Shapes : TopologyWrite(w, s))
         \/ PlanReplace(w) \/ PlanRecord(w) \/ PlanPhase(w)
  PROVE  Reporting'
<1>1. work[w] \in Work /\ GoodWork(work[w]) /\ work \in [Workers -> Work] /\ ops \in [Workers -> Op]
  BY WorkFacts DEF IInv, TypeOK
<1>2. PICK x \in Work : x = work[w]
  BY <1>1
<1>3. Accounted(w, x)
  BY <1>2 DEF Reporting
<1>4. CASE ApplyStart(w)
  <2>1. x.kind = "apply" /\ x.pc = "start" /\ x.plan \in Plans /\ UNCHANGED <<deleted, plans>>
    BY <1>1, <1>2, <1>4 DEF ApplyStart, GoodWork
  <2>2. ~deleted => plans[x.plan] # None
    BY <1>3, <2>1 DEF Accounted
  <2>3. \A st \in {"Queued", "Running"} : Filed([kind |-> "apply", plan |-> x.plan, state |-> st])
    BY <2>1, <2>2 DEF Filed
  <2>4. CASE work' = [work EXCEPT ![w] = NoWork]
    <3>1. PICK y : /\ ops' = [ops EXCEPT ![w] = y]
                   /\ y = ops[w] \/ y = [kind |-> "apply", plan |-> x.plan, state |-> "Queued"]
                                 \/ y = [kind |-> "apply", plan |-> x.plan, state |-> "Running"]
      <4>1. ops' = ops \/ ops' = [ops EXCEPT ![w] = [kind |-> "apply", plan |-> x.plan, state |-> "Queued"]]
                       \/ ops' = [ops EXCEPT ![w] = [kind |-> "apply", plan |-> x.plan, state |-> "Running"]]
        BY <1>2, <1>4 DEF ApplyStart, StartOp, StoreOp
      <4>2. ops = [ops EXCEPT ![w] = ops[w]]
        BY <1>1
      <4> QED BY <4>1, <4>2
    <3>2. Filed(y)
      BY <2>3, <3>1 DEF Reporting
    <3>3. NoWork.pc = "idle" /\ NoWork.plan = None /\ Accounted(w, NoWork)'
      BY IdleAccounted DEF NoWork
    <3> QED BY <2>1, <2>4, <3>1, <3>2, <3>3, ReportingStep
  <2>5. CASE work' # [work EXCEPT ![w] = NoWork]
    <3> DEFINE y == [kind |-> "apply", plan |-> x.plan, state |-> "Running"]
    <3>1. work' = [work EXCEPT ![w] = [work[w] EXCEPT
              !.pc = "prepare", !.lab = [work[w].lab EXCEPT !.phase = "Applying"], !.rows = rows,
              !.nodes = DOMAIN rows, !.base = IF work[w].gen > 0 THEN gens[work[w].gen].nodes ELSE {}]]
      BY <1>1, <1>4, <2>5 DEF ApplyStart
    <3>2. PICK v : v = [work[w] EXCEPT
              !.pc = "prepare", !.lab = [work[w].lab EXCEPT !.phase = "Applying"], !.rows = rows,
              !.nodes = DOMAIN rows, !.base = IF work[w].gen > 0 THEN gens[work[w].gen].nodes ELSE {}]
      OBVIOUS
    <3>3. v.pc = "prepare" /\ v.kind = "apply" /\ v.plan = x.plan
      BY <1>2, <2>1, <3>2 DEF Work
    <3>4. ops' = [ops EXCEPT ![w] = y]
      BY <1>2, <1>4, <2>5 DEF ApplyStart, StartOp, StoreOp
    <3>5. ops'[w] = y
      BY <1>1, <3>4
    <3>6. Accounted(w, v)'
      BY <2>1, <2>2, <3>3, <3>5 DEF Accounted, Begun, OpKinds, NodeKinds
    <3>7. Filed(y)
      BY <2>3
    <3> HIDE DEF y
    <3> QED BY <1>2, <2>1, <3>1, <3>2, <3>3, <3>4, <3>6, <3>7, ReportingStep
  <2> QED BY <2>4, <2>5
<1>5. CASE DeleteStart(w)
  <2>1. x.kind = "delete" /\ x.pc = "start" /\ UNCHANGED <<deleted, plans>>
    BY <1>2, <1>5 DEF DeleteStart
  <2>2. \A st \in {"Queued", "Running"} : Filed([kind |-> "delete", plan |-> None, state |-> st])
    BY DEF Filed
  <2>3. CASE lab = None
    <3> DEFINE y == [kind |-> "delete", plan |-> None, state |-> "Queued"]
    <3>1. ops' = [ops EXCEPT ![w] = y] /\ work' = [work EXCEPT ![w] = NoWork]
      BY <1>5, <2>3 DEF DeleteStart, StoreOp
    <3>2. NoWork.pc = "idle" /\ NoWork.plan = None /\ Accounted(w, NoWork)' /\ Filed(y)
      BY <2>2, IdleAccounted DEF NoWork
    <3> HIDE DEF y
    <3> QED BY <2>1, <3>1, <3>2, ReportingStep
  <2>4. CASE lab # None
    <3> DEFINE y == [kind |-> "delete", plan |-> None, state |-> "Running"]
    <3>1. /\ ops' = [ops EXCEPT ![w] = y]
          /\ \E t : work' = [work EXCEPT ![w].pc = "destroy", ![w].todo = t]
      BY <1>5, <2>4 DEF DeleteStart, StartOp, StoreOp
    <3>2. PICK t : work' = [work EXCEPT ![w].pc = "destroy", ![w].todo = t]
      BY <3>1
    <3>3. PICK v : v = [x EXCEPT !.pc = "destroy", !.todo = t]
      OBVIOUS
    <3>4. work' = [work EXCEPT ![w] = v] /\ v.pc = "destroy" /\ v.kind = "delete" /\ v.plan = x.plan
      BY <1>1, <1>2, <2>1, <3>2, <3>3 DEF Work
    <3>5. x.plan = None
      BY <1>3, <2>1 DEF Accounted
    <3>6. ops'[w] = y
      BY <1>1, <3>1
    <3>7. Accounted(w, v)'
      BY <3>4, <3>5, <3>6 DEF Accounted, Begun, OpKinds, NodeKinds
    <3>8. Filed(y)
      BY <2>2
    <3> HIDE DEF y
    <3> QED BY <1>2, <2>1, <3>1, <3>4, <3>7, <3>8, ReportingStep
  <2> QED BY <2>3, <2>4
<1>6. CASE (\E s \in Shapes : TopologyWrite(w, s)) \/ PlanPhase(w)
  BY <1>6, IdleReporting DEF TopologyWrite, PlanPhase
<1>7. CASE PlanReplace(w)
  <2>1. x.pc = "replace" /\ UNCHANGED <<deleted, plans, ops>>
    BY <1>2, <1>7 DEF PlanReplace
  <2>2. PICK v : v = [x EXCEPT !.pc = "record"]
    OBVIOUS
  <2>3. work' = [work EXCEPT ![w] = v] /\ v.pc = "record" /\ v.kind = x.kind /\ v.plan = x.plan
    BY <1>1, <1>2, <1>7, <2>2 DEF PlanReplace, Goto, Work
  <2>4. Accounted(w, v)'
    BY <1>3, <2>1, <2>3 DEF Accounted, Begun
  <2> QED BY <1>2, <2>1, <2>3, <2>4, SameOps, ReportingStep
<1>8. CASE PlanRecord(w)
  <2>1. x.pc = "record" /\ x.plan \in Plans /\ UNCHANGED <<deleted, ops>>
    BY <1>1, <1>2, <1>8 DEF PlanRecord, GoodWork
  <2>2. PICK doc : plans' = [plans EXCEPT ![x.plan] = doc] /\ doc = [base |-> x.lab.gen, state |-> "Pending", nodes |-> x.nodes]
    BY <1>2, <1>8 DEF PlanRecord
  <2>3. plans \in [Plans -> Plan \cup {None}] /\ plans' \in [Plans -> Plan \cup {None}]
    <3>1. IInv'
      BY <1>8, PlanRecordStep
    <3> QED BY <3>1 DEF IInv, TypeOK
  <2>4. plans'[x.plan] = doc /\ \A p \in Plans \ {x.plan} : plans'[p] = plans[p]
    BY <2>1, <2>2, <2>3
  <2>5. PICK v : v = [x EXCEPT !.pc = "phase"]
    OBVIOUS
  <2>6. work' = [work EXCEPT ![w] = v] /\ v.pc = "phase" /\ v.kind = x.kind /\ v.plan = x.plan
    BY <1>1, <1>2, <1>8, <2>5 DEF PlanRecord, Goto, Work
  <2>7. work'[w] = v /\ \A u \in Workers \ {w} : work'[u] = work[u]
    BY <1>1, <2>6
  <2>8. x.kind # "apply"
    BY <1>3, <2>1 DEF Accounted
  <2>9. ~deleted => plans[x.plan] = None
    BY <1>3, <2>1 DEF Accounted
  <2>10. Accounted(w, v)'
    BY <1>3, <2>6, <2>8 DEF Accounted, Begun
  <2>11. ASSUME NEW u \in Workers \ {w} PROVE Accounted(u, work[u])'
    <3>1. Accounted(u, work[u]) /\ Private(w, u)
      BY DEF Reporting
    <3>2. PICK z \in Work : z = work[u]
      BY <1>1
    <3>3. work'[u] = z /\ ops'[u] = ops[u] /\ deleted' = deleted /\ Accounted(u, z)
      BY <2>1, <2>7, <3>1, <3>2
    <3>4. ~deleted => z.plan # x.plan
      BY <1>2, <2>1, <3>1, <3>2 DEF Private
    <3>5. z.plan \in Plans /\ ~deleted => plans'[z.plan] = plans[z.plan]
      BY <2>4, <3>4
    <3>6. z.kind = "apply" \/ z.pc \in {"replace", "record"} => z.plan \in Plans
      BY <3>2, WorkFacts DEF GoodWork
    <3>7. Accounted(u, z)'
      BY <3>3, <3>5, <3>6 DEF Accounted, Begun
    <3> QED BY <3>3, <3>7 DEF Accounted, Begun
  <2>12. ASSUME NEW u \in Workers PROVE Filed(ops[u])'
    <3>1. PICK z : z = ops[u]
      OBVIOUS
    <3>2. Filed(z) /\ ops'[u] = z
      BY <2>1, <3>1 DEF Reporting
    <3>3. Filed(z)'
      BY <2>1, <2>4, <2>9, <3>2 DEF Filed
    <3> QED BY <3>2, <3>3 DEF Filed
  <2>13. ASSUME NEW t \in Workers, NEW u \in Workers, t # u PROVE Private(t, u)'
    <3>1. Private(t, u) /\ deleted' = deleted
      BY <2>1, <2>13 DEF Reporting
    <3>2. /\ work'[u].plan = work[u].plan /\ work'[t].plan = work[t].plan
          /\ work'[t].pc \in {"replace", "record"} => work[t].pc \in {"replace", "record"}
      BY <1>2, <2>1, <2>6, <2>7
    <3> QED BY <3>1, <3>2 DEF Private
  <2>14. Accounted(w, work[w])'
    BY <2>7, <2>10 DEF Accounted, Begun
  <2> QED BY <2>11, <2>12, <2>13, <2>14 DEF Reporting
<1> QED BY <1>4, <1>5, <1>6, <1>7, <1>8

\* Nothing of it changes.
LEMMA ReportingKept ==
  ASSUME Reporting, UNCHANGED <<deleted, plans, work, ops>>
  PROVE  Reporting'
  BY DEF Reporting, Accounted, Filed, Private, Begun

\* The end of an operation.
LEMMA EndReporting ==
  ASSUME IInv, Reporting, NEW w \in Workers,
         ApplySave(w) \/ StepFails(w) \/ FinishLab(w) \/ Report(w)
  PROVE  Reporting'
<1>1. work[w] \in Work /\ GoodWork(work[w]) /\ work \in [Workers -> Work] /\ ops \in [Workers -> Op]
  BY WorkFacts DEF IInv, TypeOK
<1>2. PICK x \in Work : x = work[w]
  BY <1>1
<1>3. Accounted(w, x) /\ GoodWork(x) /\ Filed(ops[w])
  BY <1>1, <1>2 DEF Reporting
<1>4. CASE ApplySave(w)
  <2>1. x.pc = "save" /\ UNCHANGED <<deleted, plans, ops>>
    BY <1>2, <1>4 DEF ApplySave
  <2>2. PICK v : v = [x EXCEPT !.pc = "deploy"]
    OBVIOUS
  <2>3. work' = [work EXCEPT ![w] = v] /\ v.pc = "deploy" /\ v.kind = x.kind /\ v.plan = x.plan
    BY <1>1, <1>2, <1>4, <2>2 DEF ApplySave, Goto, Work
  <2>4. Accounted(w, v)'
    BY <1>3, <2>1, <2>3 DEF Accounted, Begun
  <2> QED BY <1>2, <2>1, <2>3, <2>4, SameOps, ReportingStep
<1>5. CASE StepFails(w)
  <2>1. Begun(x) /\ UNCHANGED <<deleted, plans, ops>> /\ FailStep(w)
    BY <1>2, <1>5 DEF StepFails, Begun
  <2>2. CASE x.kind \in NodeKinds
    BY <1>2, <2>1, <2>2, IdleReporting DEF FailStep
  <2>3. CASE x.kind \notin NodeKinds
    <3>1. PICK pc \in {"report", "failed"} : /\ work' = [work EXCEPT ![w].pc = pc, ![w].ok = FALSE]
                                             /\ pc = IF x.kind = "delete" THEN "report" ELSE "failed"
      BY <1>2, <2>1, <2>3 DEF FailStep
    <3>2. PICK v : v = [x EXCEPT !.pc = pc, !.ok = FALSE]
      OBVIOUS
    <3>3. /\ work' = [work EXCEPT ![w] = v]
          /\ v.pc = pc /\ v.kind = x.kind /\ v.plan = x.plan /\ v.ok = FALSE
      BY <1>1, <1>2, <3>1, <3>2 DEF Work
    <3>4. Accounted(w, v)'
      BY <1>3, <2>1, <2>3, <3>3 DEF Accounted, Begun
    <3> QED BY <1>2, <2>1, <3>3, <3>4, SameOps, ReportingStep
  <2> QED BY <2>2, <2>3
<1>6. CASE FinishLab(w)
  <2>1. x.pc \in {"lab", "failed"} /\ UNCHANGED <<deleted, plans, ops>>
    BY <1>2, <1>6 DEF FinishLab
  <2>2. CASE x.kind \in NodeKinds
    BY <1>2, <1>6, <2>1, <2>2, IdleReporting DEF FinishLab
  <2>3. CASE x.kind \notin NodeKinds
    <3>1. work' = [work EXCEPT ![w].pc = "report"]
      BY <1>2, <1>6, <2>3 DEF FinishLab
    <3>2. PICK v : v = [x EXCEPT !.pc = "report"]
      OBVIOUS
    <3>3. /\ work' = [work EXCEPT ![w] = v]
          /\ v.pc = "report" /\ v.kind = x.kind /\ v.plan = x.plan /\ v.ok = x.ok
      BY <1>1, <1>2, <3>1, <3>2 DEF Work
    <3>4. Accounted(w, v)'
      BY <1>3, <2>1, <2>3, <3>3 DEF Accounted, Begun
    <3> QED BY <1>2, <2>1, <3>3, <3>4, SameOps, ReportingStep
  <2> QED BY <2>2, <2>3
<1>7. CASE Report(w)
  <2>1. x.pc = "report" /\ UNCHANGED <<deleted, plans>> /\ work' = [work EXCEPT ![w] = NoWork]
    BY <1>2, <1>7 DEF Report
  <2>2. ops[w] = [kind |-> x.kind, plan |-> x.plan, state |-> "Running"]
    BY <1>3, <2>1 DEF Accounted, Begun
  <2>3. PICK y : y = [kind |-> x.kind, plan |-> x.plan, state |-> IF x.ok THEN "Succeeded" ELSE "Failed"]
    OBVIOUS
  <2>4. ops' = [ops EXCEPT ![w] = y]
    <3>1. ops' = [ops EXCEPT ![w].state = IF x.ok THEN "Succeeded" ELSE "Failed"]
      BY <1>2, <1>7 DEF Report
    <3>2. [ops[w] EXCEPT !.state = IF x.ok THEN "Succeeded" ELSE "Failed"] = y
      BY <2>2, <2>3
    <3> QED BY <1>1, <3>1, <3>2
  <2>5. Filed(y)
    BY <1>3, <2>1, <2>3 DEF Accounted, GoodWork, Filed
  <2>6. NoWork.pc = "idle" /\ NoWork.plan = None /\ Accounted(w, NoWork)'
    BY IdleAccounted DEF NoWork
  <2> QED BY <2>1, <2>4, <2>5, <2>6, ReportingStep
<1> QED BY <1>4, <1>5, <1>6, <1>7

\* onDone marks the plan, and no plan document goes away.
LEMMA FinishReporting ==
  ASSUME IInv, Reporting, NEW w \in Workers, FinishRows(w)
  PROVE  Reporting'
<1>1. work[w] \in Work /\ GoodWork(work[w]) /\ work \in [Workers -> Work] /\ ops \in [Workers -> Op]
  BY WorkFacts DEF IInv, TypeOK
<1>2. PICK x \in Work : x = work[w]
  BY <1>1
<1>3. Accounted(w, x) /\ GoodWork(x) /\ x.pc = "finish" /\ UNCHANGED <<deleted, ops>>
  BY <1>1, <1>2 DEF Reporting, FinishRows
<1>4. plans' = IF x.kind = "apply" /\ plans[x.plan] # None
                 THEN [plans EXCEPT ![x.plan].state = "Applied"] ELSE plans
  BY <1>2 DEF FinishRows
<1>5. plans \in [Plans -> Plan \cup {None}] /\ (x.kind = "apply" => x.plan \in Plans)
  BY <1>3 DEF IInv, TypeOK, GoodWork
<1>6. plans' \in [Plans -> Plan \cup {None}]
  <2>1. IInv'
    BY FinishRowsStep
  <2> QED BY <2>1 DEF IInv, TypeOK
<1>7. ASSUME NEW p \in Plans
      PROVE  /\ plans'[p] = None <=> plans[p] = None
             /\ plans[p] # None /\ plans[p].state = "Applied" => plans'[p].state = "Applied"
             /\ x.kind = "apply" /\ p = x.plan /\ plans[p] # None => plans'[p].state = "Applied"
  <2>1. CASE x.kind = "apply" /\ plans[x.plan] # None /\ p = x.plan
    <3>1. PICK d \in Plan : d = plans[p]
      BY <1>5, <2>1
    <3>2. plans'[p] = [d EXCEPT !.state = "Applied"]
      BY <1>4, <1>5, <2>1, <3>1
    <3>3. plans'[p].state = "Applied" /\ plans'[p] \in Plan
      BY <3>1, <3>2 DEF Plan
    <3>4. None \notin Plan
      BY NoneIsNoDocument
    <3> QED BY <2>1, <3>1, <3>3, <3>4
  <2>2. CASE ~(x.kind = "apply" /\ plans[x.plan] # None /\ p = x.plan)
    BY <1>4, <1>5, <2>2
  <2> QED BY <2>1, <2>2
<1>8. PICK v : /\ work' = [work EXCEPT ![w] = v]
               /\ v = NoWork \/ v = [x EXCEPT !.pc = "lab"]
  BY <1>1, <1>2 DEF FinishRows
<1>9. v.plan \in {None, x.plan} /\ v.pc \notin {"replace", "record"}
  BY <1>8 DEF NoWork, Work
<1>10. work'[w] = v /\ \A u \in Workers \ {w} : work'[u] = work[u]
  BY <1>1, <1>8
<1>11. Accounted(w, v)'
  <2>1. CASE v = NoWork
    BY <2>1, IdleAccounted
  <2>2. CASE v = [x EXCEPT !.pc = "lab"]
    <3>1. v.pc = "lab" /\ v.kind = x.kind /\ v.plan = x.plan /\ v.ok = x.ok
      BY <2>2 DEF Work
    <3>2. ~deleted /\ x.kind = "apply" => plans[x.plan] # None
      BY <1>3 DEF Accounted
    <3>3. ~deleted /\ x.kind = "apply" => plans'[x.plan] # None /\ plans'[x.plan].state = "Applied"
      BY <1>5, <1>7, <3>2
    <3> QED BY <1>3, <3>1, <3>3 DEF Accounted, Begun
  <2> QED BY <1>8, <2>1, <2>2
<1>12. ASSUME NEW u \in Workers \ {w} PROVE Accounted(u, work[u])'
  <2>1. PICK z \in Work : z = work[u]
    BY <1>1
  <2>2. work'[u] = z /\ ops'[u] = ops[u] /\ deleted' = deleted /\ Accounted(u, z)
    BY <1>3, <1>10, <2>1 DEF Reporting
  <2>3. z.kind = "apply" \/ z.pc \in {"replace", "record"} => z.plan \in Plans
    BY <2>1, WorkFacts DEF GoodWork
  <2>4. Accounted(u, z)'
    BY <1>7, <2>2, <2>3 DEF Accounted, Begun
  <2> QED BY <2>2, <2>4 DEF Accounted, Begun
<1>13. ASSUME NEW u \in Workers PROVE Filed(ops[u])'
  <2>1. PICK z : z = ops[u]
    OBVIOUS
  <2>2. Filed(z) /\ ops'[u] = z
    BY <1>3, <2>1 DEF Reporting
  <2>3. Filed(z)'
    BY <1>3, <1>7, <2>2 DEF Filed
  <2> QED BY <2>2, <2>3 DEF Filed
<1>14. ASSUME NEW t \in Workers, NEW u \in Workers, t # u PROVE Private(t, u)'
  <2>1. Private(t, u) /\ deleted' = deleted
    BY <1>3, <1>14 DEF Reporting
  <2>2. /\ work'[u].plan \in {None, work[u].plan}
        /\ work'[t].pc \in {"replace", "record"} => work'[t] = work[t] /\ work[t].plan \in Plans
    BY <1>2, <1>9, <1>10, WorkFacts DEF GoodWork
  <2> QED BY <2>1, <2>2, LabAssumptions DEF Private
<1>15. Accounted(w, work[w])'
  BY <1>10, <1>11 DEF Accounted, Begun
<1> QED BY <1>12, <1>13, <1>14, <1>15 DEF Reporting

\* The lab goes away.
LEMMA DeleteReporting ==
  ASSUME IInv, Reporting, NEW w \in Workers, DeleteResources(w)
  PROVE  Reporting'
<1>1. work[w] \in Work /\ work \in [Workers -> Work] /\ deleted' = TRUE /\ ops' = ops
  BY WorkFacts DEF IInv, TypeOK, DeleteResources
<1>2. /\ work'[w] = [work[w] EXCEPT !.pc = "report"]
      /\ \A u \in Workers \ {w} : work'[u] = work[u]
  BY <1>1 DEF DeleteResources, Goto
<1>3. Accounted(w, work[w]) /\ work[w].pc = "erase"
  BY DEF Reporting, DeleteResources
<1>4. /\ work'[w].pc = "report" /\ work'[w].kind = work[w].kind /\ work'[w].plan = work[w].plan
  BY <1>1, <1>2 DEF Work
<1>5. Accounted(w, work[w])'
  BY <1>1, <1>3, <1>4 DEF Accounted, Begun, NodeKinds
<1>6. ASSUME NEW u \in Workers \ {w} PROVE Accounted(u, work[u])'
  <2>1. Accounted(u, work[u]) /\ work'[u] = work[u]
    BY <1>2 DEF Reporting
  <2> QED BY <1>1, <2>1 DEF Accounted, Begun
<1>7. \A u \in Workers : Filed(ops[u])'
  BY <1>1 DEF Filed
<1>8. \A t, u \in Workers : Private(t, u)'
  BY <1>1 DEF Private
<1> QED BY <1>5, <1>6, <1>7, <1>8 DEF Reporting

\* Every step keeps the account.
LEMMA ReportingInductive ==
  ASSUME IInv, Reporting, [Next]_vars
  PROVE  Reporting'
<1>1. CASE UNCHANGED vars
  BY <1>1, ReportingKept DEF vars
<1>2. CASE \E s \in Shapes : CreateLab(s)
  BY <1>2, ReportingKept DEF CreateLab
<1>3. CASE Observer
  BY <1>3, ReportingKept DEF Observer, SweepLab, SweepNodes, Reconcile
<1>4. CASE Crash
  <2>1. /\ UNCHANGED <<deleted, plans, ops>>
        /\ \A u \in Workers : work'[u] = NoWork
    BY <1>4 DEF Crash
  <2>2. \A u \in Workers : Accounted(u, NoWork)'
    BY IdleAccounted
  <2>3. ASSUME NEW u \in Workers PROVE Accounted(u, work[u])'
    BY <2>1, <2>2 DEF Accounted, Begun
  <2>4. \A u \in Workers : Filed(ops[u])'
    BY <2>1 DEF Reporting, Filed
  <2>5. \A t, u \in Workers : Private(t, u)'
    BY <2>1 DEF Private, NoWork
  <2> QED BY <2>3, <2>4, <2>5 DEF Reporting
<1>5. ASSUME NEW w \in Workers, Requests(w) PROVE Reporting'
  <2>1. CASE \/ TopologyRead(w) \/ RepairRead(w) \/ DeleteRead(w)
             \/ \E p \in Plans : PlanRead(w, p) \/ ApplyRead(w, p)
             \/ \E p \in Plans, g \in DOMAIN gens : RollbackRead(w, p, g)
             \/ \E kind \in PowerKinds : PowerLab(w, kind)
             \/ \E kind \in NodeKinds, n \in Nodes : PowerNode(w, kind, n)
    BY <2>1, RequestBegins, BeginReporting
  <2>2. CASE \/ ApplyStart(w) \/ DeleteStart(w) \/ (\E s \in Shapes : TopologyWrite(w, s))
             \/ PlanReplace(w) \/ PlanRecord(w) \/ PlanPhase(w)
    BY <2>2, RequestsReporting
  <2> QED BY <1>5, <2>1, <2>2 DEF Requests
<1>6. ASSUME NEW w \in Workers, Execute(w) PROVE Reporting'
  <2>1. CASE \/ ApplyPrepare(w) \/ DeployBegin(w) \/ AddDone(w) \/ RemoveDone(w) \/ Validate(w)
             \/ PowerDone(w) \/ DestroyDone(w)
             \/ \E n \in Nodes : ClearNode(w, n) \/ AddNode(w, n) \/ RemoveNode(w, n) \/ PowerStep(w, n)
    BY <2>1, OperationGlides, GlideReporting
  <2>2. CASE ApplySave(w) \/ StepFails(w) \/ FinishLab(w) \/ Report(w)
    BY <2>2, EndReporting
  <2>3. CASE FinishRows(w)
    BY <2>3, FinishReporting
  <2>4. CASE DeleteResources(w)
    BY <2>4, DeleteReporting
  <2> QED BY <1>6, <2>1, <2>2, <2>3, <2>4 DEF Execute
<1> QED BY <1>1, <1>2, <1>3, <1>4, <1>5, <1>6 DEF Next

\* A client that reads a finished apply finds its plan applied or the lab
\* deleted (Manager.Run stores the final state after onDone): for any number
\* of concurrent requests, with crashes, failing steps and the observer.
THEOREM FinishedIsApplied == Spec => []ReportedIsFinal
<1>1. Init => Reporting
  <2> SUFFICES ASSUME Init PROVE Reporting
    OBVIOUS
  <2>1. \A w \in Workers : work[w] = NoWork /\ ops[w] = NoOp
    BY DEF Init
  <2>2. ASSUME NEW w \in Workers PROVE Accounted(w, work[w]) /\ Filed(ops[w])
    BY <2>1, IdleAccounted, LabAssumptions DEF Filed, NoOp, AllKinds
  <2>3. \A t, u \in Workers : Private(t, u)
    BY <2>1 DEF Private, NoWork
  <2> QED BY <2>2, <2>3 DEF Reporting
<1>2. IInv /\ Reporting /\ [Next]_vars => Reporting'
  BY ReportingInductive
<1>3. Reporting => ReportedIsFinal
  BY DEF Reporting, Filed, ReportedIsFinal
<1> QED BY <1>1, <1>2, <1>3, Inductive, PTL DEF Spec

----------------------------------------------------------------------------
(* The deployed generation keeps its snapshot *)

\* The snapshots reach at most one generation beyond the deployed one.
Retains ==
  /\ lab = None => DOMAIN gens = {}
  /\ DeployedIsRetained
  /\ lab # None => \A h \in DOMAIN gens : h <= lab.gen + 1

\* A request works on the deployed generation, and an apply that deploys has
\* saved the next one.
Held(x) ==
  /\ lab = None => x.pc \in {"idle", "report"}
  /\ x.pc \notin {"idle", "report"} => x.lab.gen = lab.gen /\ (x.kind = "apply" => x.gen = lab.gen)
  /\ x.kind = "apply" /\ x.pc \in {"deploy", "add", "remove", "validate", "finish", "lab"}
       => x.gen + 1 \in DOMAIN gens
  /\ x.pc = "failed" => ~x.ok

Retention ==
  /\ Retains
  /\ \A w \in Workers : Held(work[w])
  /\ sweep.pc = "idle"

\* One request at a time.
Serially == ~Observes /\ \A v, w \in Workers : v = w

\* Saving the generation after the deployed one prunes neither of the two.
LEMMA SaveKeepsBase ==
  ASSUME gens \in Gens, NEW g \in Nat, NEW snap, \A h \in DOMAIN gens : h <= g + 1
  PROVE  /\ g + 1 \in DOMAIN SaveGeneration(g + 1, snap)
         /\ DOMAIN SaveGeneration(g + 1, snap) \subseteq DOMAIN gens \cup {g + 1}
         /\ g \in DOMAIN gens => g \in DOMAIN SaveGeneration(g + 1, snap)
<1> DEFINE numbers == DOMAIN gens \cup {g + 1}
<1>1. DOMAIN SaveGeneration(g + 1, snap) = {k \in numbers : Kept(k, numbers)}
  BY DEF SaveGeneration
<1>2. \A h \in numbers : h \in Int /\ h <= g + 1
  BY GensElim, LabAssumptions
<1>3. {h \in numbers : h > g + 1} = {} /\ {h \in numbers : h > g} = {g + 1}
  BY <1>2
<1>4. Cardinality({}) = 0 /\ Cardinality({g + 1}) = 1
  BY FS_EmptySet, FS_Singleton
<1>5. Retained \in Nat /\ Retained > 1
  BY LabAssumptions
<1>6. Kept(g + 1, numbers) /\ Kept(g, numbers)
  BY <1>3, <1>4, <1>5 DEF Kept
<1> QED BY <1>1, <1>6

\* The only request moves on.
LEMMA RetentionStep ==
  ASSUME IInv, Retention, Serially, NEW w \in Workers, NEW v, work' = [work EXCEPT ![w] = v],
         Held(v)', Retains', UNCHANGED sweep
  PROVE  Retention'
<1>1. \A u \in Workers : work'[u] = v
  BY DEF Serially, IInv, TypeOK
<1>2. ASSUME NEW u \in Workers PROVE Held(work[u])'
  BY <1>1 DEF Held
<1> QED BY <1>2 DEF Retention

\* A worker at rest holds nothing.
LEMMA IdleHeld == Held(NoWork)'
  BY DEF Held, NoWork

\* The lab and the snapshots are left alone.
LEMMA SameRetains ==
  ASSUME Retention, UNCHANGED <<lab, gens>>
  PROVE  Retains'
  BY DEF Retention, Retains, DeployedIsRetained

\* The lab document is written with the generation it has.
LEMMA SameGeneration ==
  ASSUME Retention, UNCHANGED gens, lab # None, lab' # None, lab'.gen = lab.gen
  PROVE  Retains'
  BY DEF Retention, Retains, DeployedIsRetained

\* Requests that begin and operations that go on.
LEMMA OutlineRetention ==
  ASSUME IInv, Retention, Serially, NEW w \in Workers, NEW v, Begin(w, v) \/ Glide(w, v), UNCHANGED sweep
  PROVE  Retention'
<1>1. UNCHANGED <<lab, gens>> /\ work' = [work EXCEPT ![w] = v]
  BY DEF Begin, Glide
<1>2. Held(work[w])
  BY DEF Retention
<1>3. CASE Begin(w, v)
  <2>1. Held(v)
    BY <1>3 DEF Begin, Held
  <2>2. Held(v)'
    BY <1>1, <2>1 DEF Held
  <2> QED BY <1>1, <2>2, SameRetains, RetentionStep
<1>4. CASE Glide(w, v)
  <2>1. Held(v)
    BY <1>2, <1>4 DEF Glide, Begun, Held
  <2>2. Held(v)'
    BY <1>1, <2>1 DEF Held
  <2> QED BY <1>1, <2>2, SameRetains, RetentionStep
<1> QED BY <1>3, <1>4

\* The documents a request writes back.
LEMMA RequestsRetention ==
  ASSUME IInv, Retention, Serially, NEW w \in Workers,
         \/ ApplyStart(w) \/ DeleteStart(w) \/ (\E s \in Shapes : TopologyWrite(w, s))
         \/ PlanReplace(w) \/ PlanRecord(w) \/ PlanPhase(w)
  PROVE  Retention'
<1>1. work[w] \in Work /\ GoodWork(work[w]) /\ work \in [Workers -> Work]
  BY WorkFacts DEF IInv, TypeOK
<1>2. PICK x \in Work : x = work[w]
  BY <1>1
<1>3. x.pc \in {"start", "write", "replace", "record", "phase"} /\ UNCHANGED <<gens, sweep>>
  BY <1>2 DEF ApplyStart, DeleteStart, TopologyWrite, PlanReplace, PlanRecord, PlanPhase
<1>4. /\ lab # None /\ x.lab \in Lab /\ x.lab.gen = lab.gen
      /\ x.kind = "apply" => x.gen = lab.gen
  BY <1>1, <1>2, <1>3 DEF Retention, Held, GoodWork
<1>5. ASSUME NEW ph \in Phases
      PROVE  [x.lab EXCEPT !.phase = ph] # None /\ [x.lab EXCEPT !.phase = ph].gen = lab.gen
  <2>1. [x.lab EXCEPT !.phase = ph] \in Lab
    BY <1>4 DEF Lab
  <2> QED BY <1>4, <2>1, NoneIsNoDocument DEF Lab
<1>6. ASSUME NEW s \in Shapes
      PROVE  [x.lab EXCEPT !.shape = s] # None /\ [x.lab EXCEPT !.shape = s].gen = lab.gen
  <2>1. [x.lab EXCEPT !.shape = s] \in Lab
    BY <1>4 DEF Lab
  <2> QED BY <1>4, <2>1, NoneIsNoDocument DEF Lab
<1>7. CASE ApplyStart(w)
  <2>1. CASE work' = [work EXCEPT ![w] = NoWork]
    <3>1. lab' = lab \/ lab' = [x.lab EXCEPT !.phase = "Applying"]
      BY <1>2, <1>7 DEF ApplyStart
    <3>2. Retains'
      BY <1>3, <1>4, <1>5, <3>1, SameGeneration DEF Phases
    <3> QED BY <1>3, <2>1, <3>2, IdleHeld, RetentionStep
  <2>2. CASE work' # [work EXCEPT ![w] = NoWork]
    <3>1. /\ lab' = [x.lab EXCEPT !.phase = "Applying"] /\ x.kind = "apply"
          /\ work' = [work EXCEPT ![w] = [work[w] EXCEPT
              !.pc = "prepare", !.lab = [work[w].lab EXCEPT !.phase = "Applying"], !.rows = rows,
              !.nodes = DOMAIN rows, !.base = IF work[w].gen > 0 THEN gens[work[w].gen].nodes ELSE {}]]
      BY <1>1, <1>2, <1>7, <2>2 DEF ApplyStart
    <3>2. PICK v : v = [work[w] EXCEPT
              !.pc = "prepare", !.lab = [work[w].lab EXCEPT !.phase = "Applying"], !.rows = rows,
              !.nodes = DOMAIN rows, !.base = IF work[w].gen > 0 THEN gens[work[w].gen].nodes ELSE {}]
      OBVIOUS
    <3>3. v.pc = "prepare" /\ v.gen = x.gen /\ v.lab = [x.lab EXCEPT !.phase = "Applying"]
      BY <1>2, <3>2 DEF Work
    <3>4. lab' # None /\ lab'.gen = lab.gen /\ v.lab.gen = lab.gen
      BY <1>5, <3>1, <3>3 DEF Phases
    <3>5. Held(v)'
      BY <1>4, <3>1, <3>3, <3>4 DEF Held
    <3>6. Retains'
      BY <1>3, <1>4, <3>4, SameGeneration
    <3> QED BY <1>3, <3>1, <3>2, <3>5, <3>6, RetentionStep
  <2> QED BY <2>1, <2>2
<1>8. CASE DeleteStart(w)
  <2>1. lab' = [x.lab EXCEPT !.phase = "Deleting"] /\ x.kind = "delete"
    BY <1>2, <1>4, <1>8 DEF DeleteStart
  <2>2. PICK t : work' = [work EXCEPT ![w].pc = "destroy", ![w].todo = t]
    BY <1>4, <1>8 DEF DeleteStart
  <2>3. PICK v : v = [x EXCEPT !.pc = "destroy", !.todo = t]
    OBVIOUS
  <2>4. work' = [work EXCEPT ![w] = v] /\ v.pc = "destroy" /\ v.kind = "delete" /\ v.lab = x.lab
    BY <1>1, <1>2, <2>1, <2>2, <2>3 DEF Work
  <2>5. lab' # None /\ lab'.gen = lab.gen
    BY <1>5, <2>1 DEF Phases
  <2>6. Held(v)'
    BY <1>4, <2>4, <2>5 DEF Held
  <2>7. Retains'
    BY <1>3, <1>4, <2>5, SameGeneration
  <2> QED BY <1>3, <2>4, <2>6, <2>7, RetentionStep
<1>9. CASE (\E s \in Shapes : TopologyWrite(w, s)) \/ PlanPhase(w)
  <2>1. work' = [work EXCEPT ![w] = NoWork]
    BY <1>9 DEF TopologyWrite, PlanPhase
  <2>2. \/ \E s \in Shapes : lab' = [x.lab EXCEPT !.shape = s]
        \/ lab' = [x.lab EXCEPT !.phase = "Planning"]
    BY <1>2, <1>4, <1>9 DEF TopologyWrite, PlanPhase, UpdateLab
  <2>3. lab' # None /\ lab'.gen = lab.gen
    BY <1>5, <1>6, <2>2 DEF Phases
  <2>4. Retains'
    BY <1>3, <1>4, <2>3, SameGeneration
  <2> QED BY <1>3, <2>1, <2>4, IdleHeld, RetentionStep
<1>10. CASE PlanReplace(w) \/ PlanRecord(w)
  <2>1. PICK pc \in {"record", "phase"} : work' = [work EXCEPT ![w].pc = pc]
    BY <1>10 DEF PlanReplace, PlanRecord, Goto
  <2>2. PICK v : v = [x EXCEPT !.pc = pc]
    OBVIOUS
  <2>3. work' = [work EXCEPT ![w] = v] /\ v.pc = pc /\ v.kind = x.kind /\ v.lab = x.lab /\ v.gen = x.gen
    BY <1>1, <1>2, <2>1, <2>2 DEF Work
  <2>4. UNCHANGED <<lab, gens>>
    BY <1>10 DEF PlanReplace, PlanRecord
  <2>5. Held(v)'
    BY <1>4, <2>1, <2>3, <2>4 DEF Held
  <2> QED BY <1>3, <2>3, <2>4, <2>5, SameRetains, RetentionStep
<1> QED BY <1>7, <1>8, <1>9, <1>10

\* The steps of an operation that write.
LEMMA EndRetention ==
  ASSUME IInv, Retention, Serially, NEW w \in Workers,
         \/ ApplySave(w) \/ DeleteResources(w) \/ StepFails(w) \/ FinishRows(w) \/ FinishLab(w)
         \/ Report(w)
  PROVE  Retention'
<1>1. work[w] \in Work /\ GoodWork(work[w]) /\ work \in [Workers -> Work] /\ gens \in Gens
  BY WorkFacts DEF IInv, TypeOK, Gens
<1>2. PICK x \in Work : x = work[w]
  BY <1>1
<1>3. Held(x) /\ GoodWork(x) /\ UNCHANGED sweep
  BY <1>1, <1>2 DEF Retention, ApplySave, DeleteResources, StepFails, FinishRows, FinishLab, Report
<1>4. lab # None => lab \in Lab /\ lab.gen \in Nat
  BY DEF IInv, TypeOK, Lab
<1>5. CASE ApplySave(w)
  <2>1. x.pc = "save" /\ lab' = lab /\ x.kind = "apply"
    BY <1>2, <1>3, <1>5 DEF ApplySave, GoodWork
  <2>2. lab # None /\ x.gen = lab.gen /\ x.lab.gen = lab.gen
    BY <1>3, <2>1 DEF Held
  <2>3. PICK snap : gens' = SaveGeneration(x.gen + 1, snap)
    BY <1>2, <1>5 DEF ApplySave
  <2>4. /\ lab.gen + 1 \in DOMAIN gens'
        /\ DOMAIN gens' \subseteq DOMAIN gens \cup {lab.gen + 1}
        /\ lab.gen \in DOMAIN gens => lab.gen \in DOMAIN gens'
    BY <1>1, <1>4, <2>2, <2>3, SaveKeepsBase DEF Retention, Retains
  <2>5. PICK v : v = [x EXCEPT !.pc = "deploy"]
    OBVIOUS
  <2>6. work' = [work EXCEPT ![w] = v] /\ v.pc = "deploy" /\ v.kind = x.kind /\ v.lab = x.lab /\ v.gen = x.gen
    BY <1>1, <1>2, <1>5, <2>5 DEF ApplySave, Goto, Work
  <2>7. Held(v)'
    BY <2>1, <2>2, <2>4, <2>6 DEF Held
  <2>8. Retains'
    BY <1>4, <2>1, <2>2, <2>4 DEF Retention, Retains, DeployedIsRetained
  <2> QED BY <1>3, <2>6, <2>7, <2>8, RetentionStep
<1>6. CASE DeleteResources(w)
  <2>1. PICK v : v = [x EXCEPT !.pc = "report"]
    OBVIOUS
  <2>2. work' = [work EXCEPT ![w] = v] /\ v.pc = "report"
    BY <1>1, <1>2, <1>6, <2>1 DEF DeleteResources, Goto, Work
  <2>3. lab' = None /\ DOMAIN gens' = {}
    BY <1>6 DEF DeleteResources
  <2>4. Held(v)' /\ Retains'
    BY <2>2, <2>3 DEF Held, Retains, DeployedIsRetained
  <2> QED BY <1>3, <2>2, <2>4, RetentionStep
<1>7. CASE StepFails(w)
  <2>1. UNCHANGED <<lab, gens>> /\ FailStep(w) /\ x.pc \notin {"idle", "report"}
    BY <1>2, <1>7 DEF StepFails
  <2>2. CASE x.kind \in NodeKinds
    BY <1>2, <1>3, <2>1, <2>2, SameRetains, IdleHeld, RetentionStep DEF FailStep
  <2>3. CASE x.kind \notin NodeKinds
    <3>1. PICK pc \in {"report", "failed"} : work' = [work EXCEPT ![w].pc = pc, ![w].ok = FALSE]
      BY <1>2, <2>1, <2>3 DEF FailStep
    <3>2. PICK v : v = [x EXCEPT !.pc = pc, !.ok = FALSE]
      OBVIOUS
    <3>3. /\ work' = [work EXCEPT ![w] = v]
          /\ v.pc = pc /\ v.kind = x.kind /\ v.lab = x.lab /\ v.gen = x.gen /\ v.ok = FALSE
      BY <1>1, <1>2, <3>1, <3>2 DEF Work
    <3>4. Held(v)'
      BY <1>3, <2>1, <3>1, <3>3 DEF Held
    <3> QED BY <1>3, <2>1, <3>3, <3>4, SameRetains, RetentionStep
  <2> QED BY <2>2, <2>3
<1>8. CASE FinishRows(w)
  <2>1. UNCHANGED <<lab, gens>> /\ x.pc = "finish"
    BY <1>2, <1>8 DEF FinishRows
  <2>2. PICK v : work' = [work EXCEPT ![w] = v] /\ (v = NoWork \/ v = [x EXCEPT !.pc = "lab"])
    BY <1>1, <1>2, <1>8 DEF FinishRows
  <2>3. Held(v)'
    <3>1. CASE v = NoWork
      BY <3>1, IdleHeld
    <3>2. CASE v = [x EXCEPT !.pc = "lab"]
      <4>1. v.pc = "lab" /\ v.kind = x.kind /\ v.lab = x.lab /\ v.gen = x.gen
        BY <3>2 DEF Work
      <4> QED BY <1>3, <2>1, <4>1 DEF Held
    <3> QED BY <2>2, <3>1, <3>2
  <2> QED BY <1>3, <2>1, <2>2, <2>3, SameRetains, RetentionStep
<1>9. CASE FinishLab(w)
  <2>1. x.pc \in {"lab", "failed"} /\ gens' = gens
    BY <1>2, <1>9 DEF FinishLab
  <2>2. lab # None /\ x.lab.gen = lab.gen /\ x.lab \in Lab /\ (x.kind = "apply" => x.gen = lab.gen)
    BY <1>3, <2>1 DEF Held, GoodWork
  <2>3. lab' = FinalLab(x)
    BY <1>2, <1>9, <2>2 DEF FinishLab, UpdateLab
  <2>4. lab' \in Lab
    BY <1>3, <2>1, <2>2, <2>3, FinalLabType
  <2>5. \/ lab'.gen = lab.gen
        \/ lab'.gen = lab.gen + 1 /\ x.kind = "apply" /\ x.ok
    BY <2>2, <2>3 DEF FinalLab, Lab
  <2>6. lab'.gen = lab.gen + 1 => lab'.gen \in DOMAIN gens
    BY <1>3, <1>4, <2>1, <2>2, <2>5 DEF Held
  <2>7. Retains'
    <3>1. lab' # None
      BY <2>4, NoneIsNoDocument
    <3>2. CASE lab'.gen = lab.gen
      BY <2>1, <2>2, <3>1, <3>2, SameGeneration
    <3>3. CASE lab'.gen = lab.gen + 1
      <4>1. DOMAIN gens \subseteq Int
        BY <1>1, GensElim
      <4>2. \A h \in DOMAIN gens : h <= lab.gen + 1
        BY <2>2 DEF Retention, Retains
      <4>3. \A h \in DOMAIN gens : h <= lab'.gen + 1
        BY <1>4, <2>2, <3>3, <4>1, <4>2
      <4> QED BY <2>1, <2>6, <3>1, <3>3, <4>3 DEF Retains, DeployedIsRetained
    <3> QED BY <2>5, <3>2, <3>3
  <2>8. PICK v : work' = [work EXCEPT ![w] = v] /\ (v = NoWork \/ v = [x EXCEPT !.pc = "report"])
    BY <1>1, <1>2, <1>9 DEF FinishLab
  <2>9. Held(v)'
    BY <2>8 DEF Held, NoWork, Work
  <2> QED BY <1>3, <2>7, <2>8, <2>9, RetentionStep
<1>10. CASE Report(w)
  <2>1. UNCHANGED <<lab, gens>> /\ work' = [work EXCEPT ![w] = NoWork]
    BY <1>10 DEF Report
  <2> QED BY <1>3, <2>1, SameRetains, IdleHeld, RetentionStep
<1> QED BY <1>5, <1>6, <1>7, <1>8, <1>9, <1>10

\* Every step keeps the snapshots that are needed.
LEMMA RetentionInductive ==
  ASSUME IInv, Retention, Serially, [Next]_vars
  PROVE  Retention'
<1>1. CASE UNCHANGED vars
  BY <1>1 DEF vars, Retention, Retains, DeployedIsRetained, Held
<1>2. CASE \E s \in Shapes : CreateLab(s)
  <2>1. /\ lab = None /\ DOMAIN gens = {} /\ UNCHANGED <<gens, work, sweep>>
        /\ \E s \in Shapes : lab' = [gen |-> 0, phase |-> "Pending", shape |-> s]
    BY <1>2 DEF CreateLab, Retention, Retains
  <2>2. lab'.gen = 0
    BY <2>1
  <2>3. Retains'
    BY <2>1, <2>2 DEF Retains, DeployedIsRetained
  <2>4. ASSUME NEW u \in Workers PROVE Held(work[u])'
    BY <2>1 DEF Retention, Held
  <2> QED BY <2>1, <2>3, <2>4 DEF Retention
<1>3. CASE Observer
  BY <1>3 DEF Observer, SweepLab, SweepNodes, Reconcile, Retention, Serially
<1>4. CASE Crash
  <2>1. UNCHANGED <<lab, gens>> /\ sweep' = NoSweep /\ \A u \in Workers : work'[u] = NoWork
    BY <1>4 DEF Crash
  <2>2. ASSUME NEW u \in Workers PROVE Held(work[u])'
    BY <2>1 DEF Held, NoWork
  <2> QED BY <2>1, <2>2, SameRetains, NoSweepType DEF Retention
<1>5. ASSUME NEW w \in Workers, Requests(w) PROVE Retention'
  <2>1. CASE \/ TopologyRead(w) \/ RepairRead(w) \/ DeleteRead(w)
             \/ \E p \in Plans : PlanRead(w, p) \/ ApplyRead(w, p)
             \/ \E p \in Plans, g \in DOMAIN gens : RollbackRead(w, p, g)
             \/ \E kind \in PowerKinds : PowerLab(w, kind)
             \/ \E kind \in NodeKinds, n \in Nodes : PowerNode(w, kind, n)
    <3>1. UNCHANGED sweep
      BY <2>1 DEF TopologyRead, RepairRead, DeleteRead, PlanRead, ApplyRead, RollbackRead, Planning,
                  PowerLab, PowerNode
    <3> QED BY <2>1, <3>1, RequestBegins, OutlineRetention
  <2>2. CASE \/ ApplyStart(w) \/ DeleteStart(w) \/ (\E s \in Shapes : TopologyWrite(w, s))
             \/ PlanReplace(w) \/ PlanRecord(w) \/ PlanPhase(w)
    BY <2>2, RequestsRetention
  <2> QED BY <1>5, <2>1, <2>2 DEF Requests
<1>6. ASSUME NEW w \in Workers, Execute(w) PROVE Retention'
  <2>1. CASE \/ ApplyPrepare(w) \/ DeployBegin(w) \/ AddDone(w) \/ RemoveDone(w) \/ Validate(w)
             \/ PowerDone(w) \/ DestroyDone(w)
             \/ \E n \in Nodes : ClearNode(w, n) \/ AddNode(w, n) \/ RemoveNode(w, n) \/ PowerStep(w, n)
    <3>1. UNCHANGED sweep
      BY <2>1 DEF ApplyPrepare, DeployBegin, AddDone, RemoveDone, Validate, PowerDone, DestroyDone,
                  ClearNode, AddNode, RemoveNode, PowerStep
    <3> QED BY <2>1, <3>1, OperationGlides, OutlineRetention
  <2>2. CASE \/ ApplySave(w) \/ DeleteResources(w) \/ StepFails(w) \/ FinishRows(w) \/ FinishLab(w)
             \/ Report(w)
    BY <2>2, EndRetention
  <2> QED BY <1>6, <2>1, <2>2 DEF Execute
<1> QED BY <1>1, <1>2, <1>3, <1>4, <1>5, <1>6 DEF Next

\* With one request at a time and no observer, whatever fails and whenever
\* the controller dies, the snapshot of the deployed generation survives the
\* pruning (SaveGeneration), for any bound on snapshots from two on.
THEOREM BaseIsRetained ==
  ASSUME ~Observes, \A v, w \in Workers : v = w
  PROVE  Spec => []DeployedIsRetained
<1>1. Serially
  BY DEF Serially
<1>2. Init => Retention
  <2> SUFFICES ASSUME Init PROVE Retention
    OBVIOUS
  <2>1. lab = None /\ DOMAIN gens = {} /\ sweep.pc = "idle" /\ \A w \in Workers : work[w] = NoWork
    BY NoSweepType DEF Init
  <2>2. ASSUME NEW w \in Workers PROVE Held(work[w])
    BY <2>1 DEF Held, NoWork
  <2> QED BY <2>1, <2>2 DEF Retention, Retains, DeployedIsRetained
<1>3. IInv /\ Retention /\ [Next]_vars => Retention'
  BY <1>1, RetentionInductive
<1>4. Retention => DeployedIsRetained
  BY DEF Retention, Retains
<1> QED BY <1>2, <1>3, <1>4, Inductive, PTL DEF Spec

=============================================================================
