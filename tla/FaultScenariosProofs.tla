------------------------ MODULE FaultScenariosProofs ------------------------
(***************************************************************************)
(* Proofs about FaultScenarios, for any finite set of scenarios, of any    *)
(* types, and any handlers and plans.                                      *)
(*                                                                         *)
(* The invariant says of each operation in flight where its steps can be   *)
(* (InStep), what it has achieved as long as nothing overlapped it         *)
(* (AloneOK), and what holds as long as no two operations have ever        *)
(* overlapped (Serial).                                                    *)
(***************************************************************************)
EXTENDS FaultScenarios, FiniteSetTheorems, TLAPS

----------------------------------------------------------------------------
(* The inductive invariant *)

\* The ends on which what s does to them is in force.
Hit(s) == IF Type[s] = "impairment" THEN netem ELSE down

Active(c) == call[c].pc # "idle"

PcsOf(op) ==
  CASE op = "apply"   -> {"check", "resolve", "stop", "start", "inject", "rollback", "record", "done"}
    [] op = "recover" -> {"locate", "start", "undo", "record", "done"}
    [] op = "delete"  -> {"again", "locate", "start", "undo", "record", "erase", "done"}
    [] op = "plan"    -> {"idle", "deploy", "scan", "prune", "commit", "done"}

\* The steps of each operation, and what a step finds in the handler.
InStep(c) ==
  LET k == call[c]
  IN /\ k.pc \in PcsOf(k.op)
     /\ k.op # "plan" => k.id \in Faults
     /\ k.pc \in {"stop", "start"} => OnNode(k.id)
     /\ k.pc \in {"inject", "rollback", "undo"} => ~OnNode(k.id) /\ k.todo # <<>>
     /\ k.pc \in {"check", "resolve", "stop", "start", "inject", "again", "locate"} => ~k.err
     /\ k.pc = "rollback" => k.err
     /\ k.pc \in {"check", "resolve"} => k.faulted = <<>>
     /\ k.pc = "start" /\ k.op = "apply" => Type[k.id] = "node-restart"
     /\ k.pc = "inject" => ToSet(Sides[k.id]) \subseteq ToSet(k.faulted) \cup ToSet(k.todo)

\* What the driver has done so far for an operation on a scenario.
Underway(c) ==
  LET k == call[c]
      s == k.id
  IN /\ k.op = "apply" /\ k.pc # "done" => s \in Scenarios \ Applied
     /\ k.pc = "inject" => ToSet(k.faulted) \subseteq Hit(s)
     /\ k.op = "apply" /\ k.pc = "record" /\ ~k.err
          => IF Type[s] = "node-restart" THEN Lifted(s) ELSE InForce(s)
     /\ k.op \in {"recover", "delete"} /\ k.pc \notin {"erase", "done"} => s \in Applied
     /\ k.pc = "undo" /\ ~k.err => (ToSet(Sides[s]) \ ToSet(k.todo)) \cap Hit(s) = {}
     /\ k.op \in {"recover", "delete"} /\ k.pc = "record" /\ ~k.err => Lifted(s)
     /\ k.pc = "erase" => s \in Scenarios /\ (k.was => Lifted(s))

\* What such an operation has achieved in the end.
Settled(c) ==
  LET k == call[c]
      s == k.id
  IN k.pc = "done" =>
      /\ k.op = "apply" /\ k.ok => s \in Scenarios /\ IF s \in Applied THEN InForce(s) ELSE Lifted(s)
      /\ k.op = "apply" /\ ~k.ok => s \in Scenarios \ Applied
      /\ k.op = "recover" => s \in Scenarios /\ IF k.ok THEN s \notin Applied /\ Lifted(s) ELSE s \in Applied
      /\ k.op = "delete" /\ k.ok => rec[s] = Deleted /\ (k.was => Lifted(s))

\* The scenarios of targets the plan of c removes.
Left(c) == {s \in Scenarios : Target(s) \in call[c].gone}

\* What a plan leaves behind.
Pruned(c) ==
  LET k == call[c]
  IN /\ k.gone \cap topo = {}
     /\ k.pc = "prune" => Left(c) \subseteq ToSet(k.prune)
     /\ k.pc = "commit" \/ (k.pc = "done" /\ k.ok) => Left(c) = {}

Achieved(c) == IF call[c].op = "plan" THEN Pruned(c) ELSE Underway(c) /\ Settled(c)

\* As long as nothing has overlapped it.
AloneOK(c) ==
  Active(c) /\ call[c].alone => Achieved(c) /\ \A d \in Handlers \ {c} : ~Active(d)

\* As long as no two operations have overlapped.
SerialOK(c) ==
  LET k == call[c]
  IN /\ k.op = "apply" /\ k.pc \notin {"check", "done"} => Conflicts(k.id) = {}
     /\ k.op \in {"recover", "delete"} /\ k.pc \in {"locate", "start", "undo", "record"} => k.id \in Applied

OneActive == \A c, d \in Handlers : Active(c) /\ Active(d) => c = d

OneFault == \A s, o \in Applied : Target(s) = Target(o) => s = o

Serial == ~raced => OneActive /\ OneFault /\ \A c \in Handlers : SerialOK(c)

Calls == \A c \in Handlers : InStep(c)
Alone == \A c \in Handlers : AloneOK(c)

IInv == TypeOK /\ Calls /\ Alone /\ Serial

----------------------------------------------------------------------------
(* Sequences and constants *)

\* The elements of a sequence are its head and the elements of its tail.
LEMMA HeadTail ==
  ASSUME NEW S, NEW q \in Seq(S), q # <<>>
  PROVE  /\ Head(q) \in S /\ Tail(q) \in Seq(S)
         /\ ToSet(q) = {Head(q)} \cup ToSet(Tail(q))
<1>1. Head(q) \in S /\ Tail(q) \in Seq(S) /\ Len(q) \in Nat /\ Len(q) > 0 /\ Len(Tail(q)) = Len(q) - 1
  OBVIOUS
<1>2. \A i \in 1 .. Len(q) - 1 : Tail(q)[i] = q[i + 1]
  OBVIOUS
<1>3. Head(q) = q[1] /\ DOMAIN q = 1 .. Len(q) /\ DOMAIN Tail(q) = 1 .. Len(q) - 1
  BY <1>1
<1>4. ASSUME NEW x \in ToSet(q) PROVE x \in {Head(q)} \cup ToSet(Tail(q))
  <2>1. PICK i \in 1 .. Len(q) : x = q[i]
    BY <1>3 DEF ToSet
  <2>2. CASE i = 1
    BY <1>3, <2>1, <2>2
  <2>3. CASE i # 1
    <3>1. i - 1 \in 1 .. Len(q) - 1 /\ (i - 1) + 1 = i
      BY <1>1, <2>3
    <3>2. x = Tail(q)[i - 1] /\ i - 1 \in DOMAIN Tail(q)
      BY <1>2, <1>3, <2>1, <3>1
    <3> QED BY <3>2 DEF ToSet
  <2> QED BY <2>2, <2>3
<1>5. ASSUME NEW x \in {Head(q)} \cup ToSet(Tail(q)) PROVE x \in ToSet(q)
  <2>1. CASE x = Head(q)
    <3>1. 1 \in DOMAIN q
      BY <1>1, <1>3
    <3> QED BY <1>3, <2>1, <3>1 DEF ToSet
  <2>2. CASE x \in ToSet(Tail(q))
    <3>1. PICK i \in 1 .. Len(q) - 1 : x = Tail(q)[i]
      BY <1>3, <2>2 DEF ToSet
    <3>2. i + 1 \in 1 .. Len(q) /\ x = q[i + 1]
      BY <1>1, <1>2, <3>1
    <3> QED BY <1>3, <3>2 DEF ToSet
  <2> QED BY <2>1, <2>2
<1> QED BY <1>1, <1>4, <1>5

\* Appending an element adds it to the elements.
LEMMA AppendSet ==
  ASSUME NEW S, NEW q \in Seq(S), NEW e \in S
  PROVE  Append(q, e) \in Seq(S) /\ ToSet(Append(q, e)) = ToSet(q) \cup {e}
<1>1. Append(q, e) \in Seq(S) /\ Len(q) \in Nat /\ Len(Append(q, e)) = Len(q) + 1
  OBVIOUS
<1>2. DOMAIN q = 1 .. Len(q) /\ DOMAIN Append(q, e) = 1 .. Len(q) + 1
  BY <1>1
<1>3. Append(q, e)[Len(q) + 1] = e /\ \A i \in 1 .. Len(q) : Append(q, e)[i] = q[i]
  OBVIOUS
<1>4. \A i \in 1 .. Len(q) + 1 : i = Len(q) + 1 \/ i \in 1 .. Len(q)
  BY <1>1
<1>5. Len(q) + 1 \in 1 .. Len(q) + 1 /\ \A i \in 1 .. Len(q) : i \in 1 .. Len(q) + 1
  BY <1>1
<1> QED BY <1>1, <1>2, <1>3, <1>4, <1>5 DEF ToSet

\* An empty sequence has no elements.
LEMMA EmptySet == ToSet(<<>>) = {}
  BY DEF ToSet

\* SetToSeq lists every element of a finite set.
LEMMA SetToSeqLists ==
  ASSUME NEW S, IsFiniteSet(S)
  PROVE  SetToSeq(S) \in Seq(S) /\ ToSet(SetToSeq(S)) = S
<1> DEFINE n == Cardinality(S)
           q == SetToSeq(S)
<1>1. n \in Nat /\ ExistsBijection(1 .. n, S)
  BY FS_CardinalityType
<1>2. \E f \in [1 .. n -> S] : IsInjective(f)
  BY <1>1 DEF ExistsBijection, Bijection, Injection
<1>3. q \in [1 .. n -> S] /\ IsInjective(q)
  BY <1>2 DEF SetToSeq
<1>4. q \in Injection(1 .. n, S)
  BY <1>3 DEF Injection
<1>5. Cardinality(1 .. n) = n
  BY <1>1, FS_Interval
<1>6. q \in Surjection(1 .. n, S)
  BY <1>4, <1>5, FS_Injection
<1>7. q \in Seq(S) /\ DOMAIN q = 1 .. n
  BY <1>1, <1>3
<1> HIDE DEF q, n
<1>8. ToSet(q) = S
  BY <1>3, <1>6, <1>7 DEF Surjection, ToSet
<1> QED BY <1>7, <1>8 DEF q

\* What a scenario may be: the ends of the link, or none for a node.
LEMMA SidesShape ==
  ASSUME NEW s \in Faults
  PROVE  Sides[s] \in Seq(Ends) /\ (~OnNode(s) => Sides[s] # <<>>)
<1>1. Type[s] \in Types /\ Sides[s] \in FaultShape(Type[s])
  BY FaultAssumptions DEF FaultAssumptions
<1>2. CASE OnNode(s)
  <2>1. Sides[s] = <<>>
    BY <1>1, <1>2 DEF FaultShape, OnNode
  <2> QED BY <1>2, <2>1
<1>3. CASE ~OnNode(s)
  <2>1. Type[s] \in {"link-down", "interface-down", "impairment"}
    BY <1>1, <1>3 DEF Types, OnNode
  <2>2. Sides[s] \in {<<"a">>, <<"b">>, <<"a", "b">>}
    BY <1>1, <2>1 DEF FaultShape
  <2>3. "a" \in Ends /\ "b" \in Ends
    BY DEF Ends
  <2>4. <<"a">> \in Seq(Ends) /\ <<"b">> \in Seq(Ends) /\ <<"a", "b">> \in Seq(Ends)
    BY <2>3
  <2>5. <<"a">> # <<>> /\ <<"b">> # <<>> /\ <<"a", "b">> # <<>>
    OBVIOUS
  <2> QED BY <2>2, <2>4, <2>5
<1> QED BY <1>2, <1>3

\* The type of a node fault is not impairment.
LEMMA TargetKinds ==
  ASSUME NEW s
  PROVE  /\ Target(s) \in Targets
         /\ Target(s) = "node" <=> OnNode(s)
         /\ Type[s] = "node-restart" => OnNode(s)
  BY DEF Target, Targets, OnNode

----------------------------------------------------------------------------
(* A step of one handler *)

\* The operation a step belongs to.
LEMMA OpOfPc ==
  ASSUME TypeOK, NEW c \in Handlers, InStep(c)
  PROVE  LET k == call[c]
         IN /\ k \in Call
            /\ k.pc \in {"check", "resolve", "stop", "inject", "rollback"} => k.op = "apply"
            /\ k.pc \in {"again", "erase"} => k.op = "delete"
            /\ k.pc \in {"locate", "undo"} => k.op \in {"recover", "delete"}
            /\ k.pc \in {"start", "record"} => k.op \in {"apply", "recover", "delete"}
            /\ k.pc \in {"idle", "deploy", "scan", "prune", "commit"} => k.op = "plan"
<1>1. call[c] \in Call /\ call[c].op \in {"apply", "recover", "delete", "plan"}
  BY DEF TypeOK, Call
<1>2. call[c].pc \in PcsOf(call[c].op)
  BY DEF InStep
<1> QED BY <1>1, <1>2 DEF PcsOf

\* Writing one handler's entry leaves the others alone.
LEMMA Updated ==
  ASSUME TypeOK, NEW c \in Handlers, NEW r \in Call, call' = [call EXCEPT ![c] = r]
  PROVE  call' \in [Handlers -> Call] /\ call'[c] = r /\ \A d \in Handlers \ {c} : call'[d] = call[d]
  BY DEF TypeOK

\* What no step of an operation changes.
Same(k, r) == r.op = k.op /\ r.id = k.id /\ r.was = k.was /\ r.gone = k.gone /\ r.alone = k.alone

\* Moving to another step changes nothing else.
LEMMA SamePc ==
  ASSUME NEW k \in Call, NEW p \in Pcs
  PROVE  LET r == [k EXCEPT !.pc = p]
         IN /\ r \in Call /\ Same(k, r) /\ r.pc = p /\ r.todo = k.todo /\ r.faulted = k.faulted
            /\ r.prune = k.prune /\ r.err = k.err /\ r.ok = k.ok
  BY DEF Call, Same

\* Goto moves a handler on.
LEMMA GotoMoves ==
  ASSUME TypeOK, NEW c \in Handlers, NEW p \in Pcs, Goto(c, p)
  PROVE  /\ call' \in [Handlers -> Call] /\ \A d \in Handlers \ {c} : call'[d] = call[d]
         /\ LET k == call[c]
                r == call'[c]
            IN /\ Same(k, r) /\ r.pc = p /\ r.todo = k.todo /\ r.faulted = k.faulted
               /\ r.prune = k.prune /\ r.err = k.err /\ r.ok = k.ok
<1> DEFINE r == [call[c] EXCEPT !.pc = p]
<1>1. call[c] \in Call
  BY DEF TypeOK
<1>2. call' = [call EXCEPT ![c] = r]
  BY DEF Goto
<1>3. /\ r \in Call /\ Same(call[c], r) /\ r.pc = p /\ r.todo = call[c].todo /\ r.faulted = call[c].faulted
      /\ r.prune = call[c].prune /\ r.err = call[c].err /\ r.ok = call[c].ok
  BY <1>1, SamePc
<1> HIDE DEF r
<1> QED BY <1>2, <1>3, Updated

\* Finish ends an operation.
LEMMA FinishMoves ==
  ASSUME TypeOK, NEW c \in Handlers, NEW b \in BOOLEAN, Finish(c, b)
  PROVE  /\ call' \in [Handlers -> Call] /\ \A d \in Handlers \ {c} : call'[d] = call[d]
         /\ LET k == call[c]
                r == call'[c]
            IN Same(k, r) /\ r.pc = "done" /\ r.ok = b
<1> DEFINE r == [call[c] EXCEPT !.pc = "done", !.ok = b]
<1>1. call[c] \in Call
  BY DEF TypeOK
<1>2. call' = [call EXCEPT ![c] = r]
  BY DEF Finish
<1>3. r \in Call /\ Same(call[c], r) /\ r.pc = "done" /\ r.ok = b
  BY <1>1 DEF Call, Same, Pcs
<1> QED BY <1>2, <1>3, Updated

\* A failed step goes on to record it.
LEMMA FailedMoves ==
  ASSUME TypeOK, NEW c \in Handlers, call' = Failed(c)
  PROVE  /\ call' \in [Handlers -> Call] /\ \A d \in Handlers \ {c} : call'[d] = call[d]
         /\ LET k == call[c]
                r == call'[c]
            IN Same(k, r) /\ r.pc = "record" /\ r.err
<1> DEFINE r == [call[c] EXCEPT !.pc = "record", !.err = TRUE]
<1>1. call[c] \in Call
  BY DEF TypeOK
<1>2. call' = [call EXCEPT ![c] = r]
  BY DEF Failed
<1>3. r \in Call /\ Same(call[c], r) /\ r.pc = "record" /\ r.err
  BY <1>1 DEF Call, Same, Pcs
<1> QED BY <1>2, <1>3, Updated

\* A step of c in flight: the others are not in flight where c is alone or nothing has overlapped.
LEMMA StepKeeps ==
  ASSUME IInv, TypeOK', NEW c \in Handlers, Active(c), raced' = raced,
         \A d \in Handlers \ {c} : call'[d] = call[d],
         InStep(c)',
         Active(c)' /\ call'[c].alone => call[c].alone,
         Active(c)' /\ call'[c].alone /\ Achieved(c) => Achieved(c)',
         ~raced /\ OneFault /\ SerialOK(c) => OneFault' /\ SerialOK(c)'
  PROVE  IInv'
<1>1. \A d \in Handlers \ {c} : Active(d)' = Active(d)
  BY DEF Active
<1>2. ASSUME NEW d \in Handlers PROVE InStep(d)'
  <2>1. CASE d = c
    BY <2>1
  <2>2. CASE d # c
    BY <2>2 DEF InStep, IInv, Calls
  <2> QED BY <2>1, <2>2
<1>3. ASSUME NEW d \in Handlers PROVE AloneOK(d)'
  <2>1. CASE d = c
    BY <1>1, <2>1 DEF AloneOK, IInv, Alone
  <2>2. CASE d # c
    <3>1. call'[d] = call[d] /\ Active(d)' = Active(d)
      BY <1>1, <2>2
    <3>2. ~(Active(d) /\ call[d].alone)
      BY <2>2 DEF AloneOK, IInv, Alone
    <3> QED BY <3>1, <3>2 DEF AloneOK
  <2> QED BY <2>1, <2>2
<1>4. ASSUME ~raced PROVE OneActive' /\ OneFault' /\ \A d \in Handlers : SerialOK(d)'
  <2>1. OneActive /\ OneFault /\ \A d \in Handlers : SerialOK(d)
    BY <1>4 DEF IInv, Serial
  <2>2. \A d \in Handlers \ {c} : ~Active(d)
    BY <2>1 DEF OneActive
  <2>3. OneActive'
    BY <1>1, <2>2 DEF OneActive
  <2>4. OneFault' /\ SerialOK(c)'
    BY <1>4, <2>1
  <2>5. ASSUME NEW d \in Handlers \ {c} PROVE SerialOK(d)'
    <3>1. call[d].op = "plan" /\ call'[d] = call[d]
      BY <2>2, <2>5, OpOfPc DEF IInv, Calls, Active
    <3> QED BY <3>1 DEF SerialOK
  <2> QED BY <2>3, <2>4, <2>5
<1> QED BY <1>2, <1>3, <1>4 DEF IInv, Calls, Alone, Serial


----------------------------------------------------------------------------
(* Steps that only read the records *)

\* Where the records are as before, so is what is derived from them.
LEMMA SameRecords ==
  ASSUME rec' = rec
  PROVE  /\ Scenarios' = Scenarios /\ Applied' = Applied
         /\ \A s : Conflicts(s)' = Conflicts(s)
         /\ OneFault' = OneFault
  BY DEF Scenarios, Applied, Conflicts, OneFault

\* And where the network is as before, so are the faults in force.
LEMMA SameNet ==
  ASSUME UNCHANGED <<paused, down, netem>>
  PROVE  \A s : Hit(s)' = Hit(s) /\ InForce(s)' = InForce(s) /\ Lifted(s)' = Lifted(s)
  BY DEF Hit, InForce, Lifted

\* checkTargetFree: an apply goes on only if nothing is in its way.
LEMMA CheckTargetFreeOK ==
  ASSUME IInv, NEW c \in Handlers, CheckTargetFree(c) PROVE IInv'
<1> DEFINE k == call[c]
           r == call'[c]
<1>1. TypeOK /\ InStep(c) /\ k.pc = "check" /\ k.op = "apply" /\ Active(c)
  BY OpOfPc DEF IInv, Calls, CheckTargetFree, Active
<1>2. UNCHANGED <<topo, base, net, rec, raced>>
  BY DEF CheckTargetFree
<1>3. /\ call' \in [Handlers -> Call] /\ Same(k, r) /\ \A d \in Handlers \ {c} : call'[d] = call[d]
      /\ \/ r.pc = "resolve" /\ r.err = k.err /\ r.faulted = k.faulted /\ Conflicts(k.id) = {}
         \/ r.pc = "done" /\ r.ok = FALSE
  <2>1. CASE Goto(c, "resolve") /\ Conflicts(k.id) = {}
    BY <1>1, <2>1, GotoMoves DEF Pcs
  <2>2. CASE Finish(c, FALSE)
    BY <1>1, <2>2, FinishMoves
  <2> QED BY <2>1, <2>2 DEF CheckTargetFree
<1>4. r.op = "apply" /\ r.id = k.id /\ r.alone = k.alone
  BY <1>1, <1>3 DEF Same
<1> HIDE DEF k, r
<1>5. TypeOK'
  BY <1>1, <1>2, <1>3 DEF TypeOK, net
<1>6. InStep(c)'
  BY <1>1, <1>3, <1>4 DEF InStep, PcsOf, k, r
<1>7. Achieved(c) => Achieved(c)'
  BY <1>1, <1>2, <1>3, <1>4, SameRecords DEF Achieved, Underway, Settled, k, r
<1>8. SerialOK(c)'
  BY <1>2, <1>3, <1>4, SameRecords DEF SerialOK, k, r
<1> QED BY <1>1, <1>2, <1>3, <1>4, <1>5, <1>6, <1>7, <1>8, StepKeeps, SameRecords DEF r, k

\* inject: the target is looked up.
LEMMA ResolveTargetOK ==
  ASSUME IInv, NEW c \in Handlers, ResolveTarget(c) PROVE IInv'
<1> DEFINE k == call[c]
           r == call'[c]
           s == k.id
           p == IF OnNode(s) THEN "stop" ELSE "inject"
<1>1. TypeOK /\ InStep(c) /\ k.pc = "resolve" /\ k.op = "apply" /\ Active(c) /\ k \in Call
  BY OpOfPc DEF IInv, Calls, ResolveTarget, Active
<1>2. UNCHANGED <<topo, base, net, rec, raced>>
  BY DEF ResolveTarget
<1>3. s \in Faults /\ ~k.err /\ Sides[s] \in Seq(Ends) /\ (~OnNode(s) => Sides[s] # <<>>)
  BY <1>1, SidesShape DEF InStep
<1>4. /\ call' \in [Handlers -> Call] /\ Same(k, r) /\ \A d \in Handlers \ {c} : call'[d] = call[d]
      /\ \/ r.pc = "record" /\ r.err
         \/ r.pc = p /\ r.err = k.err /\ r.todo = Sides[s] /\ r.faulted = k.faulted
  <2>1. CASE call' = Failed(c)
    BY <1>1, <2>1, FailedMoves
  <2>2. CASE call' = [call EXCEPT ![c].pc = p, ![c].todo = Sides[s]]
    <3> DEFINE x == [k EXCEPT !.pc = p, !.todo = Sides[s]]
    <3>1. call' = [call EXCEPT ![c] = x]
      BY <2>2
    <3>2. x \in Call /\ Same(k, x) /\ x.pc = p /\ x.err = k.err /\ x.todo = Sides[s] /\ x.faulted = k.faulted
      BY <1>1, <1>3 DEF Call, Pcs, Same
    <3> HIDE DEF x, p
    <3> QED BY <1>1, <3>1, <3>2, Updated
  <2> QED BY <2>1, <2>2 DEF ResolveTarget
<1>5. r.op = "apply" /\ r.id = k.id /\ r.alone = k.alone
  BY <1>1, <1>4 DEF Same
<1>6. TypeOK'
  BY <1>1, <1>2, <1>4 DEF TypeOK, net
<1>7. InStep(c)'
  <2>1. CASE r.pc = "record"
    BY <1>3, <1>5, <2>1 DEF InStep, PcsOf
  <2>2. CASE r.pc = "stop"
    BY <1>3, <1>4, <1>5, <2>2 DEF InStep, PcsOf
  <2>3. CASE r.pc = "inject"
    BY <1>3, <1>4, <1>5, <2>3 DEF InStep, PcsOf
  <2> QED BY <1>4, <2>1, <2>2, <2>3
<1>8. ASSUME Achieved(c) PROVE Achieved(c)'
  <2>1. s \in Scenarios \ Applied /\ Scenarios' = Scenarios /\ Applied' = Applied
    BY <1>1, <1>2, <1>8, SameRecords DEF Achieved, Underway
  <2>2. r.pc = "inject" => r.faulted = <<>>
    BY <1>1, <1>4 DEF InStep
  <2> HIDE DEF k, r, s, p
  <2>3. Underway(c)'
    BY <1>1, <1>4, <1>5, <2>1, <2>2, EmptySet DEF Underway, r, k, s, p
  <2>4. Settled(c)'
    BY <1>4 DEF Settled, r, p
  <2> QED BY <1>5, <2>3, <2>4 DEF Achieved, r
<1>9. SerialOK(c) => SerialOK(c)'
  BY <1>1, <1>2, <1>4, <1>5, SameRecords DEF SerialOK
<1> QED BY <1>1, <1>2, <1>4, <1>5, <1>6, <1>7, <1>8, <1>9, StepKeeps, SameRecords

\* recover: the target is looked up; without it the recovery fails.
LEMMA LocateTargetOK ==
  ASSUME IInv, NEW c \in Handlers, LocateTarget(c) PROVE IInv'
<1> DEFINE k == call[c]
           r == call'[c]
           s == k.id
           p == IF OnNode(s) THEN "start" ELSE "undo"
<1>1. TypeOK /\ InStep(c) /\ k.pc = "locate" /\ k.op \in {"recover", "delete"} /\ Active(c) /\ k \in Call
  BY OpOfPc DEF IInv, Calls, LocateTarget, Active
<1>2. UNCHANGED <<topo, base, net, rec, raced>>
  BY DEF LocateTarget
<1>3. s \in Faults /\ ~k.err /\ Sides[s] \in Seq(Ends) /\ (~OnNode(s) => Sides[s] # <<>>)
  BY <1>1, SidesShape DEF InStep
<1>4. /\ call' \in [Handlers -> Call] /\ Same(k, r) /\ \A d \in Handlers \ {c} : call'[d] = call[d]
      /\ \/ r.pc = "record" /\ r.err
         \/ r.pc = p /\ r.err = k.err /\ r.todo = Sides[s]
  <2>1. CASE call' = Failed(c)
    BY <1>1, <2>1, FailedMoves
  <2>2. CASE call' = [call EXCEPT ![c].pc = p, ![c].todo = Sides[s]]
    <3> DEFINE x == [k EXCEPT !.pc = p, !.todo = Sides[s]]
    <3>1. call' = [call EXCEPT ![c] = x]
      BY <2>2
    <3>2. x \in Call /\ Same(k, x) /\ x.pc = p /\ x.err = k.err /\ x.todo = Sides[s]
      BY <1>1, <1>3 DEF Call, Pcs, Same
    <3> HIDE DEF x, p
    <3> QED BY <1>1, <3>1, <3>2, Updated
  <2> QED BY <2>1, <2>2 DEF LocateTarget
<1>5. r.op = k.op /\ r.id = k.id /\ r.alone = k.alone
  BY <1>1, <1>4 DEF Same
<1>6. TypeOK'
  BY <1>1, <1>2, <1>4 DEF TypeOK, net
<1>7. InStep(c)'
  <2>1. CASE r.pc = "record"
    BY <1>1, <1>3, <1>5, <2>1 DEF InStep, PcsOf
  <2>2. CASE r.pc = "start"
    BY <1>1, <1>3, <1>4, <1>5, <2>2 DEF InStep, PcsOf
  <2>3. CASE r.pc = "undo"
    BY <1>1, <1>3, <1>4, <1>5, <2>3 DEF InStep, PcsOf
  <2> QED BY <1>4, <2>1, <2>2, <2>3
<1>8. ASSUME Achieved(c) PROVE Achieved(c)'
  <2>1. s \in Applied /\ Scenarios' = Scenarios /\ Applied' = Applied
    BY <1>1, <1>2, <1>8, SameRecords DEF Achieved, Underway
  <2> HIDE DEF k, r, s, p
  <2>2. Underway(c)'
    BY <1>1, <1>4, <1>5, <2>1 DEF Underway, r, k, s, p
  <2>3. Settled(c)'
    BY <1>4 DEF Settled, r, p
  <2> QED BY <1>1, <1>5, <2>2, <2>3 DEF Achieved, r, k
<1>9. SerialOK(c) => SerialOK(c)'
  BY <1>1, <1>2, <1>4, <1>5, SameRecords DEF SerialOK
<1> QED BY <1>1, <1>2, <1>4, <1>5, <1>6, <1>7, <1>8, <1>9, StepKeeps, SameRecords

\* A deletion reads the record again before it recovers.
LEMMA RecoverBeforeDeleteOK ==
  ASSUME IInv, NEW c \in Handlers, RecoverBeforeDelete(c) PROVE IInv'
<1> DEFINE k == call[c]
           r == call'[c]
           s == k.id
           p == IF s \in Applied THEN "locate" ELSE "erase"
<1>1. TypeOK /\ InStep(c) /\ k.pc = "again" /\ k.op = "delete" /\ Active(c) /\ k \in Call
  BY OpOfPc DEF IInv, Calls, RecoverBeforeDelete, Active
<1>2. UNCHANGED <<topo, base, net, rec, raced>>
  BY DEF RecoverBeforeDelete
<1>3. /\ call' \in [Handlers -> Call] /\ Same(k, r) /\ \A d \in Handlers \ {c} : call'[d] = call[d]
      /\ \/ r.pc = "done" /\ r.ok = FALSE /\ s \notin Scenarios
         \/ r.pc = p /\ r.err = k.err
  <2>1. CASE Finish(c, FALSE) /\ s \notin Scenarios
    BY <1>1, <2>1, FinishMoves
  <2>2. CASE Goto(c, p)
    <3>1. p \in Pcs
      BY DEF Pcs
    <3> HIDE DEF p
    <3> QED BY <1>1, <2>2, <3>1, GotoMoves
  <2> QED BY <2>1, <2>2 DEF RecoverBeforeDelete
<1>4. r.op = k.op /\ r.id = k.id /\ r.alone = k.alone /\ s \in Faults /\ ~k.err
  BY <1>1, <1>3 DEF Same, InStep
<1>5. TypeOK'
  BY <1>1, <1>2, <1>3 DEF TypeOK, net
<1>6. InStep(c)'
  BY <1>1, <1>3, <1>4 DEF InStep, PcsOf
<1>7. ASSUME Achieved(c) PROVE Achieved(c)'
  <2>1. s \in Applied /\ Scenarios' = Scenarios /\ Applied' = Applied
    BY <1>1, <1>2, <1>7, SameRecords DEF Achieved, Underway
  <2>2. r.pc = "locate"
    BY <1>3, <2>1 DEF Applied
  <2> QED BY <1>1, <1>4, <2>1, <2>2 DEF Achieved, Underway, Settled
<1>8. SerialOK(c)'
  BY <1>1, <1>2, <1>3, <1>4, SameRecords DEF SerialOK
<1> QED BY <1>1, <1>2, <1>3, <1>4, <1>5, <1>6, <1>7, <1>8, StepKeeps, SameRecords

\* PruneForRemovedTargets lists every scenario of the removed targets.
LEMMA ListForPruneOK ==
  ASSUME IInv, NEW c \in Handlers, ListForPrune(c) PROVE IInv'
<1> DEFINE k == call[c]
           r == call'[c]
           q == SetToSeq(Left(c))
           x == [k EXCEPT !.pc = "prune", !.prune = q]
<1>1. TypeOK /\ InStep(c) /\ k.pc = "scan" /\ k.op = "plan" /\ Active(c) /\ k \in Call
  BY OpOfPc DEF IInv, Calls, ListForPrune, Active
<1>2. UNCHANGED <<topo, base, net, rec, raced>>
  BY DEF ListForPrune
<1>3. q \in Seq(Faults) /\ ToSet(q) = Left(c)
  <2>1. Left(c) \in SUBSET Faults /\ IsFiniteSet(Faults)
    BY FaultAssumptions DEF FaultAssumptions, Left, Scenarios
  <2>2. IsFiniteSet(Left(c))
    BY <2>1, FS_Subset
  <2>3. q \in Seq(Left(c)) /\ ToSet(q) = Left(c)
    BY <2>2, SetToSeqLists
  <2> HIDE DEF q
  <2> QED BY <2>1, <2>3
<1> HIDE DEF q
<1>4. call' = [call EXCEPT ![c] = x]
  BY DEF ListForPrune, Left, q
<1>5. x \in Call /\ Same(k, x) /\ x.pc = "prune" /\ x.prune = q
  BY <1>1, <1>3 DEF Call, Pcs, Same
<1>6. /\ call' \in [Handlers -> Call] /\ Same(k, r) /\ \A d \in Handlers \ {c} : call'[d] = call[d]
      /\ r.pc = "prune" /\ r.prune = q
  <2> HIDE DEF x
  <2> QED BY <1>1, <1>4, <1>5, Updated
<1>7. r.op = k.op /\ r.id = k.id /\ r.alone = k.alone /\ r.gone = k.gone
  BY <1>6 DEF Same
<1>8. TypeOK'
  BY <1>1, <1>2, <1>6 DEF TypeOK, net
<1>9. InStep(c)'
  BY <1>1, <1>6, <1>7 DEF InStep, PcsOf
<1>10. ASSUME Achieved(c) PROVE Achieved(c)'
  <2>1. Left(c)' = Left(c)
    BY <1>2, <1>7, SameRecords DEF Left
  <2> QED BY <1>1, <1>2, <1>3, <1>6, <1>7, <1>10, <2>1 DEF Achieved, Pruned
<1>11. SerialOK(c)'
  BY <1>1, <1>7 DEF SerialOK
<1> QED BY <1>1, <1>2, <1>6, <1>7, <1>8, <1>9, <1>10, <1>11, StepKeeps, SameRecords

\* A handler that is idle asks for nothing.
LEMMA IdleType ==
  /\ Idle \in Call /\ Idle.pc = "idle" /\ Idle.op = "plan" /\ Idle.err = FALSE
  /\ Idle.faulted = <<>> /\ Idle.todo = <<>>
<1>1. <<>> \in Seq(Ends) /\ <<>> \in Seq(Faults)
  OBVIOUS
<1> QED BY <1>1 DEF Idle, Call, Pcs

\* The handler answers.
LEMMA ReplyOK ==
  ASSUME IInv, NEW c \in Handlers, Reply(c) PROVE IInv'
<1>1. TypeOK /\ Active(c)
  BY DEF IInv, Reply, Active
<1>2. UNCHANGED <<topo, base, net, rec, raced>> /\ call' = [call EXCEPT ![c] = Idle]
  BY DEF Reply
<1>3. call' \in [Handlers -> Call] /\ call'[c] = Idle /\ \A d \in Handlers \ {c} : call'[d] = call[d]
  BY <1>1, <1>2, IdleType, Updated
<1>4. TypeOK'
  BY <1>1, <1>2, <1>3 DEF TypeOK, net
<1>5. InStep(c)' /\ SerialOK(c)' /\ ~Active(c)'
  BY <1>3, IdleType DEF InStep, PcsOf, SerialOK, Active
<1> QED BY <1>1, <1>2, <1>3, <1>4, <1>5, StepKeeps, SameRecords

----------------------------------------------------------------------------
(* Steps of the driver *)

\* The container is paused, and a restart goes on to start it.
LEMMA StopNodeOK ==
  ASSUME IInv, NEW c \in Handlers, StopNode(c) PROVE IInv'
<1> DEFINE k == call[c]
           r == call'[c]
           s == k.id
           p == IF Type[s] = "node-restart" THEN "start" ELSE "record"
<1>1. TypeOK /\ InStep(c) /\ k.pc = "stop" /\ k.op = "apply" /\ Active(c) /\ k \in Call
  BY OpOfPc DEF IInv, Calls, StopNode, Active
<1>2. UNCHANGED <<topo, base, live, down, netem, rec, raced>>
  BY DEF StopNode
<1>3. /\ call' \in [Handlers -> Call] /\ Same(k, r) /\ \A d \in Handlers \ {c} : call'[d] = call[d]
      /\ paused' \in BOOLEAN /\ (paused' => "node" \in live)
      /\ \/ r.pc = "record" /\ r.err
         \/ r.pc = p /\ r.err = k.err /\ paused'
  <2>1. CASE "node" \in live /\ paused' = TRUE /\ Goto(c, p)
    <3>1. p \in Pcs
      BY DEF Pcs
    <3> HIDE DEF p
    <3> QED BY <1>1, <2>1, <3>1, GotoMoves
  <2>2. CASE paused' \in {paused, "node" \in live} /\ call' = Failed(c)
    <3>1. paused' \in BOOLEAN /\ (paused' => "node" \in live)
      <4>1. CASE paused' = paused
        BY <1>1, <4>1 DEF TypeOK
      <4>2. CASE paused' = ("node" \in live)
        <5>1. ("node" \in live) \in BOOLEAN
          OBVIOUS
        <5> QED BY ONLY <4>2, <5>1, Zenon
      <4> QED BY <2>2, <4>1, <4>2
    <3> QED BY <1>1, <2>2, <3>1, FailedMoves
  <2> QED BY <2>1, <2>2 DEF StopNode
<1>4. r.op = k.op /\ r.id = k.id /\ r.alone = k.alone /\ s \in Faults /\ ~k.err /\ OnNode(s)
  BY <1>1, <1>3 DEF Same, InStep
<1>5. TypeOK'
  BY <1>1, <1>2, <1>3 DEF TypeOK
<1>6. InStep(c)'
  BY <1>1, <1>3, <1>4 DEF InStep, PcsOf
<1>7. ASSUME Achieved(c) PROVE Achieved(c)'
  <2>1. s \in Scenarios \ Applied /\ Scenarios' = Scenarios /\ Applied' = Applied
    BY <1>1, <1>2, <1>7, SameRecords DEF Achieved, Underway
  <2>2. paused' => InForce(s)'
    BY <1>4 DEF InForce
  <2> QED BY <1>1, <1>3, <1>4, <2>1, <2>2 DEF Achieved, Underway, Settled
<1>8. SerialOK(c) => SerialOK(c)'
  BY <1>1, <1>2, <1>3, <1>4, SameRecords DEF SerialOK
<1> QED BY <1>1, <1>2, <1>3, <1>4, <1>5, <1>6, <1>7, <1>8, StepKeeps, SameRecords

\* The container runs again, after a restart or a recovery.
LEMMA StartNodeOK ==
  ASSUME IInv, NEW c \in Handlers, StartNode(c) PROVE IInv'
<1> DEFINE k == call[c]
           r == call'[c]
           s == k.id
<1>1. TypeOK /\ InStep(c) /\ k.pc = "start" /\ k.op \in {"apply", "recover", "delete"} /\ Active(c) /\ k \in Call
  BY OpOfPc DEF IInv, Calls, StartNode, Active
<1>2. UNCHANGED <<topo, base, live, down, netem, rec, raced>>
  BY DEF StartNode
<1>3. /\ call' \in [Handlers -> Call] /\ Same(k, r) /\ \A d \in Handlers \ {c} : call'[d] = call[d]
      /\ paused' \in BOOLEAN /\ (paused' => "node" \in live)
      /\ r.pc = "record" /\ (r.err \/ (~r.err /\ ~paused'))
  <2>1. CASE "node" \in live /\ paused' = FALSE /\ Goto(c, "record")
    <3>1. ~k.err
      BY <1>1 DEF InStep
    <3> QED BY <1>1, <2>1, <3>1, GotoMoves DEF Pcs
  <2>2. CASE paused' \in {paused, FALSE} /\ call' = Failed(c)
    <3>1. paused' \in BOOLEAN /\ (paused' => "node" \in live)
      <4>1. CASE paused' = paused
        BY <1>1, <4>1 DEF TypeOK
      <4>2. CASE paused' = FALSE
        BY <4>2
      <4> QED BY <2>2, <4>1, <4>2
    <3> QED BY <1>1, <2>2, <3>1, FailedMoves
  <2> QED BY <2>1, <2>2 DEF StartNode
<1>4. r.op = k.op /\ r.id = k.id /\ r.alone = k.alone /\ s \in Faults /\ OnNode(s)
  BY <1>1, <1>3 DEF Same, InStep
<1>5. TypeOK'
  BY <1>1, <1>2, <1>3 DEF TypeOK
<1>6. InStep(c)'
  BY <1>1, <1>3, <1>4 DEF InStep, PcsOf
<1>7. ASSUME Achieved(c) PROVE Achieved(c)'
  <2>1. Scenarios' = Scenarios /\ Applied' = Applied
    BY <1>2, SameRecords
  <2>2. ~paused' => Lifted(s)'
    BY <1>4 DEF Lifted
  <2>3. k.op = "apply" => Type[s] = "node-restart"
    BY <1>1 DEF InStep
  <2>4. /\ k.op = "apply" => s \in Scenarios \ Applied
        /\ k.op \in {"recover", "delete"} => s \in Applied
    BY <1>1, <1>7 DEF Achieved, Underway
  <2> QED BY <1>1, <1>3, <1>4, <2>1, <2>2, <2>3, <2>4 DEF Achieved, Underway, Settled
<1>8. SerialOK(c) => SerialOK(c)'
  BY <1>1, <1>2, <1>3, <1>4, SameRecords DEF SerialOK
<1> QED BY <1>1, <1>2, <1>3, <1>4, <1>5, <1>6, <1>7, <1>8, StepKeeps, SameRecords

\* One end is degraded: it is hit, and only if there is a link.
LEMMA DegradeHits ==
  ASSUME TypeOK, NEW s, NEW e \in Ends, Degrade(s, e)
  PROVE  /\ down' \subseteq Ends /\ netem' \subseteq Ends /\ "link" \in live
         /\ Hit(s)' = Hit(s) \cup {e}
  BY DEF TypeOK, Degrade, Hit

\* One end is restored: it is not hit any more.
LEMMA RestoreLifts ==
  ASSUME TypeOK, NEW s, NEW e \in Ends, Restore(s, e)
  PROVE  /\ down' \subseteq Ends /\ netem' \subseteq Ends /\ "link" \in live
         /\ Hit(s)' = Hit(s) \ {e}
  BY DEF TypeOK, Restore, Hit

\* A fault of a link is in force when all its ends are hit, and lifted when none is.
LEMMA LinkHit ==
  ASSUME NEW s, ~OnNode(s)
  PROVE  /\ InForce(s) <=> ToSet(Sides[s]) \subseteq Hit(s)
         /\ Lifted(s) <=> ToSet(Sides[s]) \cap Hit(s) = {}
  BY DEF InForce, Lifted, Hit

\* injectLinkFault degrades the next end.
LEMMA InjectEndOK ==
  ASSUME IInv, NEW c \in Handlers, InjectEnd(c) PROVE IInv'
<1> DEFINE k == call[c]
           r == call'[c]
           s == k.id
           e == Head(k.todo)
           rest == Tail(k.todo)
           p == IF rest = <<>> THEN "record" ELSE "inject"
           x == [k EXCEPT !.todo = rest, !.faulted = Append(k.faulted, e), !.pc = p]
<1>1. TypeOK /\ InStep(c) /\ k.pc = "inject" /\ k.op = "apply" /\ Active(c) /\ k \in Call
  BY OpOfPc DEF IInv, Calls, InjectEnd, Active
<1>2. UNCHANGED <<topo, base, live, paused, rec, raced>> /\ Degrade(s, e) /\ call' = [call EXCEPT ![c] = x]
  BY DEF InjectEnd
<1>3. s \in Faults /\ ~k.err /\ ~OnNode(s) /\ k.todo # <<>> /\ k.todo \in Seq(Ends) /\ k.faulted \in Seq(Ends)
  BY <1>1 DEF InStep, Call
<1>4. e \in Ends /\ rest \in Seq(Ends) /\ ToSet(k.todo) = {e} \cup ToSet(rest)
  BY <1>3, HeadTail
<1>5. Append(k.faulted, e) \in Seq(Ends) /\ ToSet(Append(k.faulted, e)) = ToSet(k.faulted) \cup {e}
  BY <1>3, <1>4, AppendSet
<1>6. x \in Call /\ Same(k, x) /\ x.pc = p /\ x.todo = rest /\ x.faulted = Append(k.faulted, e) /\ x.err = k.err
  BY <1>1, <1>4, <1>5 DEF Call, Pcs, Same
<1>7. /\ call' \in [Handlers -> Call] /\ Same(k, r) /\ \A d \in Handlers \ {c} : call'[d] = call[d]
      /\ r.pc = p /\ r.todo = rest /\ r.faulted = Append(k.faulted, e) /\ r.err = k.err
  <2> HIDE DEF x
  <2> QED BY <1>1, <1>2, <1>6, Updated
<1>8. r.op = k.op /\ r.id = k.id /\ r.alone = k.alone
  BY <1>7 DEF Same
<1>9. down' \subseteq Ends /\ netem' \subseteq Ends /\ "link" \in live /\ Hit(s)' = Hit(s) \cup {e}
  BY <1>1, <1>2, <1>4, DegradeHits
<1> HIDE DEF e, rest, x
<1>10. TypeOK'
  BY <1>1, <1>2, <1>7, <1>9 DEF TypeOK
<1>11. ToSet(Sides[s]) \subseteq ToSet(r.faulted) \cup ToSet(r.todo)
  BY <1>1, <1>4, <1>5, <1>7 DEF InStep
<1>12. InStep(c)'
  BY <1>1, <1>3, <1>7, <1>8, <1>11 DEF InStep, PcsOf
<1>13. ASSUME Achieved(c) PROVE Achieved(c)'
  <2>1. s \in Scenarios \ Applied /\ ToSet(k.faulted) \subseteq Hit(s)
    BY <1>1, <1>13 DEF Achieved, Underway
  <2>2. Scenarios' = Scenarios /\ Applied' = Applied
    BY <1>2, SameRecords
  <2>3. ToSet(r.faulted) \subseteq Hit(s)'
    BY <1>5, <1>7, <1>9, <2>1
  <2>4. r.todo = <<>> => InForce(s)'
    <3>1. InForce(s)' <=> ToSet(Sides[s]) \subseteq Hit(s)'
      BY <1>3, <1>8 DEF InForce, Hit
    <3> QED BY <1>11, <2>3, <3>1, EmptySet
  <2>5. Type[s] # "node-restart"
    BY <1>3, TargetKinds
  <2> HIDE DEF k, r, s
  <2>6. Underway(c)'
    BY <1>1, <1>7, <1>8, <2>1, <2>2, <2>3, <2>4, <2>5 DEF Underway, r, s, k
  <2>7. Settled(c)'
    BY <1>7 DEF Settled, r
  <2> QED BY <1>1, <1>8, <2>6, <2>7 DEF Achieved, r
<1>14. SerialOK(c) => SerialOK(c)'
  BY <1>1, <1>2, <1>7, <1>8, SameRecords DEF SerialOK
<1> QED BY <1>1, <1>2, <1>7, <1>8, <1>10, <1>12, <1>13, <1>14, StepKeeps, SameRecords

\* The next end fails, with or without effect.
LEMMA InjectEndFailsOK ==
  ASSUME IInv, NEW c \in Handlers, InjectEndFails(c) PROVE IInv'
<1> DEFINE k == call[c]
           r == call'[c]
           s == k.id
           e == Head(k.todo)
           p == IF k.faulted = <<>> THEN "record" ELSE "rollback"
           x == [k EXCEPT !.err = TRUE, !.todo = k.faulted, !.pc = p]
<1>1. TypeOK /\ InStep(c) /\ k.pc = "inject" /\ k.op = "apply" /\ Active(c) /\ k \in Call
  BY OpOfPc DEF IInv, Calls, InjectEndFails, Active
<1>2. /\ UNCHANGED <<topo, base, live, paused, rec, raced>> /\ call' = [call EXCEPT ![c] = x]
      /\ Degrade(s, e) \/ UNCHANGED <<down, netem>>
  BY DEF InjectEndFails
<1>3. s \in Faults /\ ~OnNode(s) /\ k.todo # <<>> /\ k.todo \in Seq(Ends) /\ k.faulted \in Seq(Ends)
  BY <1>1 DEF InStep, Call
<1>4. e \in Ends
  BY <1>3, HeadTail
<1>5. x \in Call /\ Same(k, x) /\ x.pc = p /\ x.todo = k.faulted /\ x.err
  BY <1>1, <1>3 DEF Call, Pcs, Same
<1>6. /\ call' \in [Handlers -> Call] /\ Same(k, r) /\ \A d \in Handlers \ {c} : call'[d] = call[d]
      /\ r.pc = p /\ r.todo = k.faulted /\ r.err
  <2> HIDE DEF x
  <2> QED BY <1>1, <1>2, <1>5, Updated
<1>7. r.op = k.op /\ r.id = k.id /\ r.alone = k.alone
  BY <1>6 DEF Same
<1>8. down' \subseteq Ends /\ netem' \subseteq Ends /\ (down' \cup netem' # {} => "link" \in live)
  <2>1. CASE Degrade(s, e)
    BY <1>1, <1>4, <2>1, DegradeHits
  <2>2. CASE UNCHANGED <<down, netem>>
    BY <1>1, <2>2 DEF TypeOK
  <2> QED BY <1>2, <2>1, <2>2
<1> HIDE DEF e, x
<1>9. TypeOK'
  BY <1>1, <1>2, <1>6, <1>8 DEF TypeOK
<1>10. InStep(c)'
  BY <1>1, <1>3, <1>6, <1>7 DEF InStep, PcsOf
<1>11. ASSUME Achieved(c) PROVE Achieved(c)'
  <2>1. s \in Scenarios \ Applied /\ Scenarios' = Scenarios /\ Applied' = Applied
    BY <1>1, <1>2, <1>11, SameRecords DEF Achieved, Underway
  <2> QED BY <1>1, <1>6, <1>7, <2>1 DEF Achieved, Underway, Settled
<1>12. SerialOK(c) => SerialOK(c)'
  BY <1>1, <1>2, <1>6, <1>7, SameRecords DEF SerialOK
<1> QED BY <1>1, <1>2, <1>6, <1>7, <1>9, <1>10, <1>11, <1>12, StepKeeps, SameRecords

\* The next end is rolled back, or the attempt fails.
LEMMA RollbackEndOK ==
  ASSUME IInv, NEW c \in Handlers, RollbackEnd(c) PROVE IInv'
<1> DEFINE k == call[c]
           r == call'[c]
           s == k.id
           e == Head(k.todo)
           rest == Tail(k.todo)
           p == IF rest = <<>> THEN "record" ELSE "rollback"
           x == [k EXCEPT !.todo = rest, !.pc = p]
<1>1. TypeOK /\ InStep(c) /\ k.pc = "rollback" /\ k.op = "apply" /\ Active(c) /\ k \in Call
  BY OpOfPc DEF IInv, Calls, RollbackEnd, Active
<1>2. /\ UNCHANGED <<topo, base, live, paused, rec, raced>> /\ call' = [call EXCEPT ![c] = x]
      /\ Restore(s, e) \/ UNCHANGED <<down, netem>>
  BY DEF RollbackEnd
<1>3. s \in Faults /\ ~OnNode(s) /\ k.todo # <<>> /\ k.todo \in Seq(Ends)
  BY <1>1 DEF InStep, Call
<1>4. e \in Ends /\ rest \in Seq(Ends)
  BY <1>3, HeadTail
<1>5. x \in Call /\ Same(k, x) /\ x.pc = p /\ x.todo = rest /\ x.err = k.err
  BY <1>1, <1>4 DEF Call, Pcs, Same
<1>6. /\ call' \in [Handlers -> Call] /\ Same(k, r) /\ \A d \in Handlers \ {c} : call'[d] = call[d]
      /\ r.pc = p /\ r.todo = rest /\ r.err = k.err
  <2> HIDE DEF x
  <2> QED BY <1>1, <1>2, <1>5, Updated
<1>7. r.op = k.op /\ r.id = k.id /\ r.alone = k.alone
  BY <1>6 DEF Same
<1>8. down' \subseteq Ends /\ netem' \subseteq Ends /\ (down' \cup netem' # {} => "link" \in live)
  <2>1. CASE Restore(s, e)
    BY <1>1, <1>4, <2>1, RestoreLifts
  <2>2. CASE UNCHANGED <<down, netem>>
    BY <1>1, <2>2 DEF TypeOK
  <2> QED BY <1>2, <2>1, <2>2
<1> HIDE DEF e, x, rest
<1>9. TypeOK'
  BY <1>1, <1>2, <1>6, <1>8 DEF TypeOK
<1>10. InStep(c)'
  BY <1>1, <1>3, <1>6, <1>7 DEF InStep, PcsOf
<1>11. ASSUME Achieved(c) PROVE Achieved(c)'
  <2>1. s \in Scenarios \ Applied /\ Scenarios' = Scenarios /\ Applied' = Applied
    BY <1>1, <1>2, <1>11, SameRecords DEF Achieved, Underway
  <2>2. k.err
    BY <1>1 DEF InStep
  <2> QED BY <1>1, <1>6, <1>7, <2>1, <2>2 DEF Achieved, Underway, Settled
<1>12. SerialOK(c) => SerialOK(c)'
  BY <1>1, <1>2, <1>6, <1>7, SameRecords DEF SerialOK
<1> QED BY <1>1, <1>2, <1>6, <1>7, <1>9, <1>10, <1>11, <1>12, StepKeeps, SameRecords

\* recover restores the next end and keeps an error.
LEMMA UndoEndOK ==
  ASSUME IInv, NEW c \in Handlers, UndoEnd(c) PROVE IInv'
<1> DEFINE k == call[c]
           r == call'[c]
           s == k.id
           e == Head(k.todo)
           rest == Tail(k.todo)
           p == IF rest = <<>> THEN "record" ELSE "undo"
<1>1. TypeOK /\ InStep(c) /\ k.pc = "undo" /\ k.op \in {"recover", "delete"} /\ Active(c) /\ k \in Call
  BY OpOfPc DEF IInv, Calls, UndoEnd, Active
<1>2. UNCHANGED <<topo, base, live, paused, rec, raced>>
  BY DEF UndoEnd
<1>3. PICK failed \in BOOLEAN :
        /\ Restore(s, e) \/ (failed /\ UNCHANGED <<down, netem>>)
        /\ call' = [call EXCEPT ![c] = [k EXCEPT !.todo = rest, !.err = k.err \/ failed, !.pc = p]]
  BY DEF UndoEnd
<1> DEFINE x == [k EXCEPT !.todo = rest, !.err = k.err \/ failed, !.pc = p]
<1>4. s \in Faults /\ ~OnNode(s) /\ k.todo # <<>> /\ k.todo \in Seq(Ends) /\ k.err \in BOOLEAN
  BY <1>1 DEF InStep, Call
<1>5. e \in Ends /\ rest \in Seq(Ends) /\ ToSet(k.todo) = {e} \cup ToSet(rest)
  BY <1>4, HeadTail
<1>6. x \in Call /\ Same(k, x) /\ x.pc = p /\ x.todo = rest /\ x.err = (k.err \/ failed)
  BY <1>1, <1>4, <1>5 DEF Call, Pcs, Same
<1>7. /\ call' \in [Handlers -> Call] /\ Same(k, r) /\ \A d \in Handlers \ {c} : call'[d] = call[d]
      /\ r.pc = p /\ r.todo = rest /\ r.err = (k.err \/ failed)
  <2> HIDE DEF x
  <2> QED BY <1>1, <1>3, <1>6, Updated DEF x
<1>8. r.op = k.op /\ r.id = k.id /\ r.alone = k.alone
  BY <1>7 DEF Same
<1>9. /\ down' \subseteq Ends /\ netem' \subseteq Ends /\ (down' \cup netem' # {} => "link" \in live)
      /\ failed \/ Hit(k.id)' = Hit(s) \ {e}
  <2>1. CASE Restore(s, e)
    <3>1. down' \subseteq Ends /\ netem' \subseteq Ends /\ "link" \in live
      BY <1>1, <1>5, <2>1, RestoreLifts
    <3>2. Hit(k.id)' = Hit(s) \ {e}
      BY <1>8, <2>1 DEF Restore, Hit
    <3> QED BY <3>1, <3>2
  <2>2. CASE failed /\ UNCHANGED <<down, netem>>
    BY <1>1, <2>2 DEF TypeOK
  <2> QED BY <1>3, <2>1, <2>2
<1> HIDE DEF e, x, rest
<1>10. TypeOK'
  BY <1>1, <1>2, <1>7, <1>9 DEF TypeOK
<1>11. InStep(c)'
  BY <1>1, <1>4, <1>7, <1>8 DEF InStep, PcsOf
<1>12. ASSUME Achieved(c) PROVE Achieved(c)'
  <2>1. s \in Applied /\ (~k.err => (ToSet(Sides[s]) \ ToSet(k.todo)) \cap Hit(s) = {})
    BY <1>1, <1>12 DEF Achieved, Underway
  <2>2. Scenarios' = Scenarios /\ Applied' = Applied
    BY <1>2, SameRecords
  <2>3. ~r.err => (ToSet(Sides[s]) \ ToSet(r.todo)) \cap Hit(k.id)' = {}
    BY <1>5, <1>7, <1>9, <2>1
  <2>4. ~r.err /\ r.todo = <<>> => Lifted(k.id)'
    <3>1. Lifted(k.id)' <=> ToSet(Sides[s]) \cap Hit(k.id)' = {}
      BY <1>4, <1>8 DEF Lifted, Hit
    <3> QED BY <2>3, <3>1, EmptySet
  <2>5. Underway(c)'
    BY <1>1, <1>7, <1>8, <2>1, <2>2, <2>3, <2>4 DEF Underway
  <2>6. Settled(c)'
    BY <1>7 DEF Settled
  <2> QED BY <1>1, <1>8, <2>5, <2>6 DEF Achieved
<1>13. SerialOK(c) => SerialOK(c)'
  BY <1>1, <1>2, <1>7, <1>8, SameRecords DEF SerialOK
<1> QED BY <1>1, <1>2, <1>7, <1>8, <1>10, <1>11, <1>12, <1>13, StepKeeps, SameRecords

----------------------------------------------------------------------------
(* Steps that write the records *)

\* A record is no marker, and the markers differ.
LEMMA Markers ==
  /\ None # Deleted
  /\ \A b \in BOOLEAN : [applied |-> b] \in Record /\ [applied |-> b] \notin {None, Deleted}
  BY FaultAssumptions DEF FaultAssumptions, Record

\* The record of s is written.
LEMMA WriteRecord ==
  ASSUME TypeOK, NEW s \in Scenarios, NEW b \in BOOLEAN, rec' = [rec EXCEPT ![s] = [applied |-> b]]
  PROVE  /\ rec' \in [Faults -> Record \cup {None, Deleted}]
         /\ Scenarios' = Scenarios
         /\ Applied' = IF b THEN Applied \cup {s} ELSE Applied \ {s}
<1>1. s \in Faults /\ rec \in [Faults -> Record \cup {None, Deleted}]
  BY DEF Scenarios, TypeOK
<1>2. rec'[s] = [applied |-> b] /\ \A o \in Faults \ {s} : rec'[o] = rec[o]
  BY <1>1
<1>3. rec' \in [Faults -> Record \cup {None, Deleted}]
  BY <1>1, Markers
<1>4. rec'[s] \notin {None, Deleted} /\ rec'[s].applied = b
  BY <1>2, Markers
<1>5. Scenarios' = Scenarios
  BY <1>1, <1>2, <1>4 DEF Scenarios
<1>6. Applied' = IF b THEN Applied \cup {s} ELSE Applied \ {s}
  <2>1. \A o \in Scenarios \ {s} : (o \in Applied') <=> (o \in Applied)
    BY <1>1, <1>2, <1>5 DEF Applied, Scenarios
  <2>2. s \in Applied' <=> b
    BY <1>4, <1>5 DEF Applied
  <2>3. Applied \subseteq Scenarios /\ Applied' \subseteq Scenarios
    BY <1>5 DEF Applied
  <2> QED BY <2>1, <2>2, <2>3
<1> QED BY <1>3, <1>5, <1>6

\* A record is deleted.
LEMMA DropRecord ==
  ASSUME TypeOK, NEW s \in Faults, rec' = [rec EXCEPT ![s] = Deleted]
  PROVE  /\ rec' \in [Faults -> Record \cup {None, Deleted}] /\ rec'[s] = Deleted
         /\ Scenarios' = Scenarios \ {s} /\ Applied' = Applied \ {s}
<1>1. rec \in [Faults -> Record \cup {None, Deleted}]
  BY DEF TypeOK
<1>2. rec'[s] = Deleted /\ \A o \in Faults \ {s} : rec'[o] = rec[o]
  BY <1>1
<1>3. Scenarios' = Scenarios \ {s}
  BY <1>2 DEF Scenarios
<1>4. Applied' = Applied \ {s}
  <2>1. \A o \in Scenarios \ {s} : rec'[o] = rec[o]
    BY <1>2 DEF Scenarios
  <2> QED BY <1>3, <2>1 DEF Applied
<1> QED BY <1>1, <1>2, <1>3, <1>4

\* UpdateFaultScenario: what an operation records is what it has done.
LEMMA RecordStatusOK ==
  ASSUME IInv, NEW c \in Handlers, RecordStatus(c) PROVE IInv'
<1> DEFINE k == call[c]
           r == call'[c]
           s == k.id
           b == AppliedAfter(c)
           ok == s \in Scenarios /\ ~k.err
<1>1. TypeOK /\ InStep(c) /\ k.pc = "record" /\ k.op \in {"apply", "recover", "delete"} /\ Active(c) /\ k \in Call
  BY OpOfPc DEF IInv, Calls, RecordStatus, Active
<1>2. UNCHANGED <<topo, base, net, raced>>
  BY DEF RecordStatus
<1>3. s \in Faults /\ k.err \in BOOLEAN /\ b \in BOOLEAN
  BY <1>1 DEF InStep, Call, AppliedAfter
<1>4. /\ k.op = "apply" => b = (~k.err /\ Type[s] # "node-restart")
      /\ k.op # "apply" => b = k.err
  BY DEF AppliedAfter
<1>5. \/ s \notin Scenarios /\ rec' = rec
      \/ s \in Scenarios /\ rec' = [rec EXCEPT ![s] = [applied |-> b]]
  BY DEF RecordStatus
<1>6. /\ call' \in [Handlers -> Call] /\ Same(k, r) /\ \A d \in Handlers \ {c} : call'[d] = call[d]
      /\ \/ r.pc = "erase" /\ ok /\ k.op = "delete"
         \/ r.pc = "done" /\ r.ok = ok /\ (ok => k.op # "delete")
  <2>1. CASE ok /\ k.op = "delete" /\ Goto(c, "erase")
    BY <1>1, <2>1, GotoMoves DEF Pcs
  <2>2. CASE ~(ok /\ k.op = "delete") /\ Finish(c, ok)
    <3>1. ok \in BOOLEAN
      OBVIOUS
    <3> HIDE DEF ok
    <3> QED BY <1>1, <2>2, <3>1, FinishMoves
  <2> QED BY <2>1, <2>2 DEF RecordStatus
<1>7. r.op = k.op /\ r.id = k.id /\ r.alone = k.alone /\ r.was = k.was
  BY <1>6 DEF Same
<1> HIDE DEF b
<1>8. /\ rec' \in [Faults -> Record \cup {None, Deleted}] /\ Scenarios' = Scenarios
      /\ s \notin Scenarios => Applied' = Applied
      /\ s \in Scenarios => Applied' = IF b THEN Applied \cup {s} ELSE Applied \ {s}
  <2>1. CASE s \notin Scenarios
    BY <1>1, <1>5, <2>1, SameRecords DEF TypeOK
  <2>2. CASE s \in Scenarios
    BY <1>1, <1>3, <1>5, <2>2, WriteRecord
  <2> QED BY <2>1, <2>2
<1>9. TypeOK'
  BY <1>1, <1>2, <1>6, <1>8 DEF TypeOK, net
<1>10. InStep(c)'
  BY <1>1, <1>3, <1>6, <1>7 DEF InStep, PcsOf
<1>11. Lifted(k.id)' = Lifted(s) /\ InForce(k.id)' = InForce(s)
  BY <1>2, <1>7 DEF Lifted, InForce, net
<1>12. ASSUME Achieved(c) PROVE Achieved(c)'
  <2>1. /\ k.op = "apply" => s \in Scenarios \ Applied
        /\ k.op # "apply" => s \in Applied
        /\ k.op = "apply" /\ ~k.err => IF Type[s] = "node-restart" THEN Lifted(s) ELSE InForce(s)
        /\ k.op # "apply" /\ ~k.err => Lifted(s)
    BY <1>1, <1>12 DEF Achieved, Underway
  <2>2. s \in Scenarios
    BY <2>1 DEF Applied
  <2>3. s \in Scenarios' /\ (s \in Applied' <=> b)
    BY <1>8, <2>2
  <2>4. Underway(c)'
    BY <1>1, <1>6, <1>7, <1>11, <2>1, <2>3 DEF Underway
  <2>5. Settled(c)'
    BY <1>1, <1>4, <1>6, <1>7, <1>11, <2>1, <2>2, <2>3 DEF Settled
  <2> QED BY <1>1, <1>7, <2>4, <2>5 DEF Achieved
<1>13. SerialOK(c)'
  BY <1>6, <1>7 DEF SerialOK
<1>14. ASSUME OneFault, SerialOK(c) PROVE OneFault'
  <2>1. CASE Applied' \subseteq Applied
    BY <1>14, <2>1 DEF OneFault
  <2>2. CASE Applied' = Applied \cup {s} /\ k.op = "apply"
    <3>1. Conflicts(s) = {}
      BY <1>1, <1>14, <2>2 DEF SerialOK
    <3>2. \A o \in Applied \ {s} : Target(o) # Target(s)
      BY <3>1 DEF Conflicts
    <3> HIDE DEF s
    <3> QED BY <1>14, <2>2, <3>2 DEF OneFault
  <2>3. CASE k.op # "apply"
    <3>1. s \in Applied
      BY <1>1, <1>14, <2>3 DEF SerialOK
    <3>2. Applied' \subseteq Applied
      BY <1>8, <3>1
    <3> QED BY <2>1, <3>2
  <2> QED BY <1>8, <2>1, <2>2, <2>3
<1> QED BY <1>1, <1>2, <1>6, <1>7, <1>9, <1>10, <1>12, <1>13, <1>14, StepKeeps

\* The record goes.
LEMMA EraseScenarioOK ==
  ASSUME IInv, NEW c \in Handlers, EraseScenario(c) PROVE IInv'
<1> DEFINE k == call[c]
           r == call'[c]
           s == k.id
           ok == s \in Scenarios
<1>1. TypeOK /\ InStep(c) /\ k.pc = "erase" /\ k.op = "delete" /\ Active(c) /\ k \in Call
  BY OpOfPc DEF IInv, Calls, EraseScenario, Active
<1>2. UNCHANGED <<topo, base, net, raced>> /\ rec' = [rec EXCEPT ![s] = Deleted] /\ Finish(c, ok)
  BY DEF EraseScenario
<1>3. s \in Faults
  BY <1>1 DEF InStep
<1>4. /\ call' \in [Handlers -> Call] /\ Same(k, r) /\ \A d \in Handlers \ {c} : call'[d] = call[d]
      /\ r.pc = "done" /\ r.ok = ok
  <2>1. ok \in BOOLEAN
    OBVIOUS
  <2> HIDE DEF ok
  <2> QED BY <1>1, <1>2, <2>1, FinishMoves
<1>5. r.op = k.op /\ r.id = k.id /\ r.alone = k.alone /\ r.was = k.was
  BY <1>4 DEF Same
<1>6. /\ rec' \in [Faults -> Record \cup {None, Deleted}] /\ rec'[s] = Deleted
      /\ Scenarios' = Scenarios \ {s} /\ Applied' = Applied \ {s}
  BY <1>1, <1>2, <1>3, DropRecord
<1>7. TypeOK'
  BY <1>1, <1>2, <1>4, <1>6 DEF TypeOK, net
<1>8. InStep(c)'
  BY <1>1, <1>3, <1>4, <1>5 DEF InStep, PcsOf
<1>9. Lifted(k.id)' = Lifted(s)
  BY <1>2, <1>5 DEF Lifted, net
<1>10. ASSUME Achieved(c) PROVE Achieved(c)'
  <2>1. k.was => Lifted(s)
    BY <1>1, <1>10 DEF Achieved, Underway
  <2> QED BY <1>1, <1>4, <1>5, <1>6, <1>9, <2>1 DEF Achieved, Underway, Settled
<1>11. SerialOK(c)' /\ (OneFault => OneFault')
  BY <1>4, <1>5, <1>6 DEF SerialOK, OneFault
<1> QED BY <1>1, <1>2, <1>4, <1>5, <1>7, <1>8, <1>10, <1>11, StepKeeps

----------------------------------------------------------------------------
(* Steps of a plan *)

\* What is left of the runtime keeps its types.
LEMMA RebuildType ==
  ASSUME TypeOK, NEW gone, NEW fresh \in SUBSET Targets, Rebuild(gone, fresh)
  PROVE  /\ live' \subseteq Targets /\ paused' \in BOOLEAN /\ down' \subseteq Ends /\ netem' \subseteq Ends
         /\ paused' => "node" \in live'
         /\ down' \cup netem' # {} => "link" \in live'
<1>1. /\ live \subseteq Targets /\ paused \in BOOLEAN /\ down \subseteq Ends /\ netem \subseteq Ends
      /\ paused => "node" \in live
      /\ down \cup netem # {} => "link" \in live
  BY DEF TypeOK
<1>2. live' = (live \ gone) \cup fresh /\ paused' = (paused /\ "node" \notin gone \cup fresh)
  BY DEF Rebuild
<1>3. CASE "link" \in gone \cup fresh
  <2>1. down' = {} /\ netem' = {}
    BY <1>3 DEF Rebuild
  <2> QED BY <1>1, <1>2, <2>1
<1>4. CASE "link" \notin gone \cup fresh
  <2>1. down' = down /\ netem' = netem
    BY <1>4 DEF Rebuild
  <2> QED BY <1>1, <1>2, <1>4, <2>1
<1> QED BY <1>3, <1>4

\* The deployment touches the runtime only.
LEMMA DeployTopologyOK ==
  ASSUME IInv, NEW c \in Handlers, DeployTopology(c) PROVE IInv'
<1> DEFINE k == call[c]
           r == call'[c]
<1>1. TypeOK /\ InStep(c) /\ k.pc = "deploy" /\ k.op = "plan" /\ Active(c) /\ k \in Call
  BY OpOfPc DEF IInv, Calls, DeployTopology, Active
<1>2. UNCHANGED <<topo, base, rec, raced>> /\ Goto(c, "scan") /\ Rebuild(live \ topo, topo \ Base)
  BY DEF DeployTopology
<1>3. /\ call' \in [Handlers -> Call] /\ Same(k, r) /\ \A d \in Handlers \ {c} : call'[d] = call[d]
      /\ r.pc = "scan"
  BY <1>1, <1>2, GotoMoves DEF Pcs
<1>4. r.op = k.op /\ r.id = k.id /\ r.alone = k.alone /\ r.gone = k.gone
  BY <1>3 DEF Same
<1>5. topo \ Base \in SUBSET Targets
  BY <1>1 DEF TypeOK
<1>6. TypeOK'
  BY <1>1, <1>2, <1>3, <1>5, RebuildType DEF TypeOK
<1>7. InStep(c)'
  BY <1>1, <1>3, <1>4 DEF InStep, PcsOf
<1>8. Achieved(c) => Achieved(c)'
  BY <1>1, <1>2, <1>3, <1>4 DEF Achieved, Pruned
<1>9. SerialOK(c)'
  BY <1>1, <1>4 DEF SerialOK
<1> QED BY <1>1, <1>2, <1>3, <1>4, <1>6, <1>7, <1>8, <1>9, StepKeeps, SameRecords

\* One scenario after the other is deleted until none is left.
LEMMA PruneScenarioOK ==
  ASSUME IInv, NEW c \in Handlers, PruneScenario(c) PROVE IInv'
<1> DEFINE k == call[c]
           r == call'[c]
<1>1. TypeOK /\ InStep(c) /\ k.pc = "prune" /\ k.op = "plan" /\ Active(c) /\ k \in Call
  BY OpOfPc DEF IInv, Calls, PruneScenario, Active
<1>2. UNCHANGED <<topo, base, net, raced>>
  BY DEF PruneScenario
<1>3. CASE k.prune = <<>>
  <2>1. rec' = rec /\ Goto(c, "commit")
    BY <1>3 DEF PruneScenario
  <2>2. /\ call' \in [Handlers -> Call] /\ Same(k, r) /\ \A d \in Handlers \ {c} : call'[d] = call[d]
        /\ r.pc = "commit"
    BY <1>1, <2>1, GotoMoves DEF Pcs
  <2>3. r.op = k.op /\ r.alone = k.alone /\ r.gone = k.gone
    BY <2>2 DEF Same
  <2>4. TypeOK'
    BY <1>1, <1>2, <2>1, <2>2 DEF TypeOK, net
  <2>5. InStep(c)' /\ SerialOK(c)'
    BY <1>1, <2>2, <2>3 DEF InStep, PcsOf, SerialOK
  <2>6. ASSUME Achieved(c) PROVE Achieved(c)'
    <3>1. Left(c) = {} /\ k.gone \cap topo = {}
      BY <1>1, <1>3, <2>6, EmptySet DEF Achieved, Pruned
    <3>2. Left(c)' = Left(c)
      BY <2>1, <2>3, SameRecords DEF Left
    <3> QED BY <1>1, <1>2, <2>2, <2>3, <3>1, <3>2 DEF Achieved, Pruned
  <2> QED BY <1>1, <1>2, <2>1, <2>2, <2>3, <2>4, <2>5, <2>6, StepKeeps, SameRecords
<1>4. CASE k.prune # <<>>
  <2> DEFINE s == Head(k.prune)
             rest == Tail(k.prune)
             x == [k EXCEPT !.prune = rest]
  <2>1. k.prune \in Seq(Faults)
    BY <1>1 DEF Call
  <2>2. s \in Faults /\ rest \in Seq(Faults) /\ ToSet(k.prune) = {s} \cup ToSet(rest)
    BY <1>4, <2>1, HeadTail
  <2>3. /\ rec' = [rec EXCEPT ![s] = Deleted]
        /\ Finish(c, FALSE) \/ call' = [call EXCEPT ![c] = x]
    BY <1>4 DEF PruneScenario
  <2>4. x \in Call /\ Same(k, x) /\ x.pc = "prune" /\ x.prune = rest
    BY <1>1, <2>2 DEF Call, Same
  <2>5. /\ rec' \in [Faults -> Record \cup {None, Deleted}] /\ Scenarios' = Scenarios \ {s} /\ Applied' = Applied \ {s}
    BY <1>1, <2>2, <2>3, DropRecord
  <2> HIDE DEF s, rest, x
  <2>6. /\ call' \in [Handlers -> Call] /\ Same(k, r) /\ \A d \in Handlers \ {c} : call'[d] = call[d]
        /\ \/ r.pc = "done" /\ r.ok = FALSE
           \/ r.pc = "prune" /\ r.prune = rest
    <3>1. CASE Finish(c, FALSE)
      BY <1>1, <3>1, FinishMoves
    <3>2. CASE call' = [call EXCEPT ![c] = x]
      BY <1>1, <2>4, <3>2, Updated
    <3> QED BY <2>3, <3>1, <3>2
  <2>7. r.op = k.op /\ r.alone = k.alone /\ r.gone = k.gone
    BY <2>6 DEF Same
  <2>8. TypeOK'
    BY <1>1, <1>2, <2>5, <2>6 DEF TypeOK, net
  <2>9. InStep(c)' /\ SerialOK(c)' /\ (OneFault => OneFault')
    BY <1>1, <2>5, <2>6, <2>7 DEF InStep, PcsOf, SerialOK, OneFault
  <2>10. ASSUME Achieved(c) PROVE Achieved(c)'
    <3>1. Left(c) \subseteq ToSet(k.prune) /\ k.gone \cap topo = {}
      BY <1>1, <2>10 DEF Achieved, Pruned
    <3>2. Left(c)' = Left(c) \ {s}
      BY <2>5, <2>7 DEF Left
    <3>3. Left(c)' \subseteq ToSet(rest)
      BY <2>2, <3>1, <3>2
    <3> QED BY <1>1, <1>2, <2>6, <2>7, <3>1, <3>3 DEF Achieved, Pruned
  <2> QED BY <1>1, <1>2, <2>6, <2>7, <2>8, <2>9, <2>10, StepKeeps
<1> QED BY <1>3, <1>4

\* The generation is committed.
LEMMA CommitPlanOK ==
  ASSUME IInv, NEW c \in Handlers, CommitPlan(c) PROVE IInv'
<1> DEFINE k == call[c]
           r == call'[c]
<1>1. TypeOK /\ InStep(c) /\ k.pc = "commit" /\ k.op = "plan" /\ Active(c) /\ k \in Call
  BY OpOfPc DEF IInv, Calls, CommitPlan, Active
<1>2. UNCHANGED <<topo, net, rec, raced>> /\ base' = topo /\ Finish(c, TRUE)
  BY DEF CommitPlan
<1>3. /\ call' \in [Handlers -> Call] /\ Same(k, r) /\ \A d \in Handlers \ {c} : call'[d] = call[d]
      /\ r.pc = "done" /\ r.ok = TRUE
  BY <1>1, <1>2, FinishMoves
<1>4. r.op = k.op /\ r.alone = k.alone /\ r.gone = k.gone
  BY <1>3 DEF Same
<1>5. TypeOK'
  BY <1>1, <1>2, <1>3 DEF TypeOK, net
<1>6. InStep(c)' /\ SerialOK(c)'
  BY <1>1, <1>3, <1>4 DEF InStep, PcsOf, SerialOK
<1>7. ASSUME Achieved(c) PROVE Achieved(c)'
  <2>1. Left(c) = {} /\ k.gone \cap topo = {}
    BY <1>1, <1>7 DEF Achieved, Pruned
  <2>2. Left(c)' = Left(c)
    BY <1>2, <1>4, SameRecords DEF Left
  <2> QED BY <1>1, <1>2, <1>3, <1>4, <2>1, <2>2 DEF Achieved, Pruned
<1> QED BY <1>1, <1>2, <1>3, <1>4, <1>5, <1>6, <1>7, StepKeeps, SameRecords

\* Every step of a handler in flight keeps the invariant.
LEMMA StepOK ==
  ASSUME IInv, NEW c \in Handlers, Step(c) PROVE IInv'
  BY CheckTargetFreeOK, ResolveTargetOK, StopNodeOK, StartNodeOK, InjectEndOK, InjectEndFailsOK,
     RollbackEndOK, RecordStatusOK, RecoverBeforeDeleteOK, LocateTargetOK, UndoEndOK, EraseScenarioOK,
     DeployTopologyOK, ListForPruneOK, PruneScenarioOK, CommitPlanOK, ReplyOK DEF Step

----------------------------------------------------------------------------
(* Requests *)

\* A request begins: it is alone if nothing else is in flight, and nothing else is alone any more.
LEMMA BeginOK ==
  ASSUME IInv, NEW c \in Handlers, call[c].pc = "idle", NEW r \in Call, Begin(c, r), r.pc # "idle",
         UNCHANGED <<base, net, rec>>, topo' \subseteq Targets,
         (\E a \in BOOLEAN : call'[c] = [r EXCEPT !.alone = a])
            => InStep(c)' /\ Achieved(c)' /\ (OneFault => SerialOK(c)')
  PROVE  IInv'
<1> DEFINE others == {d \in Handlers \ {c} : Active(d)}
           a == others = {}
           x == [r EXCEPT !.alone = a]
<1>1. TypeOK /\ Calls /\ Alone /\ Serial /\ call \in [Handlers -> Call]
  BY DEF IInv, TypeOK
<1>2. /\ call' = [d \in Handlers |-> IF d = c THEN x
                    ELSE IF d \in others THEN [call[d] EXCEPT !.alone = FALSE] ELSE call[d]]
      /\ raced' = (raced \/ others # {})
  BY DEF Begin, Active
<1>3. x \in Call /\ x.pc = r.pc /\ x.alone = a
  BY DEF Call
<1>4. call'[c] = x
  BY <1>2
<1>5. ASSUME NEW d \in Handlers \ {c}
      PROVE  /\ call'[d] \in Call /\ Active(d)' = Active(d) /\ (Active(d) => ~call'[d].alone)
             /\ Same([call[d] EXCEPT !.alone = call'[d].alone], call'[d])
             /\ call'[d].pc = call[d].pc /\ call'[d].todo = call[d].todo /\ call'[d].faulted = call[d].faulted
             /\ call'[d].err = call[d].err
  <2>1. call[d] \in Call
    BY <1>1
  <2>2. CASE Active(d)
    <3>1. call'[d] = [call[d] EXCEPT !.alone = FALSE]
      BY <1>2, <2>2
    <3> QED BY <2>1, <2>2, <3>1 DEF Call, Same, Active
  <2>3. CASE ~Active(d)
    <3>1. call'[d] = call[d]
      BY <1>2, <2>3
    <3> QED BY <2>1, <2>3, <3>1 DEF Call, Same, Active
  <2> QED BY <2>2, <2>3
<1>6. ASSUME NEW d \in Handlers \ {c} PROVE call'[d].op = call[d].op /\ call'[d].id = call[d].id
  <2>1. call[d] \in Call
    BY <1>1
  <2> QED BY <1>2, <2>1 DEF Call
<1>7. call' \in [Handlers -> Call]
  <2>1. \A d \in Handlers : call'[d] \in Call
    BY <1>3, <1>4, <1>5
  <2> HIDE DEF x, a, others
  <2> QED BY <1>2, <2>1
<1>8. raced' \in BOOLEAN
  BY <1>2
<1>9. TypeOK'
  BY <1>1, <1>7, <1>8 DEF TypeOK, net
<1>10. InStep(c)' /\ Achieved(c)' /\ (OneFault => SerialOK(c)')
  <2>1. a \in BOOLEAN
    OBVIOUS
  <2> HIDE DEF a
  <2> QED BY <1>3, <1>4, <2>1
<1> HIDE DEF x
<1>11. ASSUME NEW d \in Handlers \ {c} PROVE InStep(d)'
  BY <1>1, <1>5, <1>6, <1>11 DEF InStep, Calls
<1>12. ASSUME NEW d \in Handlers \ {c} PROVE AloneOK(d)'
  BY <1>5, <1>12 DEF AloneOK
<1>13. AloneOK(c)'
  <2>1. ASSUME call'[c].alone PROVE \A d \in Handlers \ {c} : ~Active(d)'
    <3>1. others = {}
      BY <1>3, <1>4, <2>1
    <3> QED BY <1>5, <3>1
  <2> QED BY <1>10, <2>1 DEF AloneOK
<1>14. ASSUME ~raced' PROVE OneActive' /\ OneFault' /\ \A d \in Handlers : SerialOK(d)'
  <2>1. ~raced /\ others = {}
    BY <1>2, <1>14
  <2>2. OneFault
    BY <1>1, <2>1 DEF Serial
  <2>3. \A d \in Handlers \ {c} : ~Active(d) /\ ~Active(d)'
    BY <1>5, <2>1
  <2>4. OneActive'
    BY <2>3 DEF OneActive
  <2>5. ASSUME NEW d \in Handlers \ {c} PROVE SerialOK(d)'
    <3>1. call[d].op = "plan"
      BY <1>1, <2>3, <2>5, OpOfPc DEF Calls, Active
    <3> QED BY <1>6, <2>5, <3>1 DEF SerialOK
  <2> QED BY <1>10, <2>2, <2>4, <2>5, SameRecords
<1> QED BY <1>9, <1>10, <1>11, <1>12, <1>13, <1>14 DEF IInv, Calls, Alone, Serial

\* ApplyFaultScenario reads a record that is not applied.
LEMMA ApplyOK ==
  ASSUME IInv, NEW c \in Handlers, NEW s \in Faults, ApplyFaultScenario(c, s) PROVE IInv'
<1> DEFINE r == [Idle EXCEPT !.op = "apply", !.id = s, !.pc = "check"]
<1>1. call[c].pc = "idle" /\ s \in Scenarios \ Applied /\ Begin(c, r) /\ UNCHANGED <<topo, base, net, rec>>
  BY DEF ApplyFaultScenario
<1>2. r \in Call /\ r.op = "apply" /\ r.id = s /\ r.pc = "check" /\ r.err = FALSE /\ r.faulted = <<>>
  BY IdleType DEF Call, Pcs
<1>3. topo' \subseteq Targets
  BY <1>1 DEF IInv, TypeOK
<1> HIDE DEF r
<1>4. ASSUME NEW a \in BOOLEAN, call'[c] = [r EXCEPT !.alone = a]
      PROVE  InStep(c)' /\ Achieved(c)' /\ SerialOK(c)'
  <2> DEFINE x == call'[c]
  <2>1. x.op = "apply" /\ x.id = s /\ x.pc = "check" /\ x.err = FALSE /\ x.faulted = <<>>
    BY <1>2, <1>4 DEF Call
  <2>2. s \in Scenarios' \ Applied'
    BY <1>1, SameRecords
  <2> QED BY <2>1, <2>2 DEF InStep, PcsOf, Achieved, Underway, Settled, SerialOK
<1> QED BY <1>1, <1>2, <1>3, <1>4, BeginOK

\* RecoverFaultScenario reads one that is.
LEMMA RecoverOK ==
  ASSUME IInv, NEW c \in Handlers, NEW s \in Faults, RecoverFaultScenario(c, s) PROVE IInv'
<1> DEFINE r == [Idle EXCEPT !.op = "recover", !.id = s, !.was = TRUE, !.pc = "locate"]
<1>1. call[c].pc = "idle" /\ s \in Applied /\ Begin(c, r) /\ UNCHANGED <<topo, base, net, rec>>
  BY DEF RecoverFaultScenario
<1>2. r \in Call /\ r.op = "recover" /\ r.id = s /\ r.pc = "locate" /\ r.err = FALSE
  BY IdleType DEF Call, Pcs
<1>3. topo' \subseteq Targets
  BY <1>1 DEF IInv, TypeOK
<1> HIDE DEF r
<1>4. ASSUME NEW a \in BOOLEAN, call'[c] = [r EXCEPT !.alone = a]
      PROVE  InStep(c)' /\ Achieved(c)' /\ SerialOK(c)'
  <2> DEFINE x == call'[c]
  <2>1. x.op = "recover" /\ x.id = s /\ x.pc = "locate" /\ x.err = FALSE
    BY <1>2, <1>4 DEF Call
  <2>2. s \in Applied'
    BY <1>1, SameRecords
  <2> QED BY <2>1, <2>2 DEF InStep, PcsOf, Achieved, Underway, Settled, SerialOK
<1> QED BY <1>1, <1>2, <1>3, <1>4, BeginOK

\* DeleteFaultScenario reads one that is there.
LEMMA DeleteOK ==
  ASSUME IInv, NEW c \in Handlers, NEW s \in Faults, DeleteFaultScenario(c, s) PROVE IInv'
<1> DEFINE p == IF rec[s].applied THEN "again" ELSE "erase"
           r == [Idle EXCEPT !.op = "delete", !.id = s, !.was = rec[s].applied, !.pc = p]
<1>1. call[c].pc = "idle" /\ s \in Scenarios /\ Begin(c, r) /\ UNCHANGED <<topo, base, net, rec>>
  BY DEF DeleteFaultScenario
<1>2. rec[s].applied \in BOOLEAN /\ (rec[s].applied <=> s \in Applied)
  <2>1. rec[s] \in Record
    BY <1>1 DEF IInv, TypeOK, Scenarios
  <2> QED BY <1>1, <2>1 DEF Record, Applied
<1>3. r \in Call /\ r.op = "delete" /\ r.id = s /\ r.pc = p /\ r.err = FALSE /\ r.was = rec[s].applied
  BY <1>2, IdleType DEF Call, Pcs
<1>4. topo' \subseteq Targets
  BY <1>1 DEF IInv, TypeOK
<1> HIDE DEF r
<1>5. ASSUME NEW a \in BOOLEAN, call'[c] = [r EXCEPT !.alone = a]
      PROVE  InStep(c)' /\ Achieved(c)' /\ SerialOK(c)'
  <2> DEFINE x == call'[c]
  <2>1. x.op = "delete" /\ x.id = s /\ x.pc = p /\ x.err = FALSE /\ x.was = rec[s].applied
    BY <1>3, <1>5 DEF Call
  <2>2. Scenarios' = Scenarios /\ Applied' = Applied
    BY <1>1, SameRecords
  <2>3. InStep(c)'
    BY <2>1 DEF InStep, PcsOf
  <2>4. Achieved(c)'
    BY <1>1, <1>2, <2>1, <2>2 DEF Achieved, Underway, Settled
  <2>5. SerialOK(c)'
    BY <2>1 DEF SerialOK
  <2> QED BY <2>3, <2>4, <2>5
<1>6. r.pc # "idle"
  BY <1>3
<1> QED BY <1>1, <1>3, <1>4, <1>5, <1>6, BeginOK

\* ApplyPlan writes the targets it asks for.
LEMMA PlanOK ==
  ASSUME IInv, NEW c \in Handlers, NEW want \in Plans, ApplyPlan(c, want) PROVE IInv'
<1> DEFINE r == [Idle EXCEPT !.pc = "deploy", !.gone = Base \ want]
<1>1. call[c].pc = "idle" /\ topo' = want /\ Begin(c, r) /\ UNCHANGED <<base, net, rec>>
  BY DEF ApplyPlan
<1>2. want \subseteq Targets /\ Base \subseteq Targets
  BY FaultAssumptions DEF FaultAssumptions, IInv, TypeOK, Base
<1>3. r \in Call /\ r.op = "plan" /\ r.pc = "deploy" /\ r.gone = Base \ want
  BY <1>2, IdleType DEF Call, Pcs
<1> HIDE DEF r
<1>4. ASSUME NEW a \in BOOLEAN, call'[c] = [r EXCEPT !.alone = a]
      PROVE  InStep(c)' /\ Achieved(c)' /\ SerialOK(c)'
  <2> DEFINE x == call'[c]
  <2>1. x.op = "plan" /\ x.pc = "deploy" /\ x.gone = Base \ want
    BY <1>3, <1>4 DEF Call
  <2>2. x.gone \cap topo' = {}
    BY <1>1, <2>1
  <2> QED BY <2>1, <2>2 DEF InStep, PcsOf, Achieved, Pruned, SerialOK
<1> QED BY <1>1, <1>2, <1>3, <1>4, BeginOK

----------------------------------------------------------------------------
(* What happens outside the handlers *)

\* A scenario is created on a target that is there: no operation in flight is about it.
LEMMA CreateOK ==
  ASSUME IInv, NEW s \in Faults, CreateFaultScenario(s) PROVE IInv'
<1>1. rec[s] = None /\ Target(s) \in topo /\ rec' = [rec EXCEPT ![s] = [applied |-> FALSE]]
      /\ UNCHANGED <<topo, base, net, call, raced>> /\ TypeOK
  BY DEF CreateFaultScenario, IInv
<1>2. rec \in [Faults -> Record \cup {None, Deleted}]
  BY <1>1 DEF TypeOK
<1>3. rec'[s] = [applied |-> FALSE] /\ \A o \in Faults \ {s} : rec'[o] = rec[o]
  BY <1>1, <1>2
<1>4. rec' \in [Faults -> Record \cup {None, Deleted}] /\ rec'[s] \notin {None, Deleted} /\ ~rec'[s].applied
  BY <1>1, <1>2, <1>3, Markers
<1>5. Scenarios' = Scenarios \cup {s} /\ s \notin Scenarios
  BY <1>1, <1>3, <1>4 DEF Scenarios
<1>6. Applied' = Applied
  <2>1. \A o \in Scenarios : o \in Faults \ {s}
    BY <1>5 DEF Scenarios
  <2>2. \A o \in Scenarios : rec'[o] = rec[o]
    BY <1>3, <2>1
  <2> QED BY <1>4, <1>5, <2>2 DEF Applied
<1>7. TypeOK'
  BY <1>1, <1>4 DEF TypeOK, net
<1>8. Calls'
  BY <1>1 DEF IInv, Calls, InStep
<1>9. ASSUME NEW c \in Handlers, Achieved(c) PROVE Achieved(c)'
  <2>1. CASE call[c].op = "plan"
    <3>1. call[c].gone \cap topo = {}
      BY <1>9, <2>1 DEF Achieved, Pruned
    <3>2. Left(c)' = Left(c)
      BY <1>1, <1>5, <3>1 DEF Left
    <3> QED BY <1>1, <1>9, <2>1, <3>2 DEF Achieved, Pruned
  <2>2. CASE call[c].op # "plan"
    <3>1. call[c].id \in Faults
      BY <2>2 DEF IInv, Calls, InStep
    <3>2. rec[call[c].id] = Deleted => rec'[call'[c].id] = Deleted
      BY <1>1, <1>3, <3>1, Markers
    <3>3. Underway(c)'
      BY <1>1, <1>5, <1>6, <1>9, <2>2 DEF Achieved, Underway, Hit, Lifted, InForce, net
    <3>4. Settled(c)'
      BY <1>1, <1>5, <1>6, <1>9, <2>2, <3>2 DEF Achieved, Settled, Lifted, InForce, net
    <3> QED BY <1>1, <2>2, <3>3, <3>4 DEF Achieved
  <2> QED BY <2>1, <2>2
<1>10. Alone'
  BY <1>1, <1>9 DEF IInv, Alone, AloneOK, Active
<1>11. Serial'
  BY <1>1, <1>6 DEF IInv, Serial, OneActive, Active, OneFault, SerialOK, Conflicts
<1> QED BY <1>7, <1>8, <1>10, <1>11 DEF IInv

\* A repair or a power request overlaps every operation in flight and touches the network only.
LEMMA DisturbOK ==
  ASSUME IInv, Disturb, UNCHANGED <<topo, base, rec, raced>>,
         live' \subseteq Targets, paused' \in BOOLEAN, down' \subseteq Ends, netem' \subseteq Ends,
         paused' => "node" \in live', down' \cup netem' # {} => "link" \in live'
  PROVE  IInv'
<1>1. TypeOK /\ call \in [Handlers -> Call]
  BY DEF IInv, TypeOK
<1>2. ASSUME NEW c \in Handlers
      PROVE  /\ call'[c] \in Call /\ call'[c].pc = call[c].pc /\ call'[c].op = call[c].op /\ call'[c].id = call[c].id
             /\ call'[c].todo = call[c].todo /\ call'[c].faulted = call[c].faulted /\ call'[c].err = call[c].err
             /\ Active(c) => ~call'[c].alone
  <2>1. call[c] \in Call
    BY <1>1
  <2>2. CASE Active(c)
    <3>1. call'[c] = [call[c] EXCEPT !.alone = FALSE]
      BY <2>2 DEF Disturb, Active
    <3> QED BY <2>1, <3>1 DEF Call
  <2>3. CASE ~Active(c)
    <3>1. call'[c] = call[c]
      BY <2>3 DEF Disturb, Active
    <3> QED BY <2>1, <2>3, <3>1
  <2> QED BY <2>2, <2>3
<1>3. call' \in [Handlers -> Call]
  BY <1>2 DEF Disturb
<1>4. TypeOK'
  BY <1>1, <1>3 DEF TypeOK
<1>5. Calls'
  BY <1>2 DEF IInv, Calls, InStep
<1>6. Alone'
  BY <1>2 DEF Alone, AloneOK, Active
<1>7. Serial'
  BY <1>2, SameRecords DEF IInv, Serial, OneActive, Active, SerialOK
<1> QED BY <1>4, <1>5, <1>6, <1>7 DEF IInv

\* The environment keeps the invariant.
LEMMA EnvironmentOK == ASSUME IInv, Environment PROVE IInv'
<1>0. TypeOK
  BY DEF IInv
<1>1. CASE RepairLab
  <2>1. topo \in SUBSET Targets /\ Rebuild({}, topo) /\ Disturb /\ UNCHANGED <<topo, base, rec, raced>>
    BY <1>0, <1>1 DEF RepairLab, TypeOK
  <2> QED BY <1>0, <2>1, RebuildType, DisturbOK
<1>2. ASSUME NEW on \in BOOLEAN, PowerNode(on) PROVE IInv'
  <2>1. Disturb /\ UNCHANGED <<topo, base, live, down, netem, rec, raced>> /\ "node" \in live
    BY <1>2 DEF PowerNode
  <2>2. paused' \in BOOLEAN
    BY <1>2 DEF PowerNode
  <2>3. /\ live' \subseteq Targets /\ down' \subseteq Ends /\ netem' \subseteq Ends
        /\ paused' => "node" \in live'
        /\ down' \cup netem' # {} => "link" \in live'
    BY <1>0, <2>1 DEF TypeOK
  <2> QED BY <2>1, <2>2, <2>3, DisturbOK
<1>3. CASE Crash
  <2>1. call' = [c \in Handlers |-> Idle] /\ UNCHANGED <<topo, base, net, rec, raced>>
    BY <1>3 DEF Crash
  <2>2. \A c \in Handlers : call'[c] = Idle /\ ~Active(c)'
    BY <2>1, IdleType DEF Active
  <2>3. TypeOK'
    BY <1>0, <2>1, IdleType DEF TypeOK, net
  <2>4. Calls'
    BY <2>2, IdleType DEF Calls, InStep, PcsOf
  <2>5. Alone'
    BY <2>2 DEF Alone, AloneOK
  <2>6. Serial'
    BY <2>1, <2>2, IdleType, SameRecords DEF IInv, Serial, OneActive, SerialOK
  <2> QED BY <2>3, <2>4, <2>5, <2>6 DEF IInv
<1> QED BY <1>1, <1>2, <1>3, CreateOK DEF Environment

----------------------------------------------------------------------------
(* The theorems *)

\* The invariant holds initially.
LEMMA InitOK == Init => IInv
<1> SUFFICES ASSUME Init PROVE IInv
  OBVIOUS
<1>1. \A c \in Handlers : call[c] = Idle /\ ~Active(c)
  BY IdleType DEF Init, Active
<1>2. Scenarios = {} /\ Applied = {}
  BY DEF Init, Scenarios, Applied
<1>3. TypeOK
  <2>1. paused \in BOOLEAN /\ raced \in BOOLEAN /\ ~paused
    BY DEF Init
  <2>2. rec \in [Faults -> Record \cup {None, Deleted}] /\ call \in [Handlers -> Call]
    BY IdleType DEF Init
  <2>3. topo = {} /\ base = None /\ live = {} /\ down = {} /\ netem = {}
    BY DEF Init
  <2> QED BY <2>1, <2>2, <2>3 DEF TypeOK
<1>4. Calls
  BY <1>1, IdleType DEF Calls, InStep, PcsOf
<1>5. Alone
  BY <1>1 DEF Alone, AloneOK
<1>6. Serial
  BY <1>1, <1>2, IdleType DEF Serial, OneActive, OneFault, SerialOK
<1> QED BY <1>3, <1>4, <1>5, <1>6 DEF IInv

\* The inductive invariant holds in every state of every behaviour.
LEMMA Invariance == Spec => []IInv
<1>1. IInv /\ [Next]_vars => IInv'
  <2> SUFFICES ASSUME IInv, [Next]_vars PROVE IInv'
    OBVIOUS
  <2>1. CASE UNCHANGED vars
    <3>1. UNCHANGED <<topo, base, live, paused, down, netem, rec, call, raced>>
      BY <2>1 DEF vars, net
    <3>2. TypeOK' /\ Calls'
      BY <3>1 DEF IInv, TypeOK, Calls, InStep
    <3>3. Alone'
      BY <3>1, SameRecords DEF IInv, Alone, AloneOK, Active, Achieved, Underway, Settled, Pruned, Left,
                               Hit, InForce, Lifted
    <3>4. Serial'
      BY <3>1, SameRecords DEF IInv, Serial, OneActive, Active, SerialOK
    <3> QED BY <3>2, <3>3, <3>4 DEF IInv
  <2>2. ASSUME NEW c \in Handlers, Request(c) PROVE IInv'
    BY <2>2, ApplyOK, RecoverOK, DeleteOK, PlanOK DEF Request
  <2> QED BY <2>1, <2>2, EnvironmentOK, StepOK DEF Next
<1> QED BY <1>1, InitOK, PTL DEF Spec

(***************************************************************************)
(* "A target allows at most one applied scenario at a time" (fault.go):    *)
(* however many scenarios and handlers there are, it does until two        *)
(* operations have overlapped.                                             *)
(***************************************************************************)
THEOREM TargetHasOneFault == Spec => []OneFaultPerTarget
<1>1. IInv => OneFaultPerTarget
  BY DEF IInv, Serial, OneFault, OneFaultPerTarget
<1> QED BY <1>1, Invariance, PTL

(***************************************************************************)
(* What an operation on a scenario that overlapped nothing records agrees  *)
(* with what it did to the network, after any failures of the driver,      *)
(* races and crashes before it (ApplyFaultScenario, RecoverFaultScenario,  *)
(* DeleteFaultScenario).                                                   *)
(***************************************************************************)
THEOREM SerialOperationSettles == Spec => []SerialFaultSettles
<1>1. IInv => SerialFaultSettles
  <2> SUFFICES ASSUME IInv, NEW c \in Handlers, call[c].pc = "done", call[c].alone
               PROVE  LET k == call[c]
                          s == k.id
                      IN /\ k.op = "apply" /\ k.ok => IF s \in Applied THEN InForce(s) ELSE Lifted(s)
                         /\ k.op = "apply" /\ ~k.ok => s \notin Applied
                         /\ k.op = "recover" => IF k.ok THEN s \notin Applied /\ Lifted(s) ELSE s \in Applied
                         /\ k.op = "delete" /\ k.ok => s \notin Scenarios /\ (k.was => Lifted(s))
    BY DEF SerialFaultSettles
  <2>1. call[c].op # "plan" => Settled(c)
    BY DEF IInv, Alone, AloneOK, Active, Achieved
  <2>2. rec[call[c].id] = Deleted => call[c].id \notin Scenarios
    BY DEF Scenarios
  <2> QED BY <2>1, <2>2 DEF Settled
<1> QED BY <1>1, Invariance, PTL

(***************************************************************************)
(* A plan that succeeds and overlapped nothing leaves no scenario on a     *)
(* target it removed (PruneForRemovedTargets), for any number of them.     *)
(***************************************************************************)
THEOREM PlanPrunesScenarios == Spec => []NoFaultOnRemovedTarget
<1>1. IInv => NoFaultOnRemovedTarget
  BY DEF IInv, Alone, AloneOK, Active, Achieved, Pruned, Left, NoFaultOnRemovedTarget
<1> QED BY <1>1, Invariance, PTL

=============================================================================
