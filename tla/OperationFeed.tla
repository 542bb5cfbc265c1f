--------------------------- MODULE OperationFeed ---------------------------
(***************************************************************************)
(* The operations of one lab as clients follow them: the executor          *)
(* (operation/operation.go), which stores and publishes the document of an *)
(* operation after every change, the bounded channel of every subscriber,  *)
(* and the WebSocket handler that sends a snapshot and then the frames     *)
(* (server/operations_ws.go).                                              *)
(*                                                                         *)
(* An operation runs in a goroutine of its own.  To persist it is two      *)
(* steps, the statement on the database and the publication under subMu,   *)
(* between which other operations and handlers run.                        *)
(***************************************************************************)
EXTENDS Integers, Sequences, FiniteSets

CONSTANTS
  Ops,    \* operations of the lab
  Subs,   \* WebSocket connections
  Weight, \* the weights of each operation's steps, a sequence
  Full,   \* 100 percent
  Buffer, \* frames a subscriber's channel holds (8 in the code)
  Deletes, \* the operations whose last step deletes the lab
  MaxAttach, \* bound: subscriptions ever made
  None    \* no document

ASSUME FeedAssumptions ==
  /\ Weight \in [Ops -> Seq(Nat \ {0})]
  /\ \A o \in Ops : Weight[o] # <<>>
  /\ Full \in Nat \ {0}
  /\ Buffer \in Nat \ {0}
  /\ Deletes \subseteq Ops
  /\ MaxAttach \in Nat

VARIABLES
  op,    \* the operations: where their goroutine is, and their document
  store, \* table operations
  last,  \* frames published so far
  sub,   \* the connections: their channel and what they have written
  attached \* subscriptions made so far

vars == <<op, store, last, sub, attached>>

----------------------------------------------------------------------------
(* State *)

\* The weight of the first i steps of an operation, and the percentage it makes.
Done(o) ==
  LET sum[i \in 0 .. Len(Weight[o])] == IF i = 0 THEN 0 ELSE sum[i - 1] + Weight[o][i] IN sum
Percent(o, i) == (Done(o)[i] * Full) \div Done(o)[Len(Weight[o])]

Final == {"Succeeded", "Failed"}
Doc   == [state : {"Queued", "Running"} \cup Final, done : Nat, active : BOOLEAN,
          broken : BOOLEAN, progress : 0 .. Full]
NewDoc == [state |-> "Queued", done |-> 0, active |-> FALSE, broken |-> FALSE, progress |-> 0]
Frame == [n : Nat, id : Ops, doc : Doc]

Detached == [pc |-> "off", queue |-> <<>>, seen |-> -1, view |-> [o \in Ops |-> None], lost |-> {}]

TypeOK ==
  /\ op \in [Ops -> [pc : {"none", "store", "publish", "run", "over"}, doc : Doc]]
  /\ store \in [Ops -> Doc \cup {None}]
  /\ last \in Nat
  /\ \A s \in Subs :
       /\ sub[s].pc \in {"off", "list", "live"}
       /\ sub[s].queue \in Seq(Frame) /\ Len(sub[s].queue) <= Buffer
       /\ sub[s].seen \in Int
       /\ sub[s].view \in [Ops -> Doc \cup {None}]
       /\ sub[s].lost \subseteq Ops
  /\ attached \in 0 .. MaxAttach

Init ==
  /\ op = [o \in Ops |-> [pc |-> "none", doc |-> NewDoc]]
  /\ store = [o \in Ops |-> None]
  /\ last = 0
  /\ sub = [s \in Subs |-> Detached]
  /\ attached = 0

----------------------------------------------------------------------------
(* The channel of a subscriber *)

\* Mutant: the new frame takes the place of the oldest, ahead of the others.
PushInPlace(q, f) == IF Len(q) < Buffer THEN Append(q, f) ELSE <<f>> \o Tail(q)

\* Mutant: a full channel drops the new frame.
PushDropsNew(q, f) == IF Len(q) < Buffer THEN Append(q, f) ELSE q

\* When the buffer is full the oldest frame is dropped in favour of the new one.
Push(q, f) == Append(IF Len(q) < Buffer THEN q ELSE Tail(q), f)

\* Operations whose newest frame is gone from the channel unread, since the snapshot.
Lost(x, f) ==
  LET older == IF Len(x.queue) < Buffer THEN {} ELSE {Head(x.queue).id}
      waiting == {Push(x.queue, f)[k].id : k \in 1 .. Len(Push(x.queue, f))}
  IN (x.lost \cup older) \ waiting

----------------------------------------------------------------------------
(* The executor *)

\* Create: the row is inserted, then the operation is published.
Create(o) ==
  /\ op[o].pc = "none"
  /\ store' = [store EXCEPT ![o] = NewDoc]
  /\ op' = [op EXCEPT ![o].pc = "publish"]
  /\ UNCHANGED <<last, sub, attached>>

\* Mutant: only the final document is stored.
UpdateFinal(o) ==
  /\ op[o].pc = "store"
  /\ store' = IF store[o] = None \/ op[o].doc.state \notin Final THEN store ELSE [store EXCEPT ![o] = op[o].doc]
  /\ op' = [op EXCEPT ![o].pc = "publish"]
  /\ UNCHANGED <<last, sub, attached>>

\* persist: UPDATE ... WHERE id = ?; a row that is gone is only logged.
UpdateOperation(o) ==
  /\ op[o].pc = "store"
  /\ store' = IF store[o] = None THEN store ELSE [store EXCEPT ![o] = op[o].doc]
  /\ op' = [op EXCEPT ![o].pc = "publish"]
  /\ UNCHANGED <<last, sub, attached>>

\* persist goes on, also when the row is gone: every subscriber gets a copy.
Publish(o) ==
  /\ op[o].pc = "publish"
  /\ LET f == [n |-> last + 1, id |-> o, doc |-> op[o].doc]
     IN sub' = [s \in Subs |->
          IF sub[s].pc = "off" THEN sub[s]
          ELSE [sub[s] EXCEPT !.queue = Push(@, f), !.lost = Lost(sub[s], f)]]
  /\ last' = last + 1
  /\ op' = [op EXCEPT ![o].pc = IF op[o].doc.state \in Final THEN "over" ELSE "run"]
  /\ UNCHANGED <<store, attached>>

\* The goroutine changes the document and persists it.
Change(o, d) ==
  /\ op[o].pc = "run"
  /\ op' = [op EXCEPT ![o] = [pc |-> "store", doc |-> d]]
  /\ UNCHANGED <<store, last, sub, attached>>

Run(o) ==
  /\ op[o].doc.state = "Queued"
  /\ Change(o, [op[o].doc EXCEPT !.state = "Running"])

StartStep(o) ==
  /\ LET d == op[o].doc
     IN d.state = "Running" /\ ~d.active /\ ~d.broken /\ d.done < Len(Weight[o])
  /\ Change(o, [op[o].doc EXCEPT !.active = TRUE])

\* Mutant: a report sets the progress, also backwards.
ReportAny(o) ==
  /\ op[o].doc.active
  /\ \E p \in Percent(o, op[o].doc.done) .. Percent(o, op[o].doc.done + 1) :
       p # op[o].doc.progress /\ Change(o, [op[o].doc EXCEPT !.progress = p])

\* Report: the step's own fraction, which only moves the progress forward.
Report(o) ==
  /\ op[o].doc.active
  /\ \E p \in Percent(o, op[o].doc.done) .. Percent(o, op[o].doc.done + 1) :
       p > op[o].doc.progress /\ Change(o, [op[o].doc EXCEPT !.progress = p])

\* The last step of a lab's deletion takes the rows of its operations along.
StepSucceeds(o) ==
  /\ op[o].doc.active
  /\ LET i == op[o].doc.done + 1
     IN /\ op[o].pc = "run"
        /\ op' = [op EXCEPT ![o] = [pc |-> "store",
                    doc |-> [@.doc EXCEPT !.active = FALSE, !.done = i, !.progress = Percent(o, i)]]]
        /\ store' = IF o \in Deletes /\ i = Len(Weight[o]) THEN [p \in Ops |-> None] ELSE store
  /\ UNCHANGED <<last, sub, attached>>

StepFails(o) ==
  /\ op[o].doc.active
  /\ Change(o, [op[o].doc EXCEPT !.active = FALSE, !.broken = TRUE])

\* The final state, after onDone; the steps are over or one has failed.
Finish(o) ==
  /\ LET d == op[o].doc
     IN d.state = "Running" /\ ~d.active /\ (d.broken \/ d.done = Len(Weight[o]))
  /\ Change(o, IF op[o].doc.broken THEN [op[o].doc EXCEPT !.state = "Failed"]
               ELSE [op[o].doc EXCEPT !.state = "Succeeded", !.progress = Full])

----------------------------------------------------------------------------
(* The WebSocket handler *)

Subscribe(s) ==
  /\ sub[s].pc = "off"
  /\ attached < MaxAttach
  /\ sub' = [sub EXCEPT ![s] = [Detached EXCEPT !.pc = "list", !.seen = last]]
  /\ attached' = attached + 1
  /\ UNCHANGED <<op, store, last>>

\* ListOperations: what the client is shown first.
Snapshot(s) ==
  /\ sub[s].pc = "list"
  /\ sub' = [sub EXCEPT ![s] = [@ EXCEPT !.pc = "live", !.view = store, !.lost = {}]]
  /\ UNCHANGED <<op, store, last, attached>>

\* The next frame of the channel is written to the client.
Receive(s) ==
  /\ sub[s].pc = "live" /\ sub[s].queue # <<>>
  /\ LET x == sub[s]
         f == Head(x.queue)
     IN sub' = [sub EXCEPT ![s] = [x EXCEPT !.queue = Tail(x.queue), !.seen = f.n,
                                            !.view = [x.view EXCEPT ![f.id] = f.doc]]]
  /\ UNCHANGED <<op, store, last, attached>>

\* The client disconnects, or the snapshot cannot be read or written.
Leave(s) ==
  /\ sub[s].pc # "off"
  /\ sub' = [sub EXCEPT ![s] = Detached]
  /\ UNCHANGED <<op, store, last, attached>>

----------------------------------------------------------------------------

Goroutine(o) ==
  \/ Create(o) \/ UpdateOperation(o) \/ Publish(o) \/ Run(o) \/ StartStep(o)
  \/ Report(o) \/ StepSucceeds(o) \/ StepFails(o) \/ Finish(o)

Connection(s) == Snapshot(s) \/ Receive(s)

Next ==
  \/ \E o \in Ops : Goroutine(o)
  \/ \E s \in Subs : Subscribe(s) \/ Connection(s) \/ Leave(s)

Safety == Init /\ [][Next]_vars

(***************************************************************************)
(* A connection whose client reads goes on; a step of an operation may     *)
(* take as long as it likes.                                               *)
(***************************************************************************)
Spec == Safety /\ \A s \in Subs : WF_vars(Connection(s))

----------------------------------------------------------------------------
(* Properties *)

Latest == INSTANCE LatestFeed WITH seen <- [s \in Subs |-> sub[s].seen]

(***************************************************************************)
(* The channels of publish and the loop of operationsHandler implement     *)
(* LatestFeed: whatever is dropped, frames arrive in order.                *)
(***************************************************************************)
ImplementsLatestFeed == Latest!Safety

(***************************************************************************)
(* A client that stays connected catches up with the newest frame.         *)
(***************************************************************************)
ClientCatchesUp == Latest!CatchesUp

(***************************************************************************)
(* What a client is shown is current: once it has read its channel, the    *)
(* document it has of an operation is the stored one, whenever the         *)
(* subscription fell between the statement and the publication, unless the *)
(* operation's newest frame was dropped for those of another operation.    *)
(***************************************************************************)
ShownIsCurrent ==
  \A s \in Subs : sub[s].pc = "live" /\ sub[s].queue = <<>> =>
    \A o \in Ops : op[o].pc \in {"run", "over"} /\ store[o] # None /\ o \notin sub[s].lost
      => sub[s].view[o] = op[o].doc

(***************************************************************************)
(* "Reported progress only ever moves the bar forward" (Report), through   *)
(* the weights of the steps too, an operation that succeeds ends at 100    *)
(* percent, and a final document never changes.                            *)
(***************************************************************************)
ProgressMovesForward ==
  [][\A o \in Ops :
       /\ op'[o].doc.progress >= op[o].doc.progress
       /\ op'[o].doc.state = "Succeeded" => op'[o].doc.progress = Full
       /\ op[o].doc.state \in Final => op'[o].doc = op[o].doc]_vars

=============================================================================
