------------------------ MODULE CaptureSessionProofs ------------------------
(***************************************************************************)
(* Proofs about CaptureSession, for any handlers and viewers, any size of  *)
(* the viewers' channels and any number of rows and batches.               *)
(*                                                                         *)
(* TypeOK is inductive.  RunningIsCaptured and StopReportsOutcome need     *)
(* Lifecycle: what the reader's place says about the record and the        *)
(* handler that creates the session.  FeedIsComplete needs Feed: the       *)
(* events that wait in a channel follow on one another and on what the     *)
(* client has, up to the batch the push loop sends next.                   *)
(***************************************************************************)
EXTENDS CaptureSession, TLAPS

----------------------------------------------------------------------------
(* The inductive invariant *)

Lifecycle ==
  /\ create = "idle" => row = "none" /\ \A h \in Handlers : handler[h].at = "idle"
  /\ reader.at # "off" => create = "done"
  /\ create # "done" => ~ls.mapped /\ pusher.at = "off"
  /\ \A v \in Viewers : viewer[v].sub => create = "done"
  /\ reader.at \in {"finish", "tell", "over"} => row \in Final \cup {"deleted"}
  /\ reader.at \in {"tell", "over"} => ls.state # ""
  /\ ls.done => reader.at = "over"

\* Rows from a on follow on what the client has or gets from the first k events.
Covered(q, n, a, k) ==
  a <= n \/ \E j \in 1 .. k : q[j].type = "packets" /\ a <= q[j].rows[2]

\* Each batch in the channel follows on what comes before it.
InOrder(q, n) ==
  \A k \in 1 .. Len(q) : q[k].type = "packets" => Covered(q, n, q[k].rows[1], k - 1)

Within(q, n, t) ==
  n <= t /\ \A k \in 1 .. Len(q) : q[k].type = "packets" => q[k].rows[2] <= t

EndTold(q, ended) == ended \/ \E k \in 1 .. Len(q) : q[k].type = "end"

\* The first row the push loop has not yet put into v's channel.
From(v) == IF pusher.at = "send" /\ v \in pusher.to THEN pusher.rows[1] ELSE ls.pushed

ViewerFeed(v) ==
  LET x == viewer[v]
  IN x.sub /\ ~x.dropped =>
       /\ ~x.gap
       /\ InOrder(x.queue, x.next)
       /\ Within(x.queue, x.next, ls.total)
       /\ Covered(x.queue, x.next, From(v), Len(x.queue))
       /\ reader.at = "over" \/ (reader.at = "tell" /\ v \notin reader.to)
            => EndTold(x.queue, x.ended)

PushBounds ==
  /\ pusher.at = "send" => pusher.rows[1] <= ls.pushed /\ pusher.rows[2] = ls.pushed
  /\ pusher.at = "over" => ls.done /\ ls.pushed = ls.total

Feed == PushBounds /\ \A v \in Viewers : ViewerFeed(v)

IInv == TypeOK /\ Lifecycle /\ RunningIsCaptured /\ StopReportsOutcome /\ Feed

----------------------------------------------------------------------------
(* TypeOK *)

\* The counters of a live session are rows of the stream.
LEMMA LiveCounts ==
  ASSUME ls \in Live
  PROVE  /\ MaxRows \in Nat /\ 0 \in 0 .. MaxRows
         /\ ls.total \in 0 .. MaxRows /\ ls.total \in Nat
         /\ ls.pushed \in 0 .. MaxRows /\ ls.pushed \in Nat
<1>1. MaxRows \in Nat
  BY CaptureAssumptions DEF CaptureAssumptions
<1>2. ls.total \in 0 .. MaxRows /\ ls.pushed \in 0 .. MaxRows
  BY DEF Live
<1> QED BY <1>1, <1>2

\* One event is put at the end of a channel with room, or the viewer is marked.
LEMMA OfferedType ==
  ASSUME TypeOK, NEW v \in Viewers, NEW ev \in Event
  PROVE  /\ Offered(v, ev) \in [Viewers -> Viewer]
         /\ \A w \in Viewers : /\ Len(Offered(v, ev)[w].queue) <= subscriberBuffer
                               /\ Offered(v, ev)[w].sub = viewer[w].sub
                               /\ Offered(v, ev)[w].chan = viewer[w].chan
<1> DEFINE x == viewer[v]
           y == [x EXCEPT !.queue = Append(@, ev)]
           z == [x EXCEPT !.dropped = TRUE]
<1>1. x \in Viewer /\ x.queue \in Seq(Event)
  BY DEF TypeOK, Viewer
<1>2. Append(x.queue, ev) \in Seq(Event) /\ Len(Append(x.queue, ev)) = Len(x.queue) + 1 /\ Len(x.queue) \in Nat
  BY <1>1
<1>3. y \in Viewer /\ y.queue = Append(x.queue, ev) /\ y.sub = x.sub /\ y.chan = x.chan
  BY <1>1, <1>2 DEF Viewer
<1>4. z \in Viewer /\ z.queue = x.queue /\ z.sub = x.sub /\ z.chan = x.chan
  BY <1>1 DEF Viewer
<1>5. viewer \in [Viewers -> Viewer] /\ \A w \in Viewers : Len(viewer[w].queue) <= subscriberBuffer
  BY DEF TypeOK
<1>6. CASE Len(x.queue) < subscriberBuffer
  <2>1. Offered(v, ev) = [viewer EXCEPT ![v] = y]
    BY <1>6 DEF Offered
  <2>2. Len(y.queue) <= subscriberBuffer
    BY <1>2, <1>3, <1>6, CaptureAssumptions DEF CaptureAssumptions
  <2> HIDE DEF y
  <2> QED BY <1>3, <1>5, <2>1, <2>2
<1>7. CASE ~(Len(x.queue) < subscriberBuffer)
  <2>1. Offered(v, ev) = [viewer EXCEPT ![v] = z]
    BY <1>7 DEF Offered
  <2> HIDE DEF z
  <2> QED BY <1>4, <1>5, <2>1
<1> QED BY <1>6, <1>7

\* A viewer that is not there has an empty channel.
LEMMA NoViewerType ==
  /\ NoViewer \in Viewer /\ NoViewer.queue = <<>> /\ Len(NoViewer.queue) = 0
  /\ NoViewer.sub = FALSE /\ NoViewer.gap = FALSE /\ NoViewer.dropped = FALSE
  BY CaptureAssumptions DEF CaptureAssumptions, NoViewer, Viewer

\* The initial state has the types of the model.
LEMMA InitType == Init => TypeOK
<1> SUFFICES ASSUME Init PROVE TypeOK
  OBVIOUS
<1>1. NoLive \in Live /\ NoReader \in Reader /\ NoPusher \in Pusher /\ NoHandler \in Handler
  BY CaptureAssumptions DEF CaptureAssumptions, NoLive, Live, NoReader, Reader, NoPusher, Pusher, Batch, NoHandler, Handler, Final
<1>2. NoViewer \in Viewer /\ Len(NoViewer.queue) = 0 /\ ~NoViewer.sub
  BY NoViewerType
<1>3. NoLive.pushed <= NoLive.total
  BY DEF NoLive
<1>4. row \in Rows /\ file \in BOOLEAN /\ create \in {"idle", "file", "exec", "done"}
  BY DEF Init, Rows
<1>5. batches \in 0 .. MaxBatches /\ subscriberBuffer \in Nat
  BY CaptureAssumptions DEF Init, CaptureAssumptions
<1> QED BY <1>1, <1>2, <1>3, <1>4, <1>5 DEF Init, TypeOK

\* A restart leaves the types as they are.
LEMMA RestartType == TypeOK /\ Restart => TypeOK'
<1> SUFFICES ASSUME TypeOK, Restart PROVE TypeOK'
  OBVIOUS
<1>1. NoLive \in Live /\ NoReader \in Reader /\ NoPusher \in Pusher /\ NoHandler \in Handler
  BY CaptureAssumptions DEF CaptureAssumptions, NoLive, Live, NoReader, Reader, NoPusher, Pusher, Batch, NoHandler, Handler, Final
<1>2. NoViewer \in Viewer /\ Len(NoViewer.queue) = 0 /\ ~NoViewer.sub
  BY NoViewerType
<1>3. NoLive.pushed <= NoLive.total
  BY DEF NoLive
<1>4. row' \in Rows /\ create' \in {"idle", "file", "exec", "done"}
  BY DEF Restart, FailInterrupted, TypeOK, Rows, Final
<1> QED BY <1>1, <1>2, <1>3, <1>4, CaptureAssumptions DEF Restart, TypeOK, CaptureAssumptions

\* Creating the session and sweeping its recording keep the types.
LEMMA CreationType == TypeOK /\ (Creation \/ SweepExpired) => TypeOK'
<1> SUFFICES ASSUME TypeOK, Creation \/ SweepExpired PROVE TypeOK'
  OBVIOUS
<1>1. CASE CreateCaptureSession \/ CreateFile \/ StartFails \/ SweepExpired
  BY <1>1 DEF CreateCaptureSession, CreateFile, StartFails, SweepExpired, TypeOK, Rows, Final
<1>2. CASE StartSession
  <2>1. ls' \in Live /\ ls'.pushed <= ls'.total
    <3>1. ls' = [mapped |-> TRUE, state |-> "", stopped |-> FALSE, done |-> FALSE,
                 total |-> 0, pushed |-> 0, broken |-> FALSE]
      BY <1>2 DEF StartSession, NoLive
    <3>2. 0 \in 0 .. MaxRows
      BY CaptureAssumptions DEF CaptureAssumptions
    <3>3. "" \in {""} \cup Final
      OBVIOUS
    <3>4. ls' \in Live
      BY <3>1, <3>2, <3>3 DEF Live
    <3>5. ls'.pushed = 0 /\ ls'.total = 0
      BY <3>1
    <3> QED BY <3>4, <3>5
  <2>2. reader' \in Reader /\ pusher' \in Pusher
    BY <1>2, CaptureAssumptions DEF CaptureAssumptions, StartSession, NoReader, Reader, NoPusher, Pusher, Batch, Final
  <2> QED BY <1>2, <2>1, <2>2 DEF StartSession, TypeOK
<1> QED BY <1>1, <1>2 DEF Creation

\* The reader keeps the types.
LEMMA RunType == TypeOK /\ (Append1 \/ Run) => TypeOK'
<1> SUFFICES ASSUME TypeOK, Append1 \/ Run PROVE TypeOK'
  OBVIOUS
<1>0. ls \in Live /\ reader \in Reader /\ Subscribed \in SUBSET Viewers
  BY DEF TypeOK, Subscribed
<1>1. CASE Append1
  <2>1. ls' \in Live /\ ls'.pushed <= ls'.total
    <3>1. ls.total \in 0 .. MaxRows /\ ls.pushed \in 0 .. MaxRows /\ ls.pushed <= ls.total /\ ls.total < MaxRows
      BY <1>0, <1>1 DEF Append1, Live, TypeOK
    <3>2. ls.total + 1 \in 0 .. MaxRows /\ ls.pushed <= ls.total + 1
      BY <3>1, CaptureAssumptions DEF CaptureAssumptions
    <3>3. ls' = [ls EXCEPT !.total = ls.total + 1]
      BY <1>1 DEF Append1
    <3> QED BY <1>0, <3>2, <3>3 DEF Live
  <2> QED BY <1>1, <2>1 DEF Append1, TypeOK
<1>2. CASE StreamEnds
  <2>1. ls' \in Live /\ ls'.pushed <= ls'.total /\ reader' \in Reader
    BY <1>0, <1>2 DEF StreamEnds, Live, Reader, TypeOK
  <2> QED BY <1>2, <2>1 DEF StreamEnds, TypeOK
<1>3. CASE ReadResult
  <2>1. reader' \in Reader
    BY <1>0, <1>3 DEF ReadResult, Reader, Final
  <2> QED BY <1>3, <2>1 DEF ReadResult, TypeOK
<1>4. CASE CaptureEnded
  <2>1. reader' \in Reader /\ row' \in Rows
    BY <1>0, <1>4 DEF CaptureEnded, Reader, Rows, TypeOK
  <2> QED BY <1>4, <2>1 DEF CaptureEnded, TypeOK
<1>5. CASE FinishSession
  <2>1. reader' \in Reader /\ ls' \in Live /\ ls'.pushed <= ls'.total
    BY <1>0, <1>5 DEF FinishSession, Reader, Live, TypeOK
  <2> QED BY <1>5, <2>1 DEF FinishSession, TypeOK
<1>6. CASE CloseDone
  <2>1. reader' \in Reader /\ ls' \in Live /\ ls'.pushed <= ls'.total
    BY <1>0, <1>6 DEF CloseDone, Reader, Live, TypeOK
  <2> QED BY <1>6, <2>1 DEF CloseDone, TypeOK
<1>7. ASSUME NEW v \in Viewers, TellEnd(v) PROVE TypeOK'
  <2>1. [type |-> "end", rows |-> <<0, 0>>] \in Event
    BY CaptureAssumptions DEF CaptureAssumptions, Event, Batch
  <2>2. reader' \in Reader
    BY <1>0, <1>7 DEF TellEnd, Reader
  <2> QED BY <1>7, <2>1, <2>2, OfferedType DEF TellEnd, TypeOK
<1> QED BY <1>1, <1>2, <1>3, <1>4, <1>5, <1>6, <1>7 DEF Run

\* The push loop keeps the types.
LEMMA PushType == TypeOK /\ PushLoop => TypeOK'
<1> SUFFICES ASSUME TypeOK, PushLoop PROVE TypeOK'
  OBVIOUS
<1>0. ls \in Live /\ pusher \in Pusher /\ Subscribed \in SUBSET Viewers
  BY DEF TypeOK, Subscribed
<1>1. CASE Flush
  <2>1. pusher' \in Pusher
    <3>1. ls.pushed \in 0 .. MaxRows /\ ls.total \in 0 .. MaxRows /\ 0 \in 0 .. MaxRows
      BY <1>0, LiveCounts
    <3>2. <<ls.pushed, ls.total>> \in Batch /\ <<0, 0>> \in Batch
      BY <3>1 DEF Batch
    <3>3. [at |-> "send", rows |-> <<ls.pushed, ls.total>>, to |-> Subscribed] \in Pusher
      BY <1>0, <3>2 DEF Pusher
    <3>4. [NoPusher EXCEPT !.at = "over"] \in Pusher
      BY <3>2 DEF Pusher, NoPusher
    <3> QED BY <1>1, <3>3, <3>4 DEF Flush, Pending
  <2>2. ls' \in Live /\ ls'.pushed <= ls'.total
    <3>1. ls.total \in 0 .. MaxRows /\ ls.pushed <= ls.total /\ ls.total <= ls.total
      BY <1>0, LiveCounts DEF TypeOK
    <3>2. ls' = [ls EXCEPT !.pushed = ls.total] \/ ls' = ls
      BY <1>1 DEF Flush
    <3>3. [ls EXCEPT !.pushed = ls.total] \in Live
      BY <1>0, <3>1 DEF Live
    <3>4. [ls EXCEPT !.pushed = ls.total].pushed = ls.total /\ [ls EXCEPT !.pushed = ls.total].total = ls.total
      BY <1>0 DEF Live
    <3> QED BY <1>0, <3>1, <3>2, <3>3, <3>4
  <2>3. batches' \in 0 .. MaxBatches
    BY <1>1, CaptureAssumptions DEF CaptureAssumptions, Flush, TypeOK
  <2> QED BY <1>1, <2>1, <2>2, <2>3 DEF Flush, TypeOK
<1>2. CASE BatchSent
  <2>1. pusher' \in Pusher
    BY <1>2, CaptureAssumptions DEF CaptureAssumptions, BatchSent, NoPusher, Pusher, Batch
  <2> QED BY <1>2, <2>1 DEF BatchSent, TypeOK
<1>3. ASSUME NEW v \in Viewers, SendBatch(v) PROVE TypeOK'
  <2>1. [type |-> "packets", rows |-> pusher.rows] \in Event
    BY <1>0 DEF Event, Pusher
  <2>2. pusher' \in Pusher
    BY <1>0, <1>3 DEF SendBatch, Pusher
  <2> QED BY <1>3, <2>1, <2>2, OfferedType DEF SendBatch, TypeOK
<1> QED BY <1>1, <1>2, <1>3 DEF PushLoop

\* What a viewer does keeps the types.
LEMMA ViewerType ==
  ASSUME TypeOK, NEW v \in Viewers, Subscribe(v) \/ Receive(v) \/ Cancel(v)
  PROVE  TypeOK'
<1>0. ls \in Live /\ viewer[v] \in Viewer /\ viewer \in [Viewers -> Viewer]
  BY DEF TypeOK
<1>1. CASE Subscribe(v) \/ Cancel(v)
  <2>1. /\ viewer' = [viewer EXCEPT ![v] = viewer'[v]]
        /\ viewer'[v] \in Viewer /\ Len(viewer'[v].queue) = 0
        /\ viewer'[v].sub => viewer'[v].chan = "open"
    <3>1. ls.total \in 0 .. MaxRows
      BY <1>0, LiveCounts
    <3>2. CASE Cancel(v)
      <4> DEFINE y == [NoViewer EXCEPT !.chan = "closed"]
      <4>1. y \in Viewer /\ y.sub = NoViewer.sub /\ y.queue = NoViewer.queue
        BY NoViewerType DEF Viewer
      <4>2. viewer' = [viewer EXCEPT ![v] = y]
        BY <3>2 DEF Cancel
      <4> HIDE DEF y
      <4> QED BY <1>0, <4>1, <4>2, NoViewerType
    <3>3. CASE Subscribe(v)
      <4> DEFINE open == ls.state = ""
                 y == [NoViewer EXCEPT !.chan = IF open THEN "open" ELSE "closed",
                                       !.sub = open, !.next = ls.total, !.ended = (ls.state # "")]
      <4>1. viewer' = [viewer EXCEPT ![v] = y]
        BY <3>3 DEF Subscribe
      <4>2. open \in BOOLEAN /\ (ls.state # "") \in BOOLEAN
        OBVIOUS
      <4>3. y \in Viewer /\ y.queue = NoViewer.queue
        BY <3>1, <4>2, NoViewerType DEF Viewer
      <4>4. y.sub = open /\ (open => y.chan = "open")
        BY NoViewerType DEF Viewer
      <4> HIDE DEF y
      <4> QED BY <1>0, <4>1, <4>3, <4>4, NoViewerType
    <3> QED BY <1>1, <3>2, <3>3
  <2> QED BY <1>0, <1>1, <2>1, CaptureAssumptions DEF Subscribe, Cancel, TypeOK, CaptureAssumptions
<1>2. CASE Receive(v)
  <2> DEFINE x == viewer[v]
             ev == Head(x.queue)
             y == viewer'[v]
  <2>1. x.queue \in Seq(Event) /\ x.queue # <<>>
    BY <1>0, <1>2 DEF Receive, Viewer
  <2>2. ev \in Event /\ Tail(x.queue) \in Seq(Event) /\ Len(Tail(x.queue)) = Len(x.queue) - 1 /\ Len(x.queue) \in Nat
    BY <2>1
  <2>3. y \in Viewer /\ y.queue = Tail(x.queue) /\ y.sub = x.sub /\ y.chan = x.chan
    BY <1>0, <1>2, <2>2 DEF Receive, Viewer, Event, Batch
  <2>4. viewer' = [viewer EXCEPT ![v] = y]
    BY <1>0, <1>2 DEF Receive
  <2>5. Len(y.queue) <= subscriberBuffer
    BY <2>2, <2>3, CaptureAssumptions DEF CaptureAssumptions, TypeOK
  <2> HIDE DEF y
  <2> QED BY <1>0, <1>2, <2>3, <2>4, <2>5 DEF Receive, TypeOK
<1> QED BY <1>1, <1>2

\* What a stop or delete request does keeps the types.
LEMMA HandlerType ==
  ASSUME TypeOK, NEW h \in Handlers,
         StopCaptureSession(h) \/ DeleteCaptureSession(h) \/ HandlerStep(h)
  PROVE  TypeOK'
<1>0. ls \in Live /\ handler[h] \in Handler /\ handler \in [Handlers -> Handler]
  BY DEF TypeOK
<1>1. handler' \in [Handlers -> Handler]
  <2>1. NoHandler \in Handler /\ [NoHandler EXCEPT !.at = "mark"] \in Handler
        /\ [NoHandler EXCEPT !.at = "mark", !.op = "delete"] \in Handler
    BY DEF NoHandler, Handler
  <2>2. CASE StopCaptureSession(h) \/ DeleteCaptureSession(h) \/ Reply(h)
    BY <1>0, <2>1, <2>2 DEF StopCaptureSession, DeleteCaptureSession, Reply
  <2>3. CASE MarkStopped(h) \/ DropSession(h) \/ RemoveRecording(h) \/ EraseSession(h)
    <3>1. PICK a \in {"wait", "drop", "done", "remove", "erase"} : handler' = [handler EXCEPT ![h].at = a]
      BY <2>3 DEF MarkStopped, DropSession, RemoveRecording, EraseSession, AfterStop
    <3>2. [handler[h] EXCEPT !.at = a] \in Handler
      BY <1>0, <3>1 DEF Handler
    <3> QED BY <1>0, <3>1, <3>2
  <2>4. CASE StopWaits(h)
    <3>1. [handler[h] EXCEPT !.at = AfterStop(h), !.waited = TRUE] \in Handler
      BY <1>0 DEF AfterStop, Handler
    <3> QED BY <1>0, <2>4, <3>1 DEF StopWaits
  <2> QED BY <2>2, <2>3, <2>4 DEF HandlerStep
<1>2. CASE StopCaptureSession(h) \/ DeleteCaptureSession(h) \/ StopWaits(h) \/ RemoveRecording(h)
           \/ EraseSession(h) \/ Reply(h)
  BY <1>1, <1>2 DEF StopCaptureSession, DeleteCaptureSession, StopWaits, RemoveRecording, EraseSession, Reply, TypeOK, Rows
<1>3. CASE MarkStopped(h)
  <2>1. ls' \in Live /\ ls'.pushed <= ls'.total
    BY <1>0, <1>3 DEF MarkStopped, Live, TypeOK
  <2> QED BY <1>1, <1>3, <2>1 DEF MarkStopped, TypeOK
<1>4. CASE DropSession(h)
  <2>1. ls' \in Live /\ ls'.pushed <= ls'.total
    BY <1>0, <1>4 DEF DropSession, Live, TypeOK
  <2>2. ASSUME NEW w \in Viewers
        PROVE  /\ viewer'[w] \in Viewer /\ viewer'[w].queue = viewer[w].queue
               /\ viewer'[w].sub => viewer'[w].chan = "open"
    BY <1>4 DEF DropSession, TypeOK, Viewer
  <2>3. viewer' \in [Viewers -> Viewer]
    BY <1>4, <2>2 DEF DropSession
  <2> QED BY <1>1, <1>4, <2>1, <2>2, <2>3 DEF DropSession, TypeOK
<1> QED BY <1>2, <1>3, <1>4 DEF HandlerStep

\* A step without a change leaves the types as they are.
LEMMA StutterType == TypeOK /\ UNCHANGED vars => TypeOK'
  BY DEF TypeOK, vars

\* No step of the specification leaves the types.
LEMMA NextType == TypeOK /\ [Next]_vars => TypeOK'
<1> SUFFICES ASSUME TypeOK, [Next]_vars PROVE TypeOK'
  OBVIOUS
<1>1. CASE SendPanics \/ ControllerDies
  BY <1>1, RestartType DEF SendPanics, ControllerDies
<1>2. CASE UNCHANGED vars
  BY <1>2, StutterType
<1> QED BY <1>1, <1>2, CreationType, RunType, PushType, ViewerType, HandlerType DEF Next

----------------------------------------------------------------------------
(* The life of a session *)

Life == Lifecycle /\ RunningIsCaptured /\ StopReportsOutcome

\* Nothing has happened in the initial state.
LEMMA InitLife == Init => Life
<1> SUFFICES ASSUME Init PROVE Life
  OBVIOUS
<1>1. row = "none" /\ create = "idle" /\ reader.at = "off"
  BY DEF Init, NoReader
<1>2. ~ls.mapped /\ ~ls.done /\ pusher.at = "off"
  BY DEF Init, NoLive, NoPusher
<1>3. \A v \in Viewers : ~viewer[v].sub
  BY DEF Init, NoViewer
<1>4. \A h \in Handlers : handler[h].at = "idle" /\ ~handler[h].waited
  BY DEF Init, NoHandler
<1> QED BY <1>1, <1>2, <1>3, <1>4 DEF Life, Lifecycle, RunningIsCaptured, StopReportsOutcome

\* After a restart nothing runs, and no record says Running.
LEMMA RestartLife == TypeOK /\ Restart => Life'
<1> SUFFICES ASSUME TypeOK, Restart PROVE Life'
  OBVIOUS
<1>1. row' # "Running" /\ (create' = "idle" => row' = "none") /\ reader'.at = "off"
  BY DEF Restart, FailInterrupted, NoReader
<1>2. ~ls'.mapped /\ ~ls'.done /\ pusher'.at = "off"
  BY DEF Restart, NoLive, NoPusher
<1>3. \A v \in Viewers : ~viewer'[v].sub
  BY DEF Restart, NoViewer
<1>4. \A h \in Handlers : handler'[h].at = "idle" /\ ~handler'[h].waited
  BY DEF Restart, NoHandler
<1> QED BY <1>1, <1>2, <1>3, <1>4 DEF Life, Lifecycle, RunningIsCaptured, StopReportsOutcome

\* An offer changes neither who is subscribed nor what the client has.
LEMMA OfferedKeeps ==
  ASSUME TypeOK, NEW v \in Viewers, NEW ev, NEW w \in Viewers
  PROVE  Offered(v, ev)[w].sub = viewer[w].sub
<1>1. viewer[v] \in Viewer /\ viewer \in [Viewers -> Viewer]
  BY DEF TypeOK
<1>2. DOMAIN viewer[v] = {"chan", "sub", "queue", "next", "ended", "dropped", "gap"}
  BY <1>1 DEF Viewer
<1> QED BY <1>1, <1>2 DEF Offered

\* The creation of a session.
LEMMA CreationLife == TypeOK /\ Life /\ (Creation \/ SweepExpired) => Life'
<1> SUFFICES ASSUME TypeOK, Life, Creation \/ SweepExpired PROVE Life'
  OBVIOUS
<1>1. CASE CreateCaptureSession
  BY <1>1 DEF CreateCaptureSession, Life, Lifecycle, RunningIsCaptured, StopReportsOutcome, Final
<1>2. CASE CreateFile \/ SweepExpired
  BY <1>2 DEF CreateFile, SweepExpired, Life, Lifecycle, RunningIsCaptured, StopReportsOutcome
<1>3. CASE StartSession
  <2>1. reader'.at = "consume" /\ ~ls'.done /\ create' = "done" /\ create = "exec"
    BY <1>3 DEF StartSession, NoReader, NoLive
  <2>2. UNCHANGED <<row, handler, viewer>>
    BY <1>3 DEF StartSession
  <2> QED BY <2>1, <2>2 DEF Life, Lifecycle, RunningIsCaptured, StopReportsOutcome
<1>4. CASE StartFails
  BY <1>4 DEF StartFails, Life, Lifecycle, RunningIsCaptured, StopReportsOutcome, Final
<1> QED BY <1>1, <1>2, <1>3, <1>4 DEF Creation

\* The reader: the outcome is in the record before anyone hears of the end.
LEMMA RunLife == TypeOK /\ Life /\ (Append1 \/ Run) => Life'
<1> SUFFICES ASSUME TypeOK, Life, Append1 \/ Run PROVE Life'
  OBVIOUS
<1> USE DEF Life, Lifecycle, RunningIsCaptured, StopReportsOutcome
<1>0. ls \in Live /\ reader \in Reader
  BY DEF TypeOK
<1>1. CASE Append1
  <2>1. ls'.mapped = ls.mapped /\ ls'.state = ls.state /\ ls'.done = ls.done
    BY <1>0, <1>1 DEF Append1, Live
  <2> QED BY <1>1, <2>1 DEF Append1
<1>2. CASE StreamEnds
  <2>1. ls'.mapped = ls.mapped /\ ls'.state = ls.state /\ ls'.done = ls.done
    BY <1>0, <1>2 DEF StreamEnds, Live
  <2>2. reader'.at = "result"
    BY <1>0, <1>2 DEF StreamEnds, Reader
  <2> QED BY <1>2, <2>1, <2>2 DEF StreamEnds
<1>3. CASE ReadResult
  <2>1. reader'.at = "persist"
    BY <1>0, <1>3 DEF ReadResult, Reader
  <2> QED BY <1>3, <2>1 DEF ReadResult
<1>4. CASE CaptureEnded
  <2>1. reader'.at = "finish" /\ row' \in Final \cup {"deleted"} /\ "Running" \notin Final
    BY <1>0, <1>4 DEF CaptureEnded, Reader, Final
  <2> QED BY <1>4, <2>1 DEF CaptureEnded
<1>5. CASE FinishSession
  <2>1. reader'.at = "tell"
    BY <1>0, <1>5 DEF FinishSession, Reader
  <2>2. ls'.mapped = ls.mapped /\ ls'.state # "" /\ ls'.done = ls.done
    BY <1>0, <1>5 DEF FinishSession, Live, Reader, Final
  <2> QED BY <1>5, <2>1, <2>2 DEF FinishSession, Final
<1>6. CASE CloseDone
  <2>1. reader'.at = "over"
    BY <1>0, <1>6 DEF CloseDone, Reader
  <2>2. ls'.mapped = ls.mapped /\ ls'.state = ls.state
    BY <1>0, <1>6 DEF CloseDone, Live
  <2> QED BY <1>6, <2>1, <2>2 DEF CloseDone
<1>7. ASSUME NEW v \in Viewers, TellEnd(v) PROVE Life'
  <2>1. reader'.at = reader.at
    BY <1>0, <1>7 DEF TellEnd, Reader
  <2>2. \A w \in Viewers : viewer'[w].sub = viewer[w].sub
    BY <1>7, OfferedKeeps DEF TellEnd
  <2> QED BY <1>7, <2>1, <2>2 DEF TellEnd
<1> QED BY <1>1, <1>2, <1>3, <1>4, <1>5, <1>6, <1>7 DEF Run

\* The push loop has no part in the session's life.
LEMMA PushLife == TypeOK /\ Life /\ PushLoop => Life'
<1> SUFFICES ASSUME TypeOK, Life, PushLoop PROVE Life'
  OBVIOUS
<1> USE DEF Life, Lifecycle, RunningIsCaptured, StopReportsOutcome
<1>0. ls \in Live /\ pusher \in Pusher
  BY DEF TypeOK
<1>1. CASE Flush
  <2>1. ls'.mapped = ls.mapped /\ ls'.state = ls.state /\ ls'.done = ls.done
    BY <1>0, <1>1 DEF Flush, Live
  <2> QED BY <1>1, <2>1 DEF Flush
<1>2. CASE BatchSent
  BY <1>2 DEF BatchSent
<1>3. ASSUME NEW v \in Viewers, SendBatch(v) PROVE Life'
  <2>1. \A w \in Viewers : viewer'[w].sub = viewer[w].sub
    BY <1>3, OfferedKeeps DEF SendBatch
  <2>2. pusher'.at = pusher.at
    BY <1>0, <1>3 DEF SendBatch, Pusher
  <2> QED BY <1>3, <2>1, <2>2 DEF SendBatch
<1> QED BY <1>1, <1>2, <1>3 DEF PushLoop

\* Viewers have no part in it either, and subscribe only to a session that has started.
LEMMA ViewerLife ==
  ASSUME TypeOK, Life, NEW v \in Viewers, Subscribe(v) \/ Receive(v) \/ Cancel(v)
  PROVE  Life'
<1> USE DEF Life, Lifecycle, RunningIsCaptured, StopReportsOutcome
<1>0. viewer[v] \in Viewer /\ viewer \in [Viewers -> Viewer]
  BY DEF TypeOK
<1>1. CASE Subscribe(v)
  <2>1. \A w \in Viewers : viewer'[w].sub => viewer[w].sub \/ create = "done"
    BY <1>0, <1>1 DEF Subscribe
  <2> QED BY <1>1, <2>1 DEF Subscribe
<1>2. CASE Receive(v)
  <2>1. \A w \in Viewers : viewer'[w].sub = viewer[w].sub
    BY <1>0, <1>2 DEF Receive, Viewer
  <2> QED BY <1>2, <2>1 DEF Receive
<1>3. CASE Cancel(v)
  <2>1. [NoViewer EXCEPT !.chan = "closed"].sub = FALSE
    BY NoViewerType DEF Viewer
  <2>2. \A w \in Viewers : viewer'[w].sub => viewer[w].sub
    BY <1>0, <1>3, <2>1 DEF Cancel
  <2> QED BY <1>3, <2>2 DEF Cancel
<1> QED BY <1>1, <1>2, <1>3

\* Only a request that found done closed has waited.
LEMMA HandlerLife ==
  ASSUME TypeOK, Life, NEW h \in Handlers,
         StopCaptureSession(h) \/ DeleteCaptureSession(h) \/ HandlerStep(h)
  PROVE  Life'
<1> USE DEF Life, Lifecycle, RunningIsCaptured, StopReportsOutcome
<1>0. ls \in Live /\ handler[h] \in Handler /\ handler \in [Handlers -> Handler]
  BY DEF TypeOK
<1>1. CASE StopCaptureSession(h) \/ DeleteCaptureSession(h) \/ Reply(h)
  <2>1. PICK r : handler' = [handler EXCEPT ![h] = r] /\ ~r.waited
    <3>1. ~NoHandler.waited /\ ~[NoHandler EXCEPT !.at = "mark"].waited
          /\ ~[NoHandler EXCEPT !.at = "mark", !.op = "delete"].waited
      BY DEF NoHandler
    <3> QED BY <1>1, <3>1 DEF StopCaptureSession, DeleteCaptureSession, Reply
  <2>2. \A g \in Handlers : handler'[g].waited => handler[g].waited
    BY <1>0, <2>1
  <2>3. create # "idle"
    <3>1. CASE Reply(h)
      BY <3>1 DEF Reply
    <3>2. CASE StopCaptureSession(h) \/ DeleteCaptureSession(h)
      BY <3>2 DEF StopCaptureSession, DeleteCaptureSession
    <3> QED BY <1>1, <3>1, <3>2
  <2> QED BY <1>1, <2>2, <2>3 DEF StopCaptureSession, DeleteCaptureSession, Reply
<1>2. CASE MarkStopped(h)
  <2>1. ls'.mapped = ls.mapped /\ ls'.state = ls.state /\ ls'.done = ls.done
    BY <1>0, <1>2 DEF MarkStopped, Live
  <2>2. \A g \in Handlers : handler'[g].waited = handler[g].waited
    BY <1>0, <1>2 DEF MarkStopped, Handler
  <2> QED BY <1>2, <2>1, <2>2 DEF MarkStopped
<1>3. CASE StopWaits(h)
  <2>1. \A g \in Handlers : handler'[g].waited => handler[g].waited \/ ls.done
    BY <1>0, <1>3 DEF StopWaits, Handler
  <2> QED BY <1>3, <2>1 DEF StopWaits
<1>4. CASE DropSession(h)
  <2>1. ~ls'.mapped /\ ls'.state = ls.state /\ ls'.done = ls.done
    BY <1>0, <1>4 DEF DropSession, Live
  <2>2. \A g \in Handlers : handler'[g].waited = handler[g].waited
    BY <1>0, <1>4 DEF DropSession, Handler
  <2>3. \A w \in Viewers : viewer'[w].sub => viewer[w].sub
    BY <1>4 DEF DropSession
  <2> QED BY <1>4, <2>1, <2>2, <2>3 DEF DropSession
<1>5. CASE RemoveRecording(h) \/ EraseSession(h)
  <2>1. \A g \in Handlers : handler'[g].waited = handler[g].waited
    BY <1>0, <1>5 DEF RemoveRecording, EraseSession, Handler
  <2> QED BY <1>5, <2>1 DEF RemoveRecording, EraseSession
<1> QED BY <1>1, <1>2, <1>3, <1>4, <1>5 DEF HandlerStep

\* No step of the specification leaves the life of a session.
LEMMA NextLife == TypeOK /\ Life /\ [Next]_vars => Life'
<1> SUFFICES ASSUME TypeOK, Life, [Next]_vars PROVE Life'
  OBVIOUS
<1>1. CASE SendPanics \/ ControllerDies
  BY <1>1, RestartLife DEF SendPanics, ControllerDies
<1>2. CASE UNCHANGED vars
  BY <1>2 DEF vars, Life, Lifecycle, RunningIsCaptured, StopReportsOutcome
<1> QED BY <1>1, <1>2, CreationLife, RunLife, PushLife, ViewerLife, HandlerLife DEF Next

----------------------------------------------------------------------------
(* The feed of a viewer: its channel *)

\* The bounds of a batch are numbers.
LEMMA EventRows ==
  ASSUME NEW ev \in Event
  PROVE  ev.rows[1] \in Nat /\ ev.rows[2] \in Nat /\ ev.type \in {"packets", "end"}
<1>1. MaxRows \in Nat
  BY CaptureAssumptions DEF CaptureAssumptions
<1>2. ev.rows[1] \in 0 .. MaxRows /\ ev.rows[2] \in 0 .. MaxRows /\ ev.type \in {"packets", "end"}
  BY DEF Event, Batch
<1> QED BY <1>1, <1>2

\* An event that follows on the channel is put at its end.
LEMMA AppendFeed ==
  ASSUME NEW q \in Seq(Event), NEW n \in Nat, NEW t \in Nat, NEW ev \in Event,
         InOrder(q, n), Within(q, n, t),
         ev.type = "packets" => Covered(q, n, ev.rows[1], Len(q)) /\ ev.rows[2] <= t
  PROVE  LET r == Append(q, ev)
         IN /\ InOrder(r, n) /\ Within(r, n, t)
            /\ \A a \in Nat : Covered(q, n, a, Len(q)) => Covered(r, n, a, Len(r))
            /\ ev.type = "packets" => \A a \in Nat : a <= ev.rows[2] => Covered(r, n, a, Len(r))
            /\ \A e : EndTold(q, e) \/ ev.type = "end" => EndTold(r, e)
<1> DEFINE r == Append(q, ev)
           l == Len(q)
<1>1. l \in Nat /\ Len(r) = l + 1 /\ r[l + 1] = ev /\ \A k \in 1 .. l : r[k] = q[k]
  OBVIOUS
<1>2. \A k \in 1 .. l : q[k] \in Event
  OBVIOUS
<1> HIDE DEF r, l
<1>3. \A k \in 1 .. Len(r) : k = l + 1 \/ k \in 1 .. l
  BY <1>1
<1>4. ASSUME NEW a \in Nat, NEW k \in Nat, k <= l, Covered(q, n, a, k)
      PROVE  Covered(r, n, a, k)
  <2>1. \A j \in 1 .. k : j \in 1 .. l
    BY <1>1, <1>4
  <2> QED BY <1>1, <1>4, <2>1 DEF Covered
<1>5. InOrder(r, n)
  <2> SUFFICES ASSUME NEW k \in 1 .. Len(r), r[k].type = "packets"
               PROVE  Covered(r, n, r[k].rows[1], k - 1)
    BY DEF InOrder
  <2>1. CASE k = l + 1
    <3>1. Covered(q, n, ev.rows[1], l) /\ r[k] = ev
      BY <1>1, <2>1 DEF l
    <3>2. Covered(r, n, ev.rows[1], l)
      BY <1>1, <1>4, <3>1, EventRows
    <3> QED BY <1>1, <2>1, <3>1, <3>2
  <2>2. CASE k \in 1 .. l
    <3>1. r[k] = q[k] /\ q[k] \in Event /\ k - 1 \in Nat /\ k - 1 <= l
      BY <1>1, <1>2, <2>2
    <3>2. Covered(q, n, q[k].rows[1], k - 1)
      BY <2>2, <3>1 DEF InOrder, l
    <3> QED BY <1>4, <3>1, <3>2, EventRows
  <2> QED BY <1>3, <2>1, <2>2
<1>6. Within(r, n, t)
  BY <1>1, <1>3 DEF Within, l
<1>7. ASSUME NEW a \in Nat, Covered(q, n, a, l) PROVE Covered(r, n, a, Len(r))
  <2>1. Covered(r, n, a, l)
    BY <1>1, <1>4, <1>7
  <2>2. \A j \in 1 .. l : j \in 1 .. Len(r)
    BY <1>1
  <2> QED BY <2>1, <2>2 DEF Covered
<1>8. ASSUME ev.type = "packets", NEW a \in Nat, a <= ev.rows[2] PROVE Covered(r, n, a, Len(r))
  <2>1. l + 1 \in 1 .. Len(r) /\ r[l + 1] = ev
    BY <1>1
  <2> QED BY <1>8, <2>1 DEF Covered
<1>9. ASSUME NEW e, EndTold(q, e) \/ ev.type = "end" PROVE EndTold(r, e)
  <2>1. l + 1 \in 1 .. Len(r) /\ r[l + 1] = ev /\ \A j \in 1 .. l : j \in 1 .. Len(r)
    BY <1>1
  <2> QED BY <1>1, <1>9, <2>1 DEF EndTold, l
<1> QED BY <1>5, <1>6, <1>7, <1>8, <1>9 DEF r, l

\* The client takes the first event: it is not ahead of what the client has.
LEMMA TailFeed ==
  ASSUME NEW q \in Seq(Event), q # <<>>, NEW n \in Nat, NEW t \in Nat, InOrder(q, n), Within(q, n, t),
         NEW m \in Nat, NEW e, NEW f \in BOOLEAN,
         m = IF Head(q).type = "packets" /\ Head(q).rows[2] > n THEN Head(q).rows[2] ELSE n,
         f = (e \/ Head(q).type = "end")
  PROVE  LET r == Tail(q)
         IN /\ Head(q).type = "packets" => Head(q).rows[1] <= n
            /\ InOrder(r, m) /\ Within(r, m, t)
            /\ \A a \in Nat : Covered(q, n, a, Len(q)) => Covered(r, m, a, Len(r))
            /\ EndTold(q, e) => EndTold(r, f)
<1> DEFINE r == Tail(q)
           l == Len(r)
           ev == Head(q)
<1>1. l \in Nat /\ Len(q) = l + 1 /\ ev = q[1] /\ \A k \in 1 .. l : r[k] = q[k + 1]
  OBVIOUS
<1>2. \A k \in 1 .. l + 1 : q[k] \in Event
  BY <1>1
<1>3. ev \in Event
  BY <1>1, <1>2
<1>4. m >= n /\ (ev.type = "packets" => m >= ev.rows[2])
  BY <1>3, EventRows
<1>0. ev.type = "packets" => m <= t /\ n <= t
  BY <1>1, <1>3, <1>4, EventRows DEF Within
<1> HIDE DEF r, l, ev
<1>5. ASSUME NEW a \in Nat, NEW k \in Nat, k <= l, Covered(q, n, a, k + 1) PROVE Covered(r, m, a, k)
  <2>1. CASE a <= n
    BY <1>4, <2>1 DEF Covered
  <2>2. ASSUME NEW j \in 1 .. k + 1, q[j].type = "packets", a <= q[j].rows[2]
        PROVE  Covered(r, m, a, k)
    <3>1. CASE j = 1
      BY <1>1, <1>3, <1>4, <2>2, <3>1, EventRows DEF Covered
    <3>2. CASE j # 1
      <4>1. j - 1 \in 1 .. k /\ j - 1 \in 1 .. l /\ (j - 1) + 1 = j
        BY <1>1, <1>5, <2>2, <3>2
      <4>2. r[j - 1] = q[j]
        BY <1>1, <4>1
      <4> QED BY <2>2, <4>1, <4>2 DEF Covered
    <3> QED BY <3>1, <3>2
  <2> QED BY <1>5, <2>1, <2>2 DEF Covered
<1>6. ev.type = "packets" => ev.rows[1] <= n
  <2>1. 1 \in 1 .. Len(q) /\ 1 - 1 = 0
    BY <1>1
  <2>2. ev.type = "packets" => Covered(q, n, ev.rows[1], 0)
    BY <1>1, <2>1 DEF InOrder
  <2> QED BY <2>2 DEF Covered
<1>7. InOrder(r, m)
  <2> SUFFICES ASSUME NEW k \in 1 .. l, r[k].type = "packets"
               PROVE  Covered(r, m, r[k].rows[1], k - 1)
    BY DEF InOrder, l
  <2>1. r[k] = q[k + 1] /\ k + 1 \in 1 .. Len(q) /\ (k + 1) - 1 = (k - 1) + 1 /\ k - 1 \in Nat /\ k - 1 <= l
    BY <1>1
  <2>2. Covered(q, n, r[k].rows[1], (k - 1) + 1)
    BY <2>1 DEF InOrder
  <2>3. r[k].rows[1] \in Nat
    BY <1>1, <1>2, <2>1, EventRows
  <2> QED BY <1>5, <2>1, <2>2, <2>3
<1>8. Within(r, m, t)
  <2>1. m <= t
    BY <1>0, <1>1 DEF Within, ev
  <2>2. ASSUME NEW k \in 1 .. Len(r), r[k].type = "packets" PROVE r[k].rows[2] <= t
    <3>1. r[k] = q[k + 1] /\ k + 1 \in 1 .. Len(q)
      BY <1>1 DEF l
    <3> QED BY <2>2, <3>1 DEF Within
  <2> QED BY <2>1, <2>2 DEF Within
<1>9. \A a \in Nat : Covered(q, n, a, Len(q)) => Covered(r, m, a, Len(r))
  BY <1>1, <1>5 DEF l
<1>10. ASSUME EndTold(q, e) PROVE EndTold(r, f)
  <2>1. CASE e \/ ev.type = "end"
    BY <2>1 DEF EndTold, ev
  <2>2. ASSUME NEW k \in 1 .. Len(q), q[k].type = "end", ~(e \/ ev.type = "end") PROVE EndTold(r, f)
    <3>1. k # 1
      BY <1>1, <2>2
    <3>2. k - 1 \in 1 .. l /\ (k - 1) + 1 = k
      BY <1>1, <2>2, <3>1
    <3> QED BY <1>1, <2>2, <3>2 DEF EndTold, l
  <2> QED BY <1>10, <2>1, <2>2 DEF EndTold
<1> QED BY <1>6, <1>7, <1>8, <1>9, <1>10 DEF r, ev

----------------------------------------------------------------------------
(* The feed of a viewer: the steps *)

\* The reader is past telling v of the end.
PastEnd(v) == reader.at = "over" \/ (reader.at = "tell" /\ v \notin reader.to)

\* A viewer that a step does not touch: rows may be added, no batch is skipped.
LEMMA KeepFeed ==
  ASSUME TypeOK, TypeOK', NEW v \in Viewers, ViewerFeed(v), viewer'[v] = viewer[v],
         From(v)' = From(v), ls.total <= ls'.total, PastEnd(v)' => PastEnd(v)
  PROVE  ViewerFeed(v)'
<1> DEFINE x == viewer[v]
<1>1. SUFFICES ASSUME x.sub, ~x.dropped
               PROVE  /\ ~x.gap /\ InOrder(x.queue, x.next)
                      /\ Within(x.queue, x.next, ls'.total)
                      /\ Covered(x.queue, x.next, From(v), Len(x.queue))
                      /\ PastEnd(v)' => EndTold(x.queue, x.ended)
  BY DEF ViewerFeed, PastEnd
<1>2. /\ ~x.gap /\ InOrder(x.queue, x.next) /\ Within(x.queue, x.next, ls.total)
      /\ Covered(x.queue, x.next, From(v), Len(x.queue))
      /\ PastEnd(v) => EndTold(x.queue, x.ended)
  BY <1>1 DEF ViewerFeed, PastEnd
<1>3. ls.total \in Nat /\ ls'.total \in Nat /\ x.queue \in Seq(Event) /\ x.next \in Nat
  <2>1. ls \in Live /\ ls' \in Live /\ MaxRows \in Nat
    BY CaptureAssumptions DEF TypeOK, CaptureAssumptions
  <2>2. ls.total \in 0 .. MaxRows /\ ls'.total \in 0 .. MaxRows
    BY <2>1 DEF Live
  <2>3. x \in Viewer
    BY DEF TypeOK
  <2>4. x.queue \in Seq(Event) /\ x.next \in 0 .. MaxRows
    BY <2>3 DEF Viewer
  <2> QED BY <2>1, <2>2, <2>4
<1>4. Within(x.queue, x.next, ls'.total)
  <2>1. ASSUME NEW k \in 1 .. Len(x.queue), x.queue[k].type = "packets"
        PROVE  x.queue[k].rows[2] <= ls'.total
    <3>1. x.queue[k] \in Event /\ x.queue[k].rows[2] <= ls.total
      BY <1>2, <1>3, <2>1 DEF Within
    <3> QED BY <1>3, <3>1, EventRows
  <2>2. x.next <= ls'.total
    BY <1>2, <1>3 DEF Within
  <2> QED BY <2>1, <2>2 DEF Within
<1> QED BY <1>2, <1>4

\* Nobody follows the feed in the initial state.
LEMMA InitFeed == Init => Feed
  BY DEF Init, Feed, PushBounds, ViewerFeed, NoPusher, NoViewer

\* After a restart nobody follows it either.
LEMMA RestartFeed == Restart => Feed'
  BY DEF Restart, Feed, PushBounds, ViewerFeed, NoPusher, NoViewer

\* Nobody follows the feed of a session that is being created.
LEMMA CreationFeed ==
  TypeOK /\ TypeOK' /\ Life /\ Feed /\ (Creation \/ SweepExpired) => Feed'
<1> SUFFICES ASSUME TypeOK, TypeOK', Life, Feed, Creation \/ SweepExpired PROVE Feed'
  OBVIOUS
<1>1. CASE CreateCaptureSession \/ CreateFile \/ StartFails \/ SweepExpired
  <2>1. UNCHANGED <<ls, reader, pusher, viewer>>
    BY <1>1 DEF CreateCaptureSession, CreateFile, StartFails, SweepExpired
  <2> QED BY <2>1 DEF Feed, PushBounds, ViewerFeed, From
<1>2. CASE StartSession
  <2>1. \A v \in Viewers : ~viewer'[v].sub
    BY <1>2 DEF StartSession, Life, Lifecycle
  <2>2. pusher'.at = "tick"
    BY <1>2 DEF StartSession, NoPusher
  <2> QED BY <2>1, <2>2 DEF Feed, PushBounds, ViewerFeed
<1> QED BY <1>1, <1>2 DEF Creation

\* An event that follows on the channel is offered to v: it is appended, or v is marked.
LEMMA OfferFeed ==
  ASSUME TypeOK, NEW v \in Viewers, NEW ev \in Event, viewer' = Offered(v, ev),
         ls'.total = ls.total, ViewerFeed(v), From(v)' \in Nat,
         viewer[v].sub /\ ~viewer[v].dropped =>
           /\ ev.type = "packets" =>
                /\ Covered(viewer[v].queue, viewer[v].next, ev.rows[1], Len(viewer[v].queue))
                /\ ev.rows[2] <= ls.total /\ From(v)' <= ev.rows[2]
           /\ ev.type = "end" => From(v)' = From(v)
           /\ PastEnd(v)' => PastEnd(v) \/ ev.type = "end"
  PROVE  ViewerFeed(v)'
<1> DEFINE x == viewer[v]
           y == viewer'[v]
           r == Append(x.queue, ev)
<1>1. x \in Viewer /\ x.queue \in Seq(Event) /\ x.next \in Nat /\ ls.total \in Nat
  <2>1. ls \in Live /\ x \in Viewer /\ MaxRows \in Nat
    BY CaptureAssumptions DEF TypeOK, CaptureAssumptions
  <2>2. x.next \in 0 .. MaxRows /\ ls.total \in 0 .. MaxRows /\ x.queue \in Seq(Event)
    BY <2>1 DEF Viewer, Live
  <2> QED BY <2>1, <2>2
<1>2. CASE Len(x.queue) < subscriberBuffer
  <2>1. /\ y.sub = x.sub /\ y.dropped = x.dropped /\ y.gap = x.gap /\ y.next = x.next
        /\ y.ended = x.ended /\ y.queue = r
    <3>1. viewer' = [viewer EXCEPT ![v] = [x EXCEPT !.queue = r]]
      BY <1>2 DEF Offered
    <3>2. y = [x EXCEPT !.queue = r]
      BY <3>1 DEF TypeOK
    <3> QED BY <1>1, <3>2 DEF Viewer
  <2>2. SUFFICES ASSUME x.sub, ~x.dropped
                 PROVE  /\ ~x.gap /\ InOrder(r, x.next) /\ Within(r, x.next, ls.total)
                        /\ Covered(r, x.next, From(v)', Len(r))
                        /\ PastEnd(v)' => EndTold(r, x.ended)
    BY <2>1 DEF ViewerFeed, PastEnd
  <2>3. /\ ~x.gap /\ InOrder(x.queue, x.next) /\ Within(x.queue, x.next, ls.total)
        /\ Covered(x.queue, x.next, From(v), Len(x.queue))
        /\ PastEnd(v) => EndTold(x.queue, x.ended)
    BY <2>2 DEF ViewerFeed, PastEnd
  <2>4. /\ InOrder(r, x.next) /\ Within(r, x.next, ls.total)
        /\ \A a \in Nat : Covered(x.queue, x.next, a, Len(x.queue)) => Covered(r, x.next, a, Len(r))
        /\ ev.type = "packets" => \A a \in Nat : a <= ev.rows[2] => Covered(r, x.next, a, Len(r))
        /\ \A e : EndTold(x.queue, e) \/ ev.type = "end" => EndTold(r, e)
    BY <1>1, <2>2, <2>3, AppendFeed
  <2>5. ev.type = "packets" \/ ev.type = "end"
    BY EventRows
  <2> HIDE DEF x, r
  <2>6. Covered(r, x.next, From(v)', Len(r))
    <3>1. CASE ev.type = "packets"
      BY <2>2, <2>4, <3>1 DEF x
    <3>2. CASE ev.type = "end"
      <4>1. From(v)' = From(v) /\ From(v) \in Nat
        BY <2>2, <3>2 DEF x
      <4> QED BY <2>3, <2>4, <4>1
    <3> QED BY <2>5, <3>1, <3>2
  <2>7. PastEnd(v)' => EndTold(r, x.ended)
    BY <2>2, <2>3, <2>4 DEF x
  <2> QED BY <2>3, <2>4, <2>6, <2>7
<1>3. CASE ~(Len(x.queue) < subscriberBuffer)
  <2>1. y.dropped
    <3>1. viewer' = [viewer EXCEPT ![v] = [x EXCEPT !.dropped = TRUE]]
      BY <1>3 DEF Offered
    <3>2. y = [x EXCEPT !.dropped = TRUE]
      BY <3>1 DEF TypeOK
    <3> QED BY <1>1, <3>2 DEF Viewer
  <2> QED BY <2>1 DEF ViewerFeed
<1> QED BY <1>2, <1>3

\* An offer to v does not touch the others.
LEMMA OfferedOthers ==
  ASSUME TypeOK, NEW v \in Viewers, NEW ev, NEW w \in Viewers, w # v
  PROVE  Offered(v, ev)[w] = viewer[w]
  BY DEF Offered, TypeOK

\* What the push loop has taken is a number of rows.
LEMMA FromType ==
  ASSUME TypeOK, NEW v PROVE From(v) \in Nat
<1>1. MaxRows \in Nat /\ pusher.rows \in Batch /\ ls.pushed \in 0 .. MaxRows
  BY CaptureAssumptions DEF CaptureAssumptions, TypeOK, Pusher, Live
<1>2. pusher.rows[1] \in 0 .. MaxRows
  BY <1>1 DEF Batch
<1> QED BY <1>1, <1>2 DEF From

\* The reader: the end is told to every subscriber.
LEMMA RunFeed == TypeOK /\ TypeOK' /\ Life /\ Feed /\ (Append1 \/ Run) => Feed'
<1> SUFFICES ASSUME TypeOK, TypeOK', Life, Feed, Append1 \/ Run PROVE Feed'
  OBVIOUS
<1>0. ls \in Live /\ reader \in Reader /\ ls.total \in Nat
  BY LiveCounts DEF TypeOK
<1>1. CASE Append1
  <2>1. ls'.total = ls.total + 1 /\ ls'.pushed = ls.pushed /\ ls'.done = ls.done
    BY <1>0, <1>1 DEF Append1, Live
  <2>2. UNCHANGED <<reader, pusher, viewer>>
    BY <1>1 DEF Append1
  <2>3. pusher.at # "over"
    BY <1>1 DEF Append1, Feed, PushBounds, Life, Lifecycle
  <2>4. PushBounds'
    BY <2>1, <2>2, <2>3 DEF Feed, PushBounds
  <2>5. ls.total <= ls'.total
    BY <1>0, <2>1
  <2>6. ASSUME NEW v \in Viewers PROVE ViewerFeed(v)'
    <3>1. From(v)' = From(v) /\ PastEnd(v)' = PastEnd(v)
      BY <2>1, <2>2 DEF From, PastEnd
    <3> QED BY <2>2, <2>5, <3>1, KeepFeed DEF Feed
  <2> QED BY <2>4, <2>6 DEF Feed
<1>2. CASE StreamEnds \/ ReadResult \/ CaptureEnded
  <2>1. ls'.total = ls.total /\ ls'.pushed = ls.pushed /\ ls'.done = ls.done
    BY <1>0, <1>2 DEF StreamEnds, ReadResult, CaptureEnded, Live
  <2>2. reader'.at \in {"result", "persist", "finish"} /\ UNCHANGED <<pusher, viewer>>
    BY <1>0, <1>2 DEF StreamEnds, ReadResult, CaptureEnded, Reader
  <2>3. PushBounds'
    BY <2>1, <2>2 DEF Feed, PushBounds
  <2>4. ls.total <= ls'.total
    BY <1>0, <2>1
  <2>5. ASSUME NEW v \in Viewers PROVE ViewerFeed(v)'
    <3>1. From(v)' = From(v) /\ ~PastEnd(v)'
      BY <2>1, <2>2 DEF From, PastEnd
    <3> QED BY <2>2, <2>4, <3>1, KeepFeed DEF Feed
  <2> QED BY <2>3, <2>5 DEF Feed
<1>3. CASE FinishSession
  <2>1. ls'.total = ls.total /\ ls'.pushed = ls.pushed /\ ls'.done = ls.done
    BY <1>0, <1>3 DEF FinishSession, Live
  <2>2. reader'.at = "tell" /\ reader'.to = Subscribed /\ UNCHANGED <<pusher, viewer>>
    BY <1>0, <1>3 DEF FinishSession, Reader
  <2>3. PushBounds'
    BY <2>1, <2>2 DEF Feed, PushBounds
  <2>4. ls.total <= ls'.total
    BY <1>0, <2>1
  <2>5. ASSUME NEW v \in Viewers PROVE ViewerFeed(v)'
    <3>1. CASE ~viewer[v].sub
      BY <2>2, <3>1 DEF ViewerFeed
    <3>2. CASE viewer[v].sub
      <4>1. From(v)' = From(v) /\ ~PastEnd(v)'
        BY <2>1, <2>2, <3>2 DEF From, PastEnd, Subscribed
      <4> QED BY <2>2, <2>4, <4>1, KeepFeed DEF Feed
    <3> QED BY <3>1, <3>2
  <2> QED BY <2>3, <2>5 DEF Feed
<1>4. CASE CloseDone
  <2>1. ls'.total = ls.total /\ ls'.pushed = ls.pushed /\ ls'.done
    BY <1>0, <1>4 DEF CloseDone, Live
  <2>2. reader.at = "tell" /\ reader.to = {} /\ UNCHANGED <<pusher, viewer>>
    BY <1>0, <1>4 DEF CloseDone, Reader
  <2>3. PushBounds'
    BY <2>1, <2>2 DEF Feed, PushBounds
  <2>4. ls.total <= ls'.total
    BY <1>0, <2>1
  <2>5. ASSUME NEW v \in Viewers PROVE ViewerFeed(v)'
    <3>1. From(v)' = From(v) /\ PastEnd(v)
      BY <2>1, <2>2 DEF From, PastEnd
    <3> QED BY <2>2, <2>4, <3>1, KeepFeed DEF Feed
  <2> QED BY <2>3, <2>5 DEF Feed
<1>5. ASSUME NEW v \in Viewers, TellEnd(v) PROVE Feed'
  <2> DEFINE ev == [type |-> "end", rows |-> <<0, 0>>]
  <2>1. ev \in Event /\ ev.type = "end"
    BY CaptureAssumptions DEF CaptureAssumptions, Event, Batch
  <2>2. viewer' = Offered(v, ev) /\ UNCHANGED <<ls, pusher>>
    BY <1>5 DEF TellEnd
  <2>3. reader'.at = "tell" /\ reader.at = "tell" /\ reader'.to = reader.to \ {v}
    BY <1>0, <1>5 DEF TellEnd, Reader
  <2> HIDE DEF ev
  <2>4. PushBounds'
    BY <2>2 DEF Feed, PushBounds
  <2>5. \A w \in Viewers : From(w)' = From(w) /\ From(w) \in Nat
    BY <2>2, FromType DEF From
  <2>6. ViewerFeed(v)'
    BY <2>1, <2>2, <2>3, <2>5, OfferFeed DEF Feed
  <2>7. ASSUME NEW w \in Viewers, w # v PROVE ViewerFeed(w)'
    <3>1. viewer'[w] = viewer[w]
      BY <2>2, <2>7, OfferedOthers
    <3>2. PastEnd(w)' => PastEnd(w)
      BY <2>3, <2>7 DEF PastEnd
    <3>3. ls.total <= ls'.total
      BY <1>0, <2>2
    <3> QED BY <2>5, <3>1, <3>2, <3>3, KeepFeed DEF Feed
  <2> QED BY <2>4, <2>6, <2>7 DEF Feed
<1> QED BY <1>1, <1>2, <1>3, <1>4, <1>5 DEF Run

\* The push loop: what it takes is what it then sends to each subscriber.
LEMMA PushFeed == TypeOK /\ TypeOK' /\ Life /\ Feed /\ PushLoop => Feed'
<1> SUFFICES ASSUME TypeOK, TypeOK', Life, Feed, PushLoop PROVE Feed'
  OBVIOUS
<1>0. ls \in Live /\ pusher \in Pusher /\ ls.total \in Nat /\ ls.pushed \in Nat /\ ls.pushed <= ls.total
  BY LiveCounts DEF TypeOK
<1>1. CASE Flush /\ ls.pushed < ls.total
  <2>1. ls'.total = ls.total /\ ls'.pushed = ls.total /\ ls'.done = ls.done
    BY <1>0, <1>1 DEF Flush, Live
  <2>2. /\ pusher' = [at |-> "send", rows |-> <<ls.pushed, ls.total>>, to |-> Subscribed]
        /\ pusher.at = "tick" /\ UNCHANGED <<reader, viewer>>
    BY <1>1 DEF Flush, Pending
  <2>3. pusher'.at = "send" /\ pusher'.rows[1] = ls.pushed /\ pusher'.rows[2] = ls.total /\ pusher'.to = Subscribed
    BY <2>2
  <2>4. PushBounds'
    BY <1>0, <2>1, <2>3 DEF PushBounds
  <2>5. ls.total <= ls'.total
    BY <1>0, <2>1
  <2>6. ASSUME NEW v \in Viewers PROVE ViewerFeed(v)'
    <3>1. CASE ~viewer[v].sub
      BY <2>2, <3>1 DEF ViewerFeed
    <3>2. CASE viewer[v].sub
      <4>1. From(v)' = From(v) /\ PastEnd(v)' = PastEnd(v)
        BY <2>2, <2>3, <3>2 DEF From, PastEnd, Subscribed
      <4> QED BY <2>2, <2>5, <4>1, KeepFeed DEF Feed
    <3> QED BY <3>1, <3>2
  <2> QED BY <2>4, <2>6 DEF Feed
<1>2. CASE Flush /\ ~(ls.pushed < ls.total)
  <2>1. UNCHANGED <<ls, reader, viewer>> /\ pusher.at = "tick" /\ ls.done
    BY <1>2 DEF Flush
  <2>2. pusher'.at = "over"
    BY <1>2 DEF Flush, NoPusher
  <2>3. PushBounds'
    BY <1>0, <1>2, <2>1, <2>2 DEF PushBounds
  <2>4. ls.total <= ls'.total
    BY <1>0, <2>1
  <2>5. ASSUME NEW v \in Viewers PROVE ViewerFeed(v)'
    <3>1. From(v)' = From(v) /\ PastEnd(v)' = PastEnd(v)
      BY <2>1, <2>2 DEF From, PastEnd
    <3> QED BY <2>1, <2>4, <3>1, KeepFeed DEF Feed
  <2> QED BY <2>3, <2>5 DEF Feed
<1>3. CASE BatchSent
  <2>1. UNCHANGED <<ls, reader, viewer>> /\ pusher.to = {}
    BY <1>3 DEF BatchSent
  <2>2. pusher'.at = "tick"
    BY <1>3 DEF BatchSent, NoPusher
  <2>3. PushBounds'
    BY <2>2 DEF PushBounds
  <2>4. ls.total <= ls'.total
    BY <1>0, <2>1
  <2>5. ASSUME NEW v \in Viewers PROVE ViewerFeed(v)'
    <3>1. From(v)' = From(v) /\ PastEnd(v)' = PastEnd(v)
      BY <2>1, <2>2 DEF From, PastEnd
    <3> QED BY <2>1, <2>4, <3>1, KeepFeed DEF Feed
  <2> QED BY <2>3, <2>5 DEF Feed
<1>4. ASSUME NEW v \in Viewers, SendBatch(v) PROVE Feed'
  <2> DEFINE ev == [type |-> "packets", rows |-> pusher.rows]
  <2>1. ev \in Event /\ ev.type = "packets" /\ ev.rows = pusher.rows
    BY <1>0 DEF Event, Pusher
  <2>2. viewer' = Offered(v, ev) /\ UNCHANGED <<ls, reader>> /\ pusher.at = "send" /\ v \in pusher.to
    BY <1>4 DEF SendBatch
  <2>3. pusher'.at = "send" /\ pusher'.rows = pusher.rows /\ pusher'.to = pusher.to \ {v}
    BY <1>0, <1>4 DEF SendBatch, Pusher
  <2> HIDE DEF ev
  <2>4. PushBounds'
    BY <2>2, <2>3 DEF Feed, PushBounds
  <2>5. pusher.rows[2] = ls.pushed /\ pusher.rows[2] <= ls.total
    BY <1>0, <2>2 DEF Feed, PushBounds
  <2>6. From(v) = pusher.rows[1] /\ From(v)' = ls.pushed
    BY <2>2, <2>3 DEF From
  <2>7. ViewerFeed(v)'
    <3>1. viewer[v].sub /\ ~viewer[v].dropped =>
            Covered(viewer[v].queue, viewer[v].next, ev.rows[1], Len(viewer[v].queue))
      BY <2>1, <2>6 DEF Feed, ViewerFeed
    <3>2. ev.rows[2] <= ls.total /\ From(v)' <= ev.rows[2] /\ From(v)' \in Nat
      BY <1>0, <2>1, <2>5, <2>6
    <3>3. PastEnd(v)' = PastEnd(v) /\ ls'.total = ls.total
      BY <2>2 DEF PastEnd
    <3> QED BY <2>1, <2>2, <3>1, <3>2, <3>3, OfferFeed DEF Feed
  <2>8. ASSUME NEW w \in Viewers, w # v PROVE ViewerFeed(w)'
    <3>1. viewer'[w] = viewer[w]
      BY <2>2, <2>8, OfferedOthers
    <3>2. PastEnd(w)' = PastEnd(w) /\ From(w)' = From(w)
      BY <2>2, <2>3, <2>8 DEF PastEnd, From
    <3>3. ls.total <= ls'.total
      BY <1>0, <2>2
    <3> QED BY <3>1, <3>2, <3>3, KeepFeed DEF Feed
  <2> QED BY <2>4, <2>7, <2>8 DEF Feed
<1> QED BY <1>1, <1>2, <1>3, <1>4 DEF PushLoop

\* A viewer joins with the rows there are, reads its channel or leaves.
LEMMA ViewerStepFeed ==
  ASSUME TypeOK, TypeOK', Life, Feed, NEW v \in Viewers, Subscribe(v) \/ Receive(v) \/ Cancel(v)
  PROVE  Feed'
<1>0. /\ ls \in Live /\ ls.total \in Nat /\ ls.pushed \in Nat /\ ls.pushed <= ls.total
      /\ viewer[v] \in Viewer /\ viewer \in [Viewers -> Viewer]
  BY LiveCounts DEF TypeOK
<1>1. UNCHANGED <<ls, reader, pusher>>
  BY DEF Subscribe, Receive, Cancel
<1>2. PushBounds'
  BY <1>1 DEF Feed, PushBounds
<1>3. \A w \in Viewers : From(w)' = From(w) /\ PastEnd(w)' = PastEnd(w)
  BY <1>1 DEF From, PastEnd
<1>4. ASSUME NEW w \in Viewers, w # v PROVE ViewerFeed(w)'
  <2>1. viewer'[w] = viewer[w]
    BY <1>0, <1>4 DEF Subscribe, Receive, Cancel
  <2>2. ls.total <= ls'.total
    BY <1>0, <1>1
  <2> QED BY <1>3, <2>1, <2>2, KeepFeed DEF Feed
<1>5. ViewerFeed(v)'
  <2>1. CASE Cancel(v)
    <3>1. [NoViewer EXCEPT !.chan = "closed"].sub = FALSE
      BY NoViewerType DEF Viewer
    <3>2. ~viewer'[v].sub
      BY <1>0, <2>1, <3>1 DEF Cancel
    <3> QED BY <3>2 DEF ViewerFeed
  <2>2. CASE Subscribe(v)
    <3> DEFINE y == viewer'[v]
    <3>1. /\ y.queue = NoViewer.queue /\ y.next = ls.total /\ y.sub = (ls.state = "")
          /\ y.gap = NoViewer.gap
      BY <1>0, <2>2, NoViewerType DEF Subscribe, Viewer
    <3>2. y.sub => ~PastEnd(v)'
      BY <1>1, <3>1 DEF PastEnd, Life, Lifecycle
    <3>3. y.queue = <<>> /\ Len(y.queue) = 0 /\ ~y.gap
      BY <3>1, NoViewerType
    <3>4. InOrder(y.queue, y.next)
      BY <3>3 DEF InOrder
    <3>5. Within(y.queue, y.next, ls'.total)
      <4>0. ls.total <= ls.total
        BY <1>0
      <4>1. y.next <= ls'.total
        <5>1. y.next = ls.total
          BY <3>1
        <5> HIDE DEF y
        <5> QED BY <1>1, <4>0, <5>1
      <4>2. \A k \in 1 .. Len(y.queue) : FALSE
        BY <3>3
      <4> QED BY <4>1, <4>2 DEF Within
    <3>6. From(v)' <= y.next
      <4>1. pusher.at = "send" => pusher.rows[1] \in Int /\ pusher.rows[1] <= ls.pushed
        BY DEF Feed, PushBounds, TypeOK, Pusher, Batch
      <4>2. From(v) <= ls.total
        BY <1>0, <4>1 DEF From
      <4> QED BY <1>3, <3>1, <4>2
    <3>7. Covered(y.queue, y.next, From(v)', Len(y.queue))
      BY <3>6 DEF Covered
    <3> QED BY <3>2, <3>3, <3>4, <3>5, <3>7 DEF ViewerFeed, PastEnd
  <2>3. CASE Receive(v)
    <3> DEFINE x == viewer[v]
               y == viewer'[v]
               q == x.queue
               ev == Head(q)
    <3>1. q \in Seq(Event) /\ q # <<>> /\ x.next \in 0 .. MaxRows /\ MaxRows \in Nat
      BY <1>0, <2>3, CaptureAssumptions DEF Receive, Viewer, CaptureAssumptions
    <3>2. ev \in Event /\ x.next \in Nat
      BY <3>1
    <3>3. ev.type \in {"packets", "end"} /\ ev.rows[1] \in Nat /\ ev.rows[2] \in Nat
      BY <3>2, EventRows
    <3>4. /\ y.sub = x.sub /\ y.dropped = x.dropped /\ y.queue = Tail(q)
          /\ y.gap = (x.gap \/ (ev.type = "packets" /\ ev.rows[1] > x.next))
          /\ y.next = IF ev.type = "packets" /\ ev.rows[2] > x.next THEN ev.rows[2] ELSE x.next
          /\ y.ended = (x.ended \/ ev.type = "end")
      <4>1. CASE ev.type = "end"
        <5>1. y = [x EXCEPT !.queue = Tail(q), !.ended = TRUE]
          BY <1>0, <2>3, <4>1 DEF Receive
        <5>2. x.gap \in BOOLEAN
          BY <1>0 DEF Viewer
        <5> QED BY <1>0, <4>1, <5>1, <5>2 DEF Viewer
      <4>2. CASE ev.type = "packets"
        <5>1. y = [x EXCEPT !.queue = Tail(q), !.gap = x.gap \/ ev.rows[1] > x.next,
                            !.next = IF ev.rows[2] > x.next THEN ev.rows[2] ELSE x.next]
          BY <1>0, <2>3, <4>2 DEF Receive
        <5>2. x.ended \in BOOLEAN
          BY <1>0 DEF Viewer
        <5> QED BY <1>0, <4>2, <5>1, <5>2 DEF Viewer
      <4> QED BY <3>3, <4>1, <4>2
    <3>5. y.next \in Nat /\ y.ended \in BOOLEAN
      BY <3>2, <3>3, <3>4
    <3>6. SUFFICES ASSUME x.sub, ~x.dropped
                   PROVE  /\ ~y.gap /\ InOrder(Tail(q), y.next) /\ Within(Tail(q), y.next, ls.total)
                          /\ Covered(Tail(q), y.next, From(v), Len(Tail(q)))
                          /\ PastEnd(v) => EndTold(Tail(q), y.ended)
      BY <1>1, <1>3, <3>4 DEF ViewerFeed, PastEnd
    <3>7. /\ ~x.gap /\ InOrder(q, x.next) /\ Within(q, x.next, ls.total)
          /\ Covered(q, x.next, From(v), Len(q))
          /\ PastEnd(v) => EndTold(q, x.ended)
      BY <3>6 DEF Feed, ViewerFeed, PastEnd
    <3>8. From(v) \in Nat
      BY FromType
    <3> HIDE DEF x, y, q
    <3>9. /\ ev.type = "packets" => ev.rows[1] <= x.next
          /\ InOrder(Tail(q), y.next) /\ Within(Tail(q), y.next, ls.total)
          /\ \A a \in Nat : Covered(q, x.next, a, Len(q)) => Covered(Tail(q), y.next, a, Len(Tail(q)))
          /\ EndTold(q, x.ended) => EndTold(Tail(q), y.ended)
      BY <1>0, <3>1, <3>2, <3>4, <3>5, <3>7, TailFeed
    <3>10. ~y.gap
      <4>1. ev.type = "packets" => ~(ev.rows[1] > x.next)
        BY <3>2, <3>3, <3>9
      <4> QED BY <3>4, <3>7, <4>1
    <3> QED BY <3>7, <3>8, <3>9, <3>10
  <2> QED BY <2>1, <2>2, <2>3
<1> QED BY <1>2, <1>4, <1>5 DEF Feed

\* Requests do not touch the feed, until a deletion closes the channels.
LEMMA HandlerFeed ==
  ASSUME TypeOK, TypeOK', Feed, NEW h \in Handlers,
         StopCaptureSession(h) \/ DeleteCaptureSession(h) \/ HandlerStep(h)
  PROVE  Feed'
<1>0. ls \in Live /\ ls.total \in Nat
  BY LiveCounts DEF TypeOK
<1>1. ls'.total = ls.total /\ ls'.pushed = ls.pushed /\ ls'.done = ls.done
  BY <1>0 DEF StopCaptureSession, DeleteCaptureSession, HandlerStep, MarkStopped, StopWaits, DropSession,
              RemoveRecording, EraseSession, Reply, Live
<1>2. UNCHANGED <<reader, pusher>>
  BY DEF StopCaptureSession, DeleteCaptureSession, HandlerStep, MarkStopped, StopWaits, DropSession,
         RemoveRecording, EraseSession, Reply
<1>3. \A v \in Viewers : viewer'[v] = viewer[v] \/ ~viewer'[v].sub
  <2>1. CASE DropSession(h)
    <3>1. ASSUME NEW v \in Viewers, ls.mapped /\ viewer[v].sub PROVE ~viewer'[v].sub
      <4>1. viewer'[v] = [viewer[v] EXCEPT !.chan = "closed", !.sub = FALSE] /\ viewer[v] \in Viewer
        BY <2>1, <3>1 DEF DropSession, TypeOK
      <4> QED BY <4>1 DEF Viewer
    <3> QED BY <2>1, <3>1 DEF DropSession
  <2>2. CASE ~DropSession(h)
    BY <2>2 DEF StopCaptureSession, DeleteCaptureSession, HandlerStep, MarkStopped, StopWaits,
                RemoveRecording, EraseSession, Reply
  <2> QED BY <2>1, <2>2
<1>4. PushBounds'
  BY <1>1, <1>2 DEF Feed, PushBounds
<1>5. ASSUME NEW v \in Viewers PROVE ViewerFeed(v)'
  <2>1. From(v)' = From(v) /\ PastEnd(v)' = PastEnd(v)
    BY <1>1, <1>2 DEF From, PastEnd
  <2>2. ls.total <= ls'.total
    BY <1>0, <1>1
  <2>3. CASE ~viewer'[v].sub
    BY <2>3 DEF ViewerFeed
  <2>4. CASE viewer'[v] = viewer[v]
    BY <2>1, <2>2, <2>4, KeepFeed DEF Feed
  <2> QED BY <1>3, <2>3, <2>4
<1> QED BY <1>4, <1>5 DEF Feed

\* No step of the specification breaks a feed.
LEMMA NextFeed == TypeOK /\ TypeOK' /\ Life /\ Feed /\ [Next]_vars => Feed'
<1> SUFFICES ASSUME TypeOK, TypeOK', Life, Feed, [Next]_vars PROVE Feed'
  OBVIOUS
<1>1. CASE SendPanics \/ ControllerDies
  BY <1>1, RestartFeed DEF SendPanics, ControllerDies
<1>2. CASE UNCHANGED vars
  BY <1>2 DEF vars, Feed, PushBounds, ViewerFeed, From
<1> QED BY <1>1, <1>2, CreationFeed, RunFeed, PushFeed, ViewerStepFeed, HandlerFeed DEF Next

----------------------------------------------------------------------------
(* The theorems *)

\* The invariant implies what the viewers are promised.
LEMMA IInvFeedIsComplete == IInv => FeedIsComplete
<1> SUFFICES ASSUME IInv, NEW v \in Viewers, viewer[v].sub, ~viewer[v].dropped
             PROVE  /\ ~viewer[v].gap
                    /\ reader.at = "over" /\ pusher.at = "over" /\ viewer[v].queue = <<>>
                         => viewer[v].next = ls.total /\ viewer[v].ended
  BY DEF FeedIsComplete
<1> DEFINE x == viewer[v]
<1>1. ViewerFeed(v) /\ PushBounds /\ TypeOK
  BY DEF IInv, Feed
<1>2. ~x.gap
  BY <1>1 DEF ViewerFeed
<1>3. ASSUME reader.at = "over", pusher.at = "over", x.queue = <<>> PROVE x.next = ls.total /\ x.ended
  <2>1. Len(x.queue) = 0
    BY <1>3
  <2>2. x.next <= ls.total /\ Covered(x.queue, x.next, ls.total, 0) /\ EndTold(x.queue, x.ended)
    BY <1>1, <1>3, <2>1 DEF ViewerFeed, Within, From, PushBounds
  <2>3. ls.total <= x.next /\ x.ended
    BY <2>1, <2>2 DEF Covered, EndTold
  <2>4. ls.total \in Nat /\ x.next \in 0 .. MaxRows /\ MaxRows \in Nat
    BY <1>1, LiveCounts DEF TypeOK, Viewer
  <2> QED BY <2>2, <2>3, <2>4
<1> QED BY <1>2, <1>3

\* The inductive invariant holds in every state of every behaviour.
LEMMA Invariance == Spec => []IInv
<1>1. Init => IInv
  BY InitType, InitLife, InitFeed DEF IInv, Life
<1>2. IInv /\ [Next]_vars => IInv'
  BY NextType, NextLife, NextFeed DEF IInv, Life
<1> QED BY <1>1, <1>2, PTL DEF Spec

(***************************************************************************)
(* Every value of the session's state has its type: in particular no       *)
(* viewer's channel holds more than subscriberBuffer events, and only an   *)
(* open channel is subscribed (liveSession.flush, finish, Subscribe).      *)
(***************************************************************************)
THEOREM TypeCorrect == Spec => []TypeOK
<1>1. IInv => TypeOK
  BY DEF IInv
<1> QED BY <1>1, Invariance, PTL

(***************************************************************************)
(* A record says Running only while its session is being started or its    *)
(* reader has not reported (NewCaptureUsecase, captureEnded), whatever the *)
(* requests, viewers and deaths of the controller.                         *)
(***************************************************************************)
THEOREM RunningHasReader == Spec => []RunningIsCaptured
<1>1. IInv => RunningIsCaptured
  BY DEF IInv
<1> QED BY <1>1, Invariance, PTL

(***************************************************************************)
(* A stop or a deletion that waited for the reader (StopSession) goes on   *)
(* only after the outcome is in the record.                                *)
(***************************************************************************)
THEOREM StopSeesOutcome == Spec => []StopReportsOutcome
<1>1. IInv => StopReportsOutcome
  BY DEF IInv
<1> QED BY <1>1, Invariance, PTL

(***************************************************************************)
(* A subscriber that lost no event to a full channel sees no gap, and at   *)
(* the end every row and the end event (flush, finish, Subscribe), for any *)
(* size of the channels and any order of ticks, joins, leaves and reads.   *)
(***************************************************************************)
THEOREM FeedHasNoHole == Spec => []FeedIsComplete
  BY IInvFeedIsComplete, Invariance, PTL

=============================================================================
