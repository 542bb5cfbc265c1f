--------------------------- MODULE CaptureSession ---------------------------
(***************************************************************************)
(* One capture session: its record and recording (biz/capture.go), the     *)
(* goroutines that consume the capture stream and push batches of rows     *)
(* (capture/manager.go), and the viewers that follow it (capture_ws.go).   *)
(*                                                                         *)
(* Rows are their indices, so a batch is an interval <<from, to>> that     *)
(* holds from .. to - 1.  A step is what one goroutine does under one      *)
(* lock, one send, or one statement on the database; a send on a closed    *)
(* channel panics and takes the controller down.                           *)
(***************************************************************************)
EXTENDS Integers, Sequences, FiniteSets, TLC

CONSTANTS
  Handlers,         \* API handlers that stop or delete the session
  Viewers,          \* WebSocket connections
  subscriberBuffer, \* events a viewer's channel holds
  MaxRows,          \* bound: packets in the stream
  MaxBatches        \* bound: ticks of the push loop that find rows

ASSUME CaptureAssumptions ==
  /\ subscriberBuffer \in Nat \ {0}
  /\ MaxRows \in Nat /\ MaxBatches \in Nat

VARIABLES
  row,     \* the session's record
  file,    \* the recording is on disk
  create,  \* the handler that creates the session
  ls,      \* the live session
  reader,  \* where run is
  pusher,  \* where pushLoop is, with the batch it sends and to whom
  handler, \* stop and delete requests
  viewer,  \* the viewers
  batches  \* batches pushed so far

vars == <<row, file, create, ls, reader, pusher, handler, viewer, batches>>

----------------------------------------------------------------------------
(* State *)

Final  == {"Completed", "Stopped", "Failed"}
Rows   == {"none", "Running", "deleted"} \cup Final
Batch  == (0 .. MaxRows) \X (0 .. MaxRows)
Event  == [type : {"packets", "end"}, rows : Batch]

Live   == [mapped : BOOLEAN, state : {""} \cup Final, stopped : BOOLEAN,
           done : BOOLEAN, total : 0 .. MaxRows, pushed : 0 .. MaxRows, broken : BOOLEAN]
NoLive == [mapped |-> FALSE, state |-> "", stopped |-> FALSE,
           done |-> FALSE, total |-> 0, pushed |-> 0, broken |-> FALSE]

\* at: off, or the place in the goroutine; to: the channels still to send to.
Reader == [at : {"off", "consume", "result", "persist", "finish", "tell", "over"},
           result : Final, to : SUBSET Viewers]
NoReader == [at |-> "off", result |-> "Completed", to |-> {}]
Pusher == [at : {"off", "tick", "send", "over"}, rows : Batch, to : SUBSET Viewers]
NoPusher == [at |-> "off", rows |-> <<0, 0>>, to |-> {}]

\* next, ended, dropped and gap are what the client has seen of the feed.
Viewer == [chan : {"none", "open", "closed"}, sub : BOOLEAN, queue : Seq(Event),
           next : 0 .. MaxRows, ended : BOOLEAN, dropped : BOOLEAN, gap : BOOLEAN]
NoViewer == [chan |-> "none", sub |-> FALSE, queue |-> <<>>, next |-> 0, ended |-> FALSE,
             dropped |-> FALSE, gap |-> FALSE]

Handler == [at : {"idle", "mark", "wait", "drop", "remove", "erase", "done"},
            op : {"stop", "delete"}, waited : BOOLEAN]
NoHandler == [at |-> "idle", op |-> "stop", waited |-> FALSE]

TypeOK ==
  /\ row \in Rows /\ file \in BOOLEAN
  /\ create \in {"idle", "file", "exec", "done"}
  /\ ls \in Live /\ reader \in Reader /\ pusher \in Pusher
  /\ handler \in [Handlers -> Handler]
  /\ viewer \in [Viewers -> Viewer]
  /\ batches \in 0 .. MaxBatches
  /\ \A v \in Viewers : /\ Len(viewer[v].queue) <= subscriberBuffer
                        /\ viewer[v].sub => viewer[v].chan = "open"
  /\ ls.pushed <= ls.total

Init ==
  /\ row = "none" /\ file = FALSE /\ create = "idle"
  /\ ls = NoLive /\ reader = NoReader /\ pusher = NoPusher
  /\ handler = [h \in Handlers |-> NoHandler]
  /\ viewer = [v \in Viewers |-> NoViewer]
  /\ batches = 0

Subscribed == {v \in Viewers : viewer[v].sub}

----------------------------------------------------------------------------
(* CreateCaptureSession: the record says Running before anything captures *)

CreateCaptureSession ==
  /\ create = "idle"
  /\ row' = "Running"
  /\ create' = "file"
  /\ UNCHANGED <<file, ls, reader, pusher, handler, viewer, batches>>

CreateFile ==
  /\ create = "file"
  /\ file' = TRUE
  /\ create' = "exec"
  /\ UNCHANGED <<row, ls, reader, pusher, handler, viewer, batches>>

\* The exec stream is up: the session is registered and its goroutines run.
StartSession ==
  /\ create = "exec"
  /\ ls' = [NoLive EXCEPT !.mapped = TRUE]
  /\ reader' = [NoReader EXCEPT !.at = "consume"]
  /\ pusher' = [NoPusher EXCEPT !.at = "tick"]
  /\ create' = "done"
  /\ UNCHANGED <<row, file, handler, viewer, batches>>

\* The file or the exec stream fails; the record may have been deleted.
StartFails ==
  /\ create \in {"file", "exec"}
  /\ row' = IF row = "deleted" THEN row ELSE "Failed"
  /\ create' = "done"
  /\ UNCHANGED <<file, ls, reader, pusher, handler, viewer, batches>>

----------------------------------------------------------------------------
(* run *)

\* liveSession.append: the row is in the window and waits for the next push.
Append1 ==
  /\ reader.at = "consume"
  /\ ls.total < MaxRows
  /\ ls' = [ls EXCEPT !.total = @ + 1]
  /\ UNCHANGED <<row, file, create, reader, pusher, handler, viewer, batches>>

\* The stream ends by itself, well or badly, or because it was closed.
StreamEnds ==
  /\ reader.at = "consume"
  /\ reader' = [reader EXCEPT !.at = "result"]
  /\ \E bad \in BOOLEAN : ls' = [ls EXCEPT !.broken = bad]
  /\ UNCHANGED <<row, file, create, pusher, handler, viewer, batches>>

\* A session the user stopped did not fail.
ReadResult ==
  /\ reader.at = "result"
  /\ reader' = [reader EXCEPT !.at = "persist",
                  !.result = IF ls.stopped THEN "Stopped"
                             ELSE IF ls.broken THEN "Failed" ELSE "Completed"]
  /\ UNCHANGED <<row, file, create, ls, pusher, handler, viewer, batches>>

\* Mutant: subscribers and StopSession hear of the end before the record.
EndBeforePersist ==
  /\ reader.at = "persist"
  /\ reader' = [reader EXCEPT !.at = "tell", !.to = Subscribed]
  /\ ls' = [ls EXCEPT !.state = reader.result]
  /\ UNCHANGED <<row, file, create, pusher, handler, viewer, batches>>

\* onEnd: captureEnded persists the outcome, unless the record is gone.
CaptureEnded ==
  /\ reader.at = "persist"
  /\ row' = IF row = "deleted" THEN row ELSE reader.result
  /\ reader' = [reader EXCEPT !.at = "finish"]
  /\ UNCHANGED <<file, create, ls, pusher, handler, viewer, batches>>

\* finish marks the session ended and notes who subscribed.
FinishSession ==
  /\ reader.at = "finish"
  /\ ls' = [ls EXCEPT !.state = reader.result]
  /\ reader' = [reader EXCEPT !.at = "tell", !.to = Subscribed]
  /\ UNCHANGED <<row, file, create, pusher, handler, viewer, batches>>

\* Mutant: the channel has no bound.
OfferedAlways(v, ev) == [viewer EXCEPT ![v].queue = Append(@, ev)]

\* A send that does not block: an event finds room or is dropped.
Offered(v, ev) ==
  IF Len(viewer[v].queue) < subscriberBuffer
  THEN [viewer EXCEPT ![v].queue = Append(@, ev)]
  ELSE [viewer EXCEPT ![v].dropped = TRUE]

\* Mutant: the reader waits for room in the channel.
TellEndBlocks(v) ==
  /\ reader.at = "tell" /\ v \in reader.to
  /\ viewer[v].chan = "open"
  /\ Len(viewer[v].queue) < subscriberBuffer
  /\ viewer' = Offered(v, [type |-> "end", rows |-> <<0, 0>>])
  /\ reader' = [reader EXCEPT !.to = @ \ {v}]
  /\ UNCHANGED <<row, file, create, ls, pusher, handler, batches>>

TellEnd(v) ==
  /\ reader.at = "tell" /\ v \in reader.to
  /\ viewer[v].chan = "open"
  /\ viewer' = Offered(v, [type |-> "end", rows |-> <<0, 0>>])
  /\ reader' = [reader EXCEPT !.to = @ \ {v}]
  /\ UNCHANGED <<row, file, create, ls, pusher, handler, batches>>

CloseDone ==
  /\ reader.at = "tell" /\ reader.to = {}
  /\ ls' = [ls EXCEPT !.done = TRUE]
  /\ reader' = [reader EXCEPT !.at = "over"]
  /\ UNCHANGED <<row, file, create, pusher, handler, viewer, batches>>

----------------------------------------------------------------------------
(* pushLoop *)

\* The rows no push has taken yet.
Pending == <<ls.pushed, ls.total>>

\* Mutant: no flush after done.
FlushNoLast ==
  /\ pusher.at = "tick"
  /\ ls.done \/ (ls.pushed < ls.total /\ batches < MaxBatches)
  /\ IF ~ls.done
     THEN /\ pusher' = [at |-> "send", rows |-> Pending, to |-> Subscribed]
          /\ ls' = [ls EXCEPT !.pushed = ls.total]
          /\ batches' = batches + 1
     ELSE /\ pusher' = [NoPusher EXCEPT !.at = "over"]
          /\ UNCHANGED <<ls, batches>>
  /\ UNCHANGED <<row, file, create, reader, handler, viewer>>

\* flush takes the pending rows and notes who subscribed; the last flush
\* comes after done.
Flush ==
  /\ pusher.at = "tick"
  /\ ls.done \/ (ls.pushed < ls.total /\ batches < MaxBatches)
  /\ IF ls.pushed < ls.total
     THEN /\ pusher' = [at |-> "send", rows |-> Pending, to |-> Subscribed]
          /\ ls' = [ls EXCEPT !.pushed = ls.total]
          /\ batches' = IF batches < MaxBatches THEN batches + 1 ELSE batches
     ELSE /\ pusher' = [NoPusher EXCEPT !.at = "over"]
          /\ UNCHANGED <<ls, batches>>
  /\ UNCHANGED <<row, file, create, reader, handler, viewer>>

SendBatch(v) ==
  /\ pusher.at = "send" /\ v \in pusher.to
  /\ viewer[v].chan = "open"
  /\ viewer' = Offered(v, [type |-> "packets", rows |-> pusher.rows])
  /\ pusher' = [pusher EXCEPT !.to = @ \ {v}]
  /\ UNCHANGED <<row, file, create, ls, reader, handler, batches>>

BatchSent ==
  /\ pusher.at = "send" /\ pusher.to = {}
  /\ pusher' = [NoPusher EXCEPT !.at = "tick"]
  /\ UNCHANGED <<row, file, create, ls, reader, handler, viewer, batches>>

----------------------------------------------------------------------------
(* Viewers *)

\* Subscribe: the window and the registration in one critical section.
Subscribe(v) ==
  /\ viewer[v].chan = "none"
  /\ row \notin {"none", "deleted"} /\ ls.mapped
  /\ viewer' = [viewer EXCEPT ![v] =
       [NoViewer EXCEPT !.chan = IF ls.state = "" THEN "open" ELSE "closed",
                        !.sub = (ls.state = ""), !.next = ls.total, !.ended = (ls.state # "")]]
  /\ UNCHANGED <<row, file, create, ls, reader, pusher, handler, batches>>

\* The connection writes the next event to its client.
Receive(v) ==
  /\ viewer[v].queue # <<>>
  /\ LET ev == Head(viewer[v].queue)
         x == viewer[v]
     IN viewer' = [viewer EXCEPT ![v] =
          IF ev.type = "end" THEN [x EXCEPT !.queue = Tail(@), !.ended = TRUE]
          ELSE [x EXCEPT !.queue = Tail(@),
                         !.gap = @ \/ ev.rows[1] > x.next,
                         !.next = IF ev.rows[2] > @ THEN ev.rows[2] ELSE @]]
  /\ UNCHANGED <<row, file, create, ls, reader, pusher, handler, batches>>

\* The client goes away: cancel closes the channel it removes.
Cancel(v) ==
  /\ viewer[v].sub
  /\ viewer' = [viewer EXCEPT ![v] = [NoViewer EXCEPT !.chan = "closed"]]
  /\ UNCHANGED <<row, file, create, ls, reader, pusher, handler, batches>>

----------------------------------------------------------------------------
(* StopCaptureSession and DeleteCaptureSession *)

StopCaptureSession(h) ==
  /\ handler[h].at = "idle"
  /\ row = "Running"
  /\ handler' = [handler EXCEPT ![h] = [NoHandler EXCEPT !.at = "mark"]]
  /\ UNCHANGED <<row, file, create, ls, reader, pusher, viewer, batches>>

DeleteCaptureSession(h) ==
  /\ handler[h].at = "idle"
  /\ row \notin {"none", "deleted"}
  /\ handler' = [handler EXCEPT ![h] = [NoHandler EXCEPT !.at = "mark", !.op = "delete"]]
  /\ UNCHANGED <<row, file, create, ls, reader, pusher, viewer, batches>>

AfterStop(h) == IF handler[h].op = "delete" THEN "drop" ELSE "done"

\* StopSession: without a live session there is nothing to do; one that has
\* ended is not waited for.
MarkStopped(h) ==
  /\ handler[h].at = "mark"
  /\ ls' = IF ls.mapped THEN [ls EXCEPT !.stopped = TRUE] ELSE ls
  /\ handler' = [handler EXCEPT ![h].at =
                   IF ls.mapped /\ ls.state = "" THEN "wait" ELSE AfterStop(h)]
  /\ UNCHANGED <<row, file, create, reader, pusher, viewer, batches>>

\* Mutant: StopSession only closes the stream.
StopDoesNotWait(h) ==
  /\ handler[h].at = "wait"
  /\ handler' = [handler EXCEPT ![h].at = AfterStop(h), ![h].waited = TRUE]
  /\ UNCHANGED <<row, file, create, ls, reader, pusher, viewer, batches>>

\* The stream was closed, which ends it; StopSession waits for the reader.
StopWaits(h) ==
  /\ handler[h].at = "wait"
  /\ ls.done
  /\ handler' = [handler EXCEPT ![h].at = AfterStop(h), ![h].waited = TRUE]
  /\ UNCHANGED <<row, file, create, ls, reader, pusher, viewer, batches>>

\* Drop forgets the live session and closes its subscribers' channels.
DropSession(h) ==
  /\ handler[h].at = "drop"
  /\ ls' = [ls EXCEPT !.mapped = FALSE]
  /\ viewer' = [v \in Viewers |->
       IF ls.mapped /\ viewer[v].sub THEN [viewer[v] EXCEPT !.chan = "closed", !.sub = FALSE]
       ELSE viewer[v]]
  /\ handler' = [handler EXCEPT ![h].at = "remove"]
  /\ UNCHANGED <<row, file, create, reader, pusher, batches>>

RemoveRecording(h) ==
  /\ handler[h].at = "remove"
  /\ file' = FALSE
  /\ handler' = [handler EXCEPT ![h].at = "erase"]
  /\ UNCHANGED <<row, create, ls, reader, pusher, viewer, batches>>

EraseSession(h) ==
  /\ handler[h].at = "erase"
  /\ row' = "deleted"
  /\ handler' = [handler EXCEPT ![h].at = "done"]
  /\ UNCHANGED <<file, create, ls, reader, pusher, viewer, batches>>

Reply(h) ==
  /\ handler[h].at = "done"
  /\ handler' = [handler EXCEPT ![h] = NoHandler]
  /\ UNCHANGED <<row, file, create, ls, reader, pusher, viewer, batches>>

----------------------------------------------------------------------------
(* The controller's process *)

\* sweepExpired: a recording that is not live goes a day after it ended.
SweepExpired ==
  /\ file
  /\ ls.mapped => ls.state # ""
  /\ create \in {"idle", "done"} /\ reader.at \in {"off", "over"}
  /\ file' = FALSE
  /\ UNCHANGED <<row, create, ls, reader, pusher, handler, viewer, batches>>

\* NewCaptureUsecase fails the sessions nothing captures for any more.
FailInterrupted == row' = IF row = "Running" THEN "Failed" ELSE row

\* The process dies, and starts again before it serves a request.
Restart ==
  /\ FailInterrupted
  /\ create' = IF row = "none" THEN "idle" ELSE "done"
  /\ ls' = NoLive /\ reader' = NoReader /\ pusher' = NoPusher
  /\ handler' = [h \in Handlers |-> NoHandler]
  /\ viewer' = [v \in Viewers |-> NoViewer]
  /\ batches' = 0
  /\ UNCHANGED file

\* A send on a channel that cancel or Drop has closed meanwhile.
SendPanics ==
  /\ \/ reader.at = "tell" /\ \E v \in reader.to : viewer[v].chan # "open"
     \/ pusher.at = "send" /\ \E v \in pusher.to : viewer[v].chan # "open"
  /\ Restart

ControllerDies ==
  /\ row # "none"
  /\ Restart

----------------------------------------------------------------------------

Run ==
  \/ StreamEnds \/ ReadResult \/ CaptureEnded \/ FinishSession \/ CloseDone
  \/ \E v \in Viewers : TellEnd(v)

PushLoop == Flush \/ BatchSent \/ \E v \in Viewers : SendBatch(v)

Creation == CreateCaptureSession \/ CreateFile \/ StartSession \/ StartFails

HandlerStep(h) ==
  \/ MarkStopped(h) \/ StopWaits(h) \/ DropSession(h) \/ RemoveRecording(h)
  \/ EraseSession(h) \/ Reply(h)

Next ==
  \/ Creation \/ Append1 \/ Run \/ PushLoop \/ SweepExpired
  \/ \E v \in Viewers : Subscribe(v) \/ Receive(v) \/ Cancel(v)
  \/ \E h \in Handlers : StopCaptureSession(h) \/ DeleteCaptureSession(h) \/ HandlerStep(h)
  \/ SendPanics \/ ControllerDies

(***************************************************************************)
(* The reader's goroutine goes on while it can, and a tool's run is bounded *)
(* by its duration, so its stream ends.  Nobody has to request, subscribe  *)
(* or read anything, and the push loop may be slow.                        *)
(***************************************************************************)
Spec == Init /\ [][Next]_vars /\ WF_vars(Run \/ SendPanics)

----------------------------------------------------------------------------
(* Properties *)

(***************************************************************************)
(* No one can "observe a Running session nothing is capturing for"         *)
(* (NewCaptureUsecase): a record says Running only while the session is    *)
(* being started or its reader has not reported yet.                       *)
(***************************************************************************)
RunningIsCaptured ==
  row = "Running" =>
    create \in {"file", "exec"} \/ reader.at \in {"consume", "result", "persist"}

(***************************************************************************)
(* StopSession "blocks until the reader goroutine has persisted the        *)
(* outcome": a stop that waited answers with a terminal state, and a       *)
(* deletion that waited has stopped everything it then removes.            *)
(***************************************************************************)
StopReportsOutcome ==
  \A h \in Handlers :
    handler[h].waited => row \in Final \cup {"deleted"} /\ reader.at = "over"

(***************************************************************************)
(* What a viewer misses it can tell: rows come in order, a gap in the      *)
(* indices or a lost end only where an event was dropped on a full         *)
(* channel, and when the session is over and the viewer has read its       *)
(* channel it has seen every row and the end.                              *)
(***************************************************************************)
FeedIsComplete ==
  \A v \in Viewers : LET x == viewer[v] IN
    x.sub /\ ~x.dropped =>
      /\ ~x.gap
      /\ reader.at = "over" /\ pusher.at = "over" /\ x.queue = <<>>
           => x.next = ls.total /\ x.ended

(***************************************************************************)
(* A stop or a deletion that waits for the reader does not wait for ever:  *)
(* the reader gets to its end although viewers do not read.                *)
(***************************************************************************)
ReaderEnds == reader.at = "consume" ~> reader.at \in {"over", "off"}

=============================================================================
