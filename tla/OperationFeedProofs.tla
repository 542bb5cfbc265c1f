------------------------ MODULE OperationFeedProofs ------------------------
(***************************************************************************)
(* Proofs about OperationFeed, for any operations, weights and connections *)
(* and any size of the channels: its channels implement LatestFeed, and    *)
(* what a client was shown last of an operation is what was published last.*)
(*                                                                         *)
(* A frame that is received must be newer than the one before it.  That    *)
(* needs the inductive invariant Ordered: the numbers of the frames that   *)
(* wait in a channel are ascending and lie above the last one received and *)
(* at or below the last one published.  What is shown also depends on what *)
(* the frames carry: Current says that the newest frame of an operation in *)
(* a channel, or else the view, has the document of the operation.         *)
(* That the progress never moves back rests on OnBar, which bounds it by   *)
(* the percentages before and after the current step, and on the running   *)
(* sums of the weights, which increase.                                    *)
(***************************************************************************)
EXTENDS OperationFeed, WellFoundedInduction, TLAPS

\* The frames that wait for connection s, by their numbers.
QueueOrdered(s) ==
  LET q == sub[s].queue
  IN /\ \A k \in 1 .. Len(q) : q[k].n \in Int /\ sub[s].seen < q[k].n /\ q[k].n <= last
     /\ \A j, k \in 1 .. Len(q) : j < k => q[j].n < q[k].n

\* A connection: its fields, a channel of frames, and -1 as the number seen while it is off.
Connected(s) ==
  /\ DOMAIN sub[s] = {"pc", "queue", "seen", "view", "lost"}
  /\ \E S : sub[s].queue \in Seq(S)
  /\ sub[s].seen \in -1 .. last
  /\ (sub[s].pc = "off") <=> (sub[s].seen = -1)

Ordered ==
  /\ last \in Nat
  /\ DOMAIN sub = Subs
  /\ \A s \in Subs : Connected(s) /\ QueueOrdered(s)

----------------------------------------------------------------------------
(* The channel *)

\* A frame newer than every other one is appended: the channel stays
\* ascending and above what was seen.
LEMMA AppendOrdered ==
  ASSUME NEW S, NEW q \in Seq(S), NEW f, NEW l \in Nat, NEW low \in -1 .. l, f.n = l + 1,
         \A k \in 1 .. Len(q) : q[k].n \in Int /\ low < q[k].n /\ q[k].n <= l,
         \A j, k \in 1 .. Len(q) : j < k => q[j].n < q[k].n
  PROVE  LET r == Append(q, f)
         IN /\ r \in Seq(S \cup {f})
            /\ \A k \in 1 .. Len(r) : r[k].n \in Int /\ low < r[k].n /\ r[k].n <= l + 1
            /\ \A j, k \in 1 .. Len(r) : j < k => r[j].n < r[k].n
<1> DEFINE r == Append(q, f)
<1>1. q \in Seq(S \cup {f}) /\ f \in S \cup {f}
  OBVIOUS
<1>2. r \in Seq(S \cup {f}) /\ Len(r) = Len(q) + 1 /\ Len(q) \in Nat
  BY <1>1
<1>3. r[Len(q) + 1] = f /\ \A k \in 1 .. Len(q) : r[k] = q[k]
  BY <1>1
<1> HIDE DEF r
<1>4. \A k \in 1 .. Len(r) : k = Len(q) + 1 \/ k \in 1 .. Len(q)
  BY <1>2
<1>5. \A k \in 1 .. Len(r) : r[k].n \in Int /\ low < r[k].n /\ r[k].n <= l + 1
  BY <1>3, <1>4
<1>6. ASSUME NEW j \in 1 .. Len(r), NEW k \in 1 .. Len(r), j < k
      PROVE  r[j].n < r[k].n
  <2>1. j \in 1 .. Len(q)
    BY <1>2, <1>6
  <2>2. CASE k \in 1 .. Len(q)
    BY <1>3, <1>6, <2>1, <2>2
  <2>3. CASE k = Len(q) + 1
    BY <1>3, <2>1, <2>3
  <2> QED
    BY <1>4, <2>2, <2>3
<1> QED
  BY <1>2, <1>5, <1>6 DEF r

\* The same of a push, which drops the oldest frame of a full channel.
LEMMA PushOrdered ==
  ASSUME NEW S, NEW q \in Seq(S), NEW f, NEW l \in Nat, NEW low \in -1 .. l, f.n = l + 1,
         \A k \in 1 .. Len(q) : q[k].n \in Int /\ low < q[k].n /\ q[k].n <= l,
         \A j, k \in 1 .. Len(q) : j < k => q[j].n < q[k].n
  PROVE  LET r == Push(q, f)
         IN /\ r \in Seq(S \cup {f})
            /\ \A k \in 1 .. Len(r) : r[k].n \in Int /\ low < r[k].n /\ r[k].n <= l + 1
            /\ \A j, k \in 1 .. Len(r) : j < k => r[j].n < r[k].n
<1> DEFINE t == IF Len(q) < Buffer THEN q ELSE Tail(q)
<1>1. /\ t \in Seq(S)
      /\ \A k \in 1 .. Len(t) : t[k].n \in Int /\ low < t[k].n /\ t[k].n <= l
      /\ \A j, k \in 1 .. Len(t) : j < k => t[j].n < t[k].n
  <2>1. CASE Len(q) < Buffer
    BY <2>1
  <2>2. CASE ~(Len(q) < Buffer)
    <3>1. t = Tail(q) /\ t \in Seq(S) /\ Len(t) = Len(q) - 1 /\ Len(q) \in Nat
      BY <2>2, FeedAssumptions
    <3>2. \A k \in 1 .. Len(t) : t[k] = q[k + 1] /\ k + 1 \in 1 .. Len(q)
      BY <2>2, FeedAssumptions, <3>1
    <3> HIDE DEF t
    <3>3. \A k \in 1 .. Len(t) : t[k].n \in Int /\ low < t[k].n /\ t[k].n <= l
      BY <3>2
    <3>4. ASSUME NEW j \in 1 .. Len(t), NEW k \in 1 .. Len(t), j < k PROVE t[j].n < t[k].n
      <4>1. j + 1 \in 1 .. Len(q) /\ k + 1 \in 1 .. Len(q) /\ j + 1 < k + 1
        BY <3>1, <3>2, <3>4
      <4> QED BY <3>2, <4>1
    <3> QED BY <3>1, <3>3, <3>4
  <2> QED
    BY <2>1, <2>2
<1>2. Push(q, f) = Append(t, f)
  BY DEF Push
<1> HIDE DEF t
<1> QED
  BY <1>1, <1>2, AppendOrdered

----------------------------------------------------------------------------
(* The invariant *)

\* The empty channel is a sequence, of no frames.
LEMMA EmptyChannel ==
  /\ <<>> \in Seq({})
  /\ Len(<<>>) = 0
  /\ 1 .. 0 = {}
  OBVIOUS

\* No connection, no frame.
LEMMA InitOrdered == Init => Ordered
<1> SUFFICES ASSUME Init PROVE Ordered
  OBVIOUS
<1>1. last = 0 /\ DOMAIN sub = Subs /\ \A s \in Subs : sub[s] = Detached
  BY DEF Init
<1>2. ASSUME NEW s \in Subs
      PROVE  Connected(s) /\ QueueOrdered(s)
  <2>1. /\ DOMAIN sub[s] = {"pc", "queue", "seen", "view", "lost"}
        /\ sub[s].queue = <<>> /\ sub[s].seen = -1 /\ sub[s].pc = "off"
    BY <1>1 DEF Detached
  <2>2. Connected(s)
    BY <1>1, <2>1, EmptyChannel DEF Connected
  <2>3. QueueOrdered(s)
    BY <2>1, EmptyChannel DEF QueueOrdered
  <2> QED
    BY <2>2, <2>3
<1> QED
  BY <1>1, <1>2 DEF Ordered

\* Nothing the channels or the counter depend on changes.
LEMMA StutterOrdered == Ordered /\ UNCHANGED <<last, sub>> => Ordered'
  BY DEF Ordered, Connected, QueueOrdered

\* publish gives every subscriber a frame newer than the ones it has.
LEMMA PublishOrdered ==
  ASSUME Ordered, NEW o \in Ops, Publish(o)
  PROVE  Ordered'
<1> DEFINE f == [n |-> last + 1, id |-> o, doc |-> op[o].doc]
<1>1. last' = last + 1 /\ last \in Nat /\ f.n = last + 1
  BY DEF Publish, Ordered
<1>2. DOMAIN sub' = Subs
  BY DEF Publish
<1>3. ASSUME NEW s \in Subs
      PROVE  Connected(s)' /\ QueueOrdered(s)'
  <2>1. Connected(s) /\ QueueOrdered(s)
    BY DEF Ordered
  <2>2. CASE sub[s].pc = "off"
    <3>1. sub'[s] = sub[s]
      BY <2>2 DEF Publish
    <3>2. Connected(s)'
      BY <1>1, <2>1, <3>1 DEF Connected
    <3>3. QueueOrdered(s)'
      <4>1. \A i \in Int : i <= last => i <= last'
        BY <1>1
      <4> QED
        BY <2>1, <3>1, <4>1 DEF QueueOrdered
    <3> QED
      BY <3>2, <3>3
  <2>3. CASE sub[s].pc # "off"
    <3>1. /\ DOMAIN sub'[s] = DOMAIN sub[s]
          /\ sub'[s].queue = Push(sub[s].queue, f)
          /\ sub'[s].seen = sub[s].seen
          /\ sub'[s].pc = sub[s].pc
      BY <2>1, <2>3 DEF Publish, Connected
    <3>2. PICK S : sub[s].queue \in Seq(S)
      BY <2>1 DEF Connected
    <3> DEFINE q == sub[s].queue
               r == Push(q, f)
    <3>3. \A k \in 1 .. Len(q) : q[k].n \in Int /\ sub[s].seen < q[k].n /\ q[k].n <= last
      BY <2>1 DEF QueueOrdered
    <3>4. \A j, k \in 1 .. Len(q) : j < k => q[j].n < q[k].n
      BY <2>1 DEF QueueOrdered
    <3>5. sub[s].seen \in -1 .. last
      BY <2>1 DEF Connected
    <3> HIDE DEF f
    <3>6. /\ r \in Seq(S \cup {f})
          /\ \A k \in 1 .. Len(r) : r[k].n \in Int /\ sub[s].seen < r[k].n /\ r[k].n <= last + 1
          /\ \A j, k \in 1 .. Len(r) : j < k => r[j].n < r[k].n
      BY <1>1, <3>2, <3>3, <3>4, <3>5, PushOrdered
    <3>7. sub'[s].queue = r
      BY <3>1
    <3> HIDE DEF q, r
    <3>8. QueueOrdered(s)'
      BY <1>1, <3>1, <3>6, <3>7 DEF QueueOrdered
    <3>9. Connected(s)'
      BY <1>1, <2>1, <3>1, <3>6, <3>7 DEF Connected
    <3> QED
      BY <3>8, <3>9
  <2> QED
    BY <2>2, <2>3
<1> QED
  BY <1>1, <1>2, <1>3 DEF Ordered

\* A frame that is received is newer than the one before; the others stay.
LEMMA ReceiveOrdered ==
  ASSUME Ordered, NEW s \in Subs, Receive(s)
  PROVE  /\ Ordered'
         /\ sub'[s].seen \in (sub[s].seen + 1) .. last
         /\ sub' = [sub EXCEPT ![s] = sub'[s]]
         /\ last' = last
<1> DEFINE q == sub[s].queue
           t == Tail(q)
<1>1. Connected(s) /\ QueueOrdered(s) /\ last' = last /\ sub[s].pc = "live" /\ q # <<>>
  BY DEF Ordered, Receive
<1>2. /\ DOMAIN sub'[s] = DOMAIN sub[s]
      /\ sub'[s].queue = t
      /\ sub'[s].seen = Head(q).n
      /\ sub'[s].pc = sub[s].pc
      /\ sub' = [sub EXCEPT ![s] = sub'[s]]
  <2> DEFINE y == [sub[s] EXCEPT !.queue = Tail(sub[s].queue), !.seen = Head(sub[s].queue).n,
                    !.view = [sub[s].view EXCEPT ![Head(sub[s].queue).id] = Head(sub[s].queue).doc]]
  <2>1. sub' = [sub EXCEPT ![s] = y] /\ DOMAIN sub = Subs
    BY DEF Receive, Ordered
  <2>2. DOMAIN y = DOMAIN sub[s] /\ y.queue = t /\ y.seen = Head(q).n /\ y.pc = sub[s].pc
    BY <1>1 DEF Connected
  <2> HIDE DEF y
  <2> QED
    BY <2>1, <2>2
<1>3. PICK S : q \in Seq(S)
  BY <1>1 DEF Connected
<1>4. Len(q) \in Nat /\ Len(q) >= 1 /\ Head(q) = q[1] /\ t \in Seq(S) /\ Len(t) = Len(q) - 1
  BY <1>1, <1>3
<1>5. \A k \in 1 .. Len(t) : t[k] = q[k + 1] /\ k + 1 \in 1 .. Len(q)
  BY <1>1, <1>3, <1>4
<1>6. /\ \A k \in 1 .. Len(q) : q[k].n \in Int /\ sub[s].seen < q[k].n /\ q[k].n <= last
      /\ \A j, k \in 1 .. Len(q) : j < k => q[j].n < q[k].n
  BY <1>1 DEF QueueOrdered
<1>7. sub[s].seen \in -1 .. last /\ last \in Nat /\ sub[s].seen # -1
  BY <1>1 DEF Connected, Ordered
<1> HIDE DEF q, t
<1>8. sub'[s].seen \in (sub[s].seen + 1) .. last
  BY <1>2, <1>4, <1>6, <1>7
<1>9. QueueOrdered(s)'
  <2>1. \A k \in 1 .. Len(t) : t[k].n \in Int /\ q[1].n < t[k].n /\ t[k].n <= last
    BY <1>4, <1>5, <1>6
  <2>2. ASSUME NEW j \in 1 .. Len(t), NEW k \in 1 .. Len(t), j < k PROVE t[j].n < t[k].n
    <3>1. j + 1 \in 1 .. Len(q) /\ k + 1 \in 1 .. Len(q) /\ j + 1 < k + 1
      BY <1>4, <1>5, <2>2
    <3> QED BY <1>5, <1>6, <3>1
  <2> QED
    BY <1>1, <1>2, <1>4, <2>1, <2>2 DEF QueueOrdered
<1>10. Connected(s)'
  BY <1>1, <1>2, <1>4, <1>7, <1>8 DEF Connected
<1>11. DOMAIN sub' = Subs /\ \A u \in Subs : u # s => sub'[u] = sub[u]
  BY <1>2 DEF Ordered
<1>12. \A u \in Subs : u # s => Connected(u)' /\ QueueOrdered(u)'
  BY <1>1, <1>11 DEF Ordered, Connected, QueueOrdered
<1> QED
  BY <1>1, <1>2, <1>7, <1>8, <1>9, <1>10, <1>11, <1>12 DEF Ordered

\* A connection that subscribes or leaves has an empty channel.
LEMMA ResetOrdered ==
  ASSUME Ordered, NEW s \in Subs, NEW x, UNCHANGED last,
         sub' = [sub EXCEPT ![s] = x],
         DOMAIN x = {"pc", "queue", "seen", "view", "lost"}, x.queue = <<>>,
         x.seen \in -1 .. last, (x.pc = "off") <=> (x.seen = -1)
  PROVE  Ordered'
<1>1. DOMAIN sub' = Subs /\ sub'[s] = x /\ \A u \in Subs : u # s => sub'[u] = sub[u]
  BY DEF Ordered
<1>2. Connected(s)' /\ QueueOrdered(s)'
  <2>1. Connected(s)'
    BY <1>1, EmptyChannel DEF Connected
  <2>2. QueueOrdered(s)'
    BY <1>1, EmptyChannel DEF QueueOrdered
  <2> QED
    BY <2>1, <2>2
<1>3. \A u \in Subs : u # s => Connected(u)' /\ QueueOrdered(u)'
  BY <1>1 DEF Ordered, Connected, QueueOrdered
<1> QED
  BY <1>1, <1>2, <1>3 DEF Ordered
----------------------------------------------------------------------------
(* The refinement *)

seenBar == [s \in Subs |-> sub[s].seen]

\* A subscription starts at the last published frame, as Attach does.
LEMMA SubscribeOrdered ==
  ASSUME Ordered, NEW s \in Subs, Subscribe(s)
  PROVE  Ordered' /\ Latest!Attach(s)
<1> DEFINE x == [Detached EXCEPT !.pc = "list", !.seen = last]
<1>1. sub' = [sub EXCEPT ![s] = x] /\ last' = last /\ sub[s].pc = "off" /\ last \in Nat /\ DOMAIN sub = Subs
  BY DEF Subscribe, Ordered
<1>2. DOMAIN x = {"pc", "queue", "seen", "view", "lost"} /\ x.queue = <<>> /\ x.seen = last /\ x.pc = "list"
  BY DEF Detached
<1> HIDE DEF x
<1>3. Ordered'
  <2>1. x.seen \in -1 .. last /\ ((x.pc = "off") <=> (x.seen = -1)) /\ UNCHANGED last
    BY <1>1, <1>2
  <2> QED
    BY <1>1, <1>2, <2>1, ResetOrdered
<1>4. sub[s].seen = -1
  BY <1>1 DEF Ordered, Connected
<1>5. seenBar[s] = -1 /\ seenBar' = [seenBar EXCEPT ![s] = last]
  BY <1>1, <1>2, <1>4 DEF seenBar
<1> QED
  BY <1>1, <1>3, <1>5 DEF Latest!Attach, seenBar

\* The end of a subscription is Detach.
LEMMA LeaveOrdered ==
  ASSUME Ordered, NEW s \in Subs, Leave(s)
  PROVE  Ordered' /\ Latest!Detach(s)
<1>1. sub' = [sub EXCEPT ![s] = Detached] /\ last' = last /\ sub[s].pc # "off" /\ last \in Nat /\ DOMAIN sub = Subs
  BY DEF Leave, Ordered
<1>2. /\ DOMAIN Detached = {"pc", "queue", "seen", "view", "lost"} /\ Detached.queue = <<>>
      /\ Detached.seen = -1 /\ Detached.pc = "off"
  BY DEF Detached
<1>3. Ordered'
  <2> DEFINE x == Detached
  <2>1. x.seen \in -1 .. last /\ ((x.pc = "off") <=> (x.seen = -1)) /\ UNCHANGED last
    BY <1>1, <1>2
  <2>2. DOMAIN x = {"pc", "queue", "seen", "view", "lost"} /\ x.queue = <<>> /\ sub' = [sub EXCEPT ![s] = x]
    BY <1>1, <1>2
  <2> HIDE DEF x
  <2> QED
    BY <2>1, <2>2, ResetOrdered
<1>4. sub[s].seen # -1
  BY <1>1 DEF Ordered, Connected
<1>5. seenBar[s] # -1 /\ seenBar' = [seenBar EXCEPT ![s] = -1]
  BY <1>1, <1>2, <1>4 DEF seenBar
<1> QED
  BY <1>1, <1>3, <1>5 DEF Latest!Detach, seenBar

\* Other steps of a connection or a goroutine leave numbers and channels alone.
LEMMA SilentOrdered ==
  ASSUME Ordered, NEW s \in Subs, Snapshot(s)
  PROVE  Ordered' /\ UNCHANGED <<last, seenBar>>
<1> DEFINE y == [sub[s] EXCEPT !.pc = "live", !.view = store, !.lost = {}]
<1>1. sub' = [sub EXCEPT ![s] = y] /\ last' = last /\ sub[s].pc = "list" /\ last \in Nat /\ DOMAIN sub = Subs
  BY DEF Snapshot, Ordered
<1>2. Connected(s) /\ QueueOrdered(s)
  BY DEF Ordered
<1>3. DOMAIN y = DOMAIN sub[s] /\ y.queue = sub[s].queue /\ y.seen = sub[s].seen /\ y.pc = "live"
  BY <1>2 DEF Connected
<1> HIDE DEF y
<1>4. sub'[s] = y /\ DOMAIN sub' = Subs /\ \A u \in Subs : u # s => sub'[u] = sub[u]
  BY <1>1
<1>5. Connected(s)' /\ QueueOrdered(s)'
  BY <1>1, <1>2, <1>3, <1>4 DEF Connected, QueueOrdered
<1>6. \A u \in Subs : u # s => Connected(u)' /\ QueueOrdered(u)'
  BY <1>1, <1>4 DEF Ordered, Connected, QueueOrdered
<1>7. seenBar' = seenBar
  BY <1>3, <1>4 DEF seenBar
<1> QED
  BY <1>1, <1>4, <1>5, <1>6, <1>7 DEF Ordered

\* Every step keeps the channels ordered and is a step of LatestFeed or none.
LEMMA StepRefines ==
  ASSUME Ordered, [Next]_vars
  PROVE  Ordered' /\ [Latest!Next]_(Latest!avars)
<1>1. CASE UNCHANGED <<last, sub>>
  <2>1. Ordered'
    BY <1>1, StutterOrdered
  <2>2. UNCHANGED Latest!avars
    BY <1>1 DEF Latest!avars
  <2> QED
    BY <2>1, <2>2
<1>2. ASSUME NEW o \in Ops, Goroutine(o)
      PROVE  Ordered' /\ [Latest!Next]_(Latest!avars)
  <2>1. CASE Publish(o)
    <3>1. Ordered'
      BY <2>1, PublishOrdered
    <3>2. last' = last + 1
      BY <2>1 DEF Publish
    <3>3. \A s \in Subs : sub'[s].seen = sub[s].seen
      <4> SUFFICES ASSUME NEW s \in Subs PROVE sub'[s].seen = sub[s].seen
        OBVIOUS
      <4>1. Connected(s)
        BY DEF Ordered
      <4> QED
        BY <2>1, <4>1 DEF Publish, Connected
    <3>4. Latest!Publish
      BY <3>2, <3>3 DEF Latest!Publish
    <3> QED
      BY <3>1, <3>4 DEF Latest!Next
  <2>2. CASE ~Publish(o)
    <3>1. UNCHANGED <<last, sub>>
      BY <1>2, <2>2 DEF Goroutine, Create, UpdateOperation, Run, StartStep, Report,
                        StepSucceeds, StepFails, Finish, Change
    <3> QED
      BY <1>1, <3>1
  <2> QED
    BY <2>1, <2>2
<1>3. ASSUME NEW s \in Subs, Subscribe(s) \/ Connection(s) \/ Leave(s)
      PROVE  Ordered' /\ [Latest!Next]_(Latest!avars)
  <2>1. CASE Subscribe(s)
    BY <2>1, SubscribeOrdered DEF Latest!Next
  <2>2. CASE Leave(s)
    BY <2>2, LeaveOrdered DEF Latest!Next
  <2>3. CASE Snapshot(s)
    BY <2>3, SilentOrdered DEF Latest!avars, seenBar
  <2>4. CASE Receive(s)
    <3>1. /\ Ordered'
          /\ sub'[s].seen \in (sub[s].seen + 1) .. last
          /\ sub' = [sub EXCEPT ![s] = sub'[s]]
          /\ last' = last
      BY <2>4, ReceiveOrdered
    <3>2. DOMAIN sub = Subs /\ sub[s].seen # -1
      BY <2>4 DEF Ordered, Connected, Receive
    <3>3. seenBar[s] = sub[s].seen /\ seenBar' = [seenBar EXCEPT ![s] = sub'[s].seen]
      BY <3>1, <3>2 DEF seenBar
    <3>4. Latest!Receive(s)
      BY <3>1, <3>2, <3>3 DEF Latest!Receive, seenBar
    <3> QED
      BY <3>1, <3>4 DEF Latest!Next
  <2> QED
    BY <1>3, <2>1, <2>2, <2>3, <2>4 DEF Connection
<1> QED
  BY <1>1, <1>2, <1>3 DEF Next, vars

----------------------------------------------------------------------------

(***************************************************************************)
(* The channels of publish and the loop of operationsHandler implement     *)
(* LatestFeed: for every size of the channel, whatever publish drops, the  *)
(* frames a client receives are ever newer ones.                           *)
(***************************************************************************)
THEOREM FeedImplementsLatest == Safety => ImplementsLatestFeed
<1>1. Init => Ordered
  BY InitOrdered
<1>2. Ordered /\ [Next]_vars => Ordered' /\ [Latest!Next]_(Latest!avars)
  BY StepRefines
<1>3. Init => Latest!Init
  BY DEF Init, Latest!Init, Detached
<1> QED
  BY <1>1, <1>2, <1>3, PTL DEF Safety, ImplementsLatestFeed, Latest!Safety

----------------------------------------------------------------------------
(* What a client is shown *)

\* The documents exist for the operations of the lab.
Shaped ==
  /\ DOMAIN op = Ops /\ DOMAIN store = Ops
  /\ \A o \in Ops : DOMAIN op[o] = {"pc", "doc"}
  /\ \A s \in Subs : DOMAIN sub[s].view = Ops

\* Nothing of the operation is left to store or to publish.
Settled(o) == op[o].pc \in {"run", "over"}

Waits(s, o) == \E k \in 1 .. Len(sub[s].queue) : sub[s].queue[k].id = o

\* The newest frame of the operation in the channel of s is current.
NewestCurrent(s, o) ==
  \A k \in 1 .. Len(sub[s].queue) :
    /\ sub[s].queue[k].id = o
    /\ \A j \in 1 .. Len(sub[s].queue) : j > k => sub[s].queue[j].id # o
    => sub[s].queue[k].doc = op[o].doc

\* Without one, what the client was shown is.
ViewCurrent(s, o) ==
  sub[s].pc = "live" /\ o \notin sub[s].lost /\ store[o] # None /\ ~Waits(s, o)
    => sub[s].view[o] = op[o].doc

\* What a snapshot would show, from the statement on the database onwards.
StoreCurrent(o) ==
  /\ op[o].pc = "none" => op[o].doc = NewDoc
  /\ op[o].pc \in {"publish", "run", "over"} /\ store[o] # None => store[o] = op[o].doc

Current ==
  /\ \A o \in Ops : StoreCurrent(o)
  /\ \A s \in Subs, o \in Ops :
       sub[s].pc # "off" /\ Settled(o) => NewestCurrent(s, o) /\ ViewCurrent(s, o)

CInv == Ordered /\ Shaped /\ Current

\* A push appends the frame; the others stay, but for the oldest of a full
\* channel, which move up by one (d).
LEMMA PushFrames ==
  ASSUME NEW S, NEW q \in Seq(S), NEW f
  PROVE  \E d \in {0, 1} :
           /\ d = IF Len(q) < Buffer THEN 0 ELSE 1
           /\ Len(q) \in Nat /\ Len(q) >= d
           /\ Len(Push(q, f)) = Len(q) + 1 - d
           /\ Push(q, f)[Len(q) + 1 - d] = f
           /\ \A k \in 1 .. Len(q) - d : Push(q, f)[k] = q[k + d]
<1> DEFINE t == IF Len(q) < Buffer THEN q ELSE Tail(q)
           d == IF Len(q) < Buffer THEN 0 ELSE 1
<1>1. /\ t \in Seq(S) /\ Len(q) \in Nat /\ Len(q) >= d /\ Len(t) = Len(q) - d
      /\ \A k \in 1 .. Len(q) - d : t[k] = q[k + d]
  <2>1. CASE Len(q) < Buffer
    BY <2>1
  <2>2. CASE ~(Len(q) < Buffer)
    <3>1. Len(q) \in Nat /\ Len(q) >= 1 /\ q # <<>>
      BY <2>2, FeedAssumptions
    <3> QED BY <2>2, <3>1
  <2> QED BY <2>1, <2>2
<1>2. Push(q, f) = Append(t, f) /\ d \in {0, 1}
  BY DEF Push
<1> HIDE DEF t
<1>3. t \in Seq(S \cup {f}) /\ f \in S \cup {f}
  BY <1>1
<1>4. Len(Append(t, f)) = Len(t) + 1 /\ Append(t, f)[Len(t) + 1] = f
  BY <1>3
<1>5. \A k \in 1 .. Len(t) : Append(t, f)[k] = t[k]
  BY <1>3
<1> HIDE DEF d
<1>6. /\ Len(Push(q, f)) = Len(q) + 1 - d
      /\ Push(q, f)[Len(q) + 1 - d] = f
      /\ \A k \in 1 .. Len(q) - d : Push(q, f)[k] = q[k + d]
  BY <1>1, <1>2, <1>4, <1>5
<1> QED BY <1>1, <1>2, <1>6 DEF d

\* A connection that is told of a publication.
LEMMA PublishShown ==
  ASSUME CInv, NEW o \in Ops, Publish(o), NEW s \in Subs, sub[s].pc # "off",
         NEW p \in Ops, Settled(p)'
  PROVE  NewestCurrent(s, p)' /\ ViewCurrent(s, p)'
<1>1. PICK f : f = [n |-> last + 1, id |-> o, doc |-> op[o].doc]
  OBVIOUS
<1>2. f.id = o /\ f.doc = op[o].doc
  BY <1>1
<1>3. Connected(s)
  BY DEF CInv, Ordered
<1>4. PICK q : q = sub[s].queue
  OBVIOUS
<1>5. PICK S : q \in Seq(S)
  BY <1>3, <1>4 DEF Connected
<1>6. PICK r : r = Push(q, f)
  OBVIOUS
<1>7. /\ sub'[s].queue = r /\ sub'[s].lost = Lost(sub[s], f)
      /\ sub'[s].view = sub[s].view /\ sub'[s].pc = sub[s].pc
  BY <1>1, <1>3, <1>4, <1>6 DEF Publish, Connected
<1>8. store' = store /\ op'[o].doc = op[o].doc /\ (p # o => op'[p] = op[p])
  BY DEF Publish, CInv, Shaped
<1>9. PICK d \in {0, 1} :
        /\ d = IF Len(q) < Buffer THEN 0 ELSE 1
        /\ Len(q) \in Nat /\ Len(q) >= d
        /\ Len(r) = Len(q) + 1 - d
        /\ r[Len(q) + 1 - d] = f
        /\ \A k \in 1 .. Len(q) - d : r[k] = q[k + d]
  BY <1>5, <1>6, PushFrames
<1>10. CASE p = o
  <2>1. \A k \in 1 .. Len(r) : (\A j \in 1 .. Len(r) : j > k => r[j].id # o) => k = Len(r)
    BY <1>2, <1>9
  <2>2. NewestCurrent(s, p)'
    BY <1>2, <1>7, <1>8, <1>9, <1>10, <2>1 DEF NewestCurrent
  <2>3. Waits(s, p)'
    BY <1>2, <1>7, <1>9, <1>10 DEF Waits
  <2>4. ViewCurrent(s, p)'
    BY <2>3 DEF ViewCurrent, Waits
  <2> QED BY <2>2, <2>4
<1>11. CASE p # o
  <2>1. Settled(p)
    BY <1>8, <1>11 DEF Settled
  <2>2. NewestCurrent(s, p) /\ ViewCurrent(s, p)
    BY <2>1 DEF CInv, Current
  <2>3. ASSUME NEW k \in 1 .. Len(r), r[k].id = p, \A j \in 1 .. Len(r) : j > k => r[j].id # p
        PROVE  r[k].doc = op[p].doc
    <3>1. k \in 1 .. Len(q) - d /\ k + d \in 1 .. Len(q) /\ r[k] = q[k + d]
      BY <1>2, <1>9, <1>11, <2>3
    <3>2. ASSUME NEW j \in 1 .. Len(q), j > k + d PROVE q[j].id # p
      <4>1. j - d \in 1 .. Len(q) - d /\ (j - d) + d = j /\ j - d > k /\ j - d \in 1 .. Len(r)
        BY <1>9, <3>1, <3>2
      <4>2. r[j - d] = q[j]
        BY <1>9, <4>1
      <4> QED BY <2>3, <4>1, <4>2
    <3> QED BY <1>4, <2>2, <2>3, <3>1, <3>2 DEF NewestCurrent
  <2>4. NewestCurrent(s, p)'
    BY <1>7, <1>8, <1>11, <2>3 DEF NewestCurrent
  <2>5. ASSUME sub[s].pc = "live", p \notin sub'[s].lost, store[p] # None, ~Waits(s, p)'
        PROVE  sub[s].view[p] = op[p].doc
    <3>1. \A k \in 1 .. Len(r) : r[k].id # p
      BY <1>7, <2>5 DEF Waits
    <3>2. sub'[s].lost = (sub[s].lost \cup (IF Len(q) < Buffer THEN {} ELSE {Head(q).id}))
                           \ {r[k].id : k \in 1 .. Len(r)}
      BY <1>4, <1>6, <1>7 DEF Lost
    <3>3. p \notin sub[s].lost /\ (d = 1 => Head(q).id # p)
      BY <1>9, <2>5, <3>1, <3>2
    <3>4. ASSUME NEW k \in 1 .. Len(q) PROVE q[k].id # p
      <4>1. CASE k > d
        <5>1. k - d \in 1 .. Len(q) - d /\ (k - d) + d = k /\ k - d \in 1 .. Len(r)
          BY <1>9, <4>1
        <5> QED BY <1>9, <3>1, <5>1
      <4>2. CASE ~(k > d)
        <5>1. k = 1 /\ d = 1
          BY <1>9, <4>2
        <5> QED BY <1>5, <1>9, <3>3, <5>1
      <4> QED BY <4>1, <4>2
    <3> QED BY <1>4, <2>2, <2>5, <3>3, <3>4 DEF ViewCurrent, Waits
  <2>6. ViewCurrent(s, p)'
    BY <1>7, <1>8, <1>11, <2>5 DEF ViewCurrent, Waits
  <2> QED BY <2>4, <2>6
<1> QED BY <1>10, <1>11

\* publish.
LEMMA PublishCurrent ==
  ASSUME CInv, NEW o \in Ops, Publish(o)
  PROVE  Shaped' /\ Current'
<1>1. \A s \in Subs : (sub'[s].pc = sub[s].pc) /\ DOMAIN sub'[s].view = DOMAIN sub[s].view
  <2> SUFFICES ASSUME NEW s \in Subs
               PROVE  (sub'[s].pc = sub[s].pc) /\ DOMAIN sub'[s].view = DOMAIN sub[s].view
    OBVIOUS
  <2>1. Connected(s)
    BY DEF CInv, Ordered
  <2> QED BY <2>1 DEF Publish, Connected
<1>2. /\ store' = store /\ DOMAIN op' = Ops
      /\ \A p \in Ops : DOMAIN op'[p] = {"pc", "doc"} /\ op'[p].doc = op[p].doc
      /\ \A p \in Ops : op'[p].pc = op[p].pc \/ (op[p].pc = "publish" /\ op'[p].pc \in {"run", "over"})
  BY DEF Publish, CInv, Shaped
<1>3. Shaped'
  BY <1>1, <1>2 DEF CInv, Shaped
<1>4. \A p \in Ops : StoreCurrent(p)'
  BY <1>2 DEF CInv, Current, StoreCurrent
<1>5. \A s \in Subs, p \in Ops :
        sub'[s].pc # "off" /\ Settled(p)' => NewestCurrent(s, p)' /\ ViewCurrent(s, p)'
  BY <1>1, PublishShown
<1> QED BY <1>3, <1>4, <1>5 DEF Current

\* The other steps of an operation: its document is about to be stored or
\* published.
LEMMA GoroutineCurrent ==
  ASSUME CInv, NEW o \in Ops, Goroutine(o), ~Publish(o)
  PROVE  Shaped' /\ Current'
<1>1. sub' = sub
  BY DEF Goroutine, Create, UpdateOperation, Run, StartStep, Report, StepSucceeds, StepFails,
         Finish, Change
<1>2. /\ DOMAIN op' = Ops /\ DOMAIN op'[o] = {"pc", "doc"}
      /\ \A p \in Ops \ {o} : op'[p] = op[p]
      /\ op'[o].pc \in {"store", "publish"}
  <2>1. CASE \E d : Change(o, d)
    BY <2>1 DEF Change, CInv, Shaped
  <2>2. CASE StepSucceeds(o)
    BY <2>2 DEF StepSucceeds, CInv, Shaped
  <2>3. CASE Create(o) \/ UpdateOperation(o)
    BY <2>3 DEF Create, UpdateOperation, CInv, Shaped
  <2> QED BY <2>1, <2>2, <2>3 DEF Goroutine, Run, StartStep, Report, StepFails, Finish
<1>3. /\ DOMAIN store' = Ops
      /\ \A p \in Ops \ {o} : store'[p] = store[p] \/ store'[p] = None
      /\ op'[o].pc = "publish" /\ store'[o] # None => store'[o] = op'[o].doc
  <2>1. CASE \E d : Change(o, d)
    BY <2>1 DEF Change, CInv, Shaped
  <2>2. CASE StepSucceeds(o)
    BY <2>2 DEF StepSucceeds, CInv, Shaped
  <2>3. CASE Create(o)
    BY <2>3 DEF Create, CInv, Shaped, Current, StoreCurrent
  <2>4. CASE UpdateOperation(o)
    BY <2>4 DEF UpdateOperation, CInv, Shaped
  <2> QED BY <2>1, <2>2, <2>3, <2>4 DEF Goroutine, Run, StartStep, Report, StepFails, Finish
<1>4. Shaped'
  BY <1>1, <1>2, <1>3 DEF CInv, Shaped
<1>5. \A p \in Ops : StoreCurrent(p)'
  BY <1>2, <1>3 DEF CInv, Current, StoreCurrent
<1>6. \A p \in Ops : Settled(p)' => p # o /\ Settled(p)
  BY <1>2 DEF Settled
<1>7. \A s \in Subs, p \in Ops :
        sub'[s].pc # "off" /\ Settled(p)' => NewestCurrent(s, p)' /\ ViewCurrent(s, p)'
  BY <1>1, <1>2, <1>3, <1>6 DEF CInv, Current, NewestCurrent, ViewCurrent, Waits
<1> QED BY <1>4, <1>5, <1>7 DEF Current

\* The steps of a connection.
LEMMA ConnectionCurrent ==
  ASSUME CInv, NEW s \in Subs, Subscribe(s) \/ Connection(s) \/ Leave(s)
  PROVE  Shaped' /\ Current'
<1>1. UNCHANGED <<op, store>>
  BY DEF Subscribe, Connection, Snapshot, Receive, Leave
<1>2. DOMAIN sub = Subs /\ Connected(s)
  BY DEF CInv, Ordered
<1>3. PICK x : sub' = [sub EXCEPT ![s] = x]
  BY DEF Subscribe, Connection, Snapshot, Receive, Leave
<1>4. sub'[s] = x /\ \A u \in Subs \ {s} : sub'[u] = sub[u]
  BY <1>2, <1>3
<1>5. DOMAIN x.view = Ops
  <2>1. CASE Subscribe(s) \/ Leave(s)
    <3>1. sub'[s].view = Detached.view
      BY <1>2, <2>1 DEF Subscribe, Leave, Detached
    <3>2. Detached.view = [o \in Ops |-> None]
      BY DEF Detached
    <3> QED BY <1>4, <3>1, <3>2
  <2>2. CASE Snapshot(s)
    BY <1>2, <1>4, <2>2 DEF Snapshot, Connected, CInv, Shaped
  <2>3. CASE Receive(s)
    BY <1>2, <1>4, <2>3 DEF Receive, Connected, CInv, Shaped
  <2> QED BY <2>1, <2>2, <2>3 DEF Connection
<1>6. Shaped'
  BY <1>1, <1>4, <1>5 DEF CInv, Shaped
<1>7. \A o \in Ops : StoreCurrent(o)' /\ (Settled(o)' <=> Settled(o))
  BY <1>1 DEF CInv, Current, StoreCurrent, Settled
<1>8. ASSUME NEW o \in Ops, Settled(o), sub'[s].pc # "off"
      PROVE  NewestCurrent(s, o)' /\ ViewCurrent(s, o)'
  <2>1. CASE Subscribe(s)
    <3>1. x.queue = <<>> /\ x.pc = "list"
      BY <1>2, <1>4, <2>1 DEF Subscribe, Detached
    <3> QED BY <1>4, <3>1, EmptyChannel DEF NewestCurrent, ViewCurrent
  <2>2. CASE Leave(s)
    BY <1>2, <1>4, <1>8, <2>2 DEF Leave, Detached
  <2>3. CASE Snapshot(s)
    <3>1. x.queue = sub[s].queue /\ x.view = store /\ sub[s].pc # "off"
      BY <1>2, <1>4, <2>3 DEF Snapshot, Connected
    <3>2. NewestCurrent(s, o) /\ StoreCurrent(o)
      BY <1>8, <3>1 DEF CInv, Current
    <3> QED BY <1>1, <1>4, <1>8, <3>1, <3>2 DEF NewestCurrent, ViewCurrent, StoreCurrent, Settled
  <2>4. CASE Receive(s)
    <3>1. PICK q : q = sub[s].queue
      OBVIOUS
    <3>2. PICK S : q \in Seq(S)
      BY <1>2, <3>1 DEF Connected
    <3>3. q # <<>> /\ sub[s].pc = "live"
      BY <2>4, <3>1 DEF Receive
    <3>4. PICK f : f = Head(q)
      OBVIOUS
    <3>5. /\ x.queue = Tail(q) /\ x.pc = sub[s].pc /\ x.lost = sub[s].lost
          /\ x.view = [sub[s].view EXCEPT ![f.id] = f.doc]
      BY <1>2, <1>4, <2>4, <3>1, <3>4 DEF Receive, Connected
    <3>6. /\ Len(q) \in Nat /\ Len(q) >= 1 /\ f = q[1] /\ Len(Tail(q)) = Len(q) - 1
          /\ \A k \in 1 .. Len(q) - 1 : Tail(q)[k] = q[k + 1]
      BY <3>2, <3>3, <3>4
    <3>7. NewestCurrent(s, o) /\ ViewCurrent(s, o)
      BY <1>8, <3>3 DEF CInv, Current
    <3>8. ASSUME NEW k \in 1 .. Len(q) - 1, Tail(q)[k].id = o,
                 \A j \in 1 .. Len(q) - 1 : j > k => Tail(q)[j].id # o
          PROVE  Tail(q)[k].doc = op[o].doc
      <4>1. k + 1 \in 1 .. Len(q) /\ q[k + 1] = Tail(q)[k]
        BY <3>6
      <4>2. ASSUME NEW j \in 1 .. Len(q), j > k + 1 PROVE q[j].id # o
        <5>1. j - 1 \in 1 .. Len(q) - 1 /\ (j - 1) + 1 = j /\ j - 1 > k
          BY <3>6, <4>2
        <5> QED BY <3>6, <3>8, <5>1
      <4> QED BY <3>1, <3>7, <3>8, <4>1, <4>2 DEF NewestCurrent
    <3>9. NewestCurrent(s, o)'
      BY <1>1, <1>4, <3>5, <3>6, <3>8 DEF NewestCurrent
    <3>10. ASSUME o \notin sub[s].lost, store[o] # None, \A k \in 1 .. Len(q) - 1 : Tail(q)[k].id # o
           PROVE  x.view[o] = op[o].doc
      <4>1. \A k \in 1 .. Len(q) : k > 1 => q[k].id # o
        <5> SUFFICES ASSUME NEW k \in 1 .. Len(q), k > 1 PROVE q[k].id # o
          OBVIOUS
        <5>1. k - 1 \in 1 .. Len(q) - 1 /\ (k - 1) + 1 = k
          BY <3>6
        <5> QED BY <3>6, <3>10, <5>1
      <4>2. CASE f.id = o
        <5>1. f.doc = op[o].doc
          BY <3>1, <3>6, <3>7, <4>1, <4>2 DEF NewestCurrent
        <5> QED BY <3>5, <4>2, <5>1 DEF CInv, Shaped
      <4>3. CASE f.id # o
        <5>1. ~Waits(s, o)
          BY <3>1, <3>6, <4>1, <4>3 DEF Waits
        <5>2. sub[s].view[o] = op[o].doc
          BY <3>3, <3>7, <3>10, <5>1 DEF ViewCurrent
        <5> QED BY <3>5, <4>3, <5>2 DEF CInv, Shaped
      <4> QED BY <4>2, <4>3
    <3>11. ViewCurrent(s, o)'
      BY <1>1, <1>4, <3>5, <3>6, <3>10 DEF ViewCurrent, Waits
    <3> QED BY <3>9, <3>11
  <2> QED BY <2>1, <2>2, <2>3, <2>4 DEF Connection
<1>9. \A u \in Subs, o \in Ops :
        sub'[u].pc # "off" /\ Settled(o)' => NewestCurrent(u, o)' /\ ViewCurrent(u, o)'
  <2> SUFFICES ASSUME NEW u \in Subs, NEW o \in Ops, sub'[u].pc # "off", Settled(o)'
               PROVE  NewestCurrent(u, o)' /\ ViewCurrent(u, o)'
    OBVIOUS
  <2>1. CASE u = s
    BY <1>7, <1>8, <2>1
  <2>2. CASE u # s
    <3>1. sub'[u] = sub[u] /\ UNCHANGED <<op, store>> /\ Settled(o)
      BY <1>1, <1>4, <1>7, <2>2
    <3>2. NewestCurrent(u, o) /\ ViewCurrent(u, o)
      BY <3>1 DEF CInv, Current
    <3>3. NewestCurrent(u, o)'
      BY <3>1, <3>2 DEF NewestCurrent
    <3>4. ViewCurrent(u, o)'
      BY <3>1, <3>2 DEF ViewCurrent, Waits
    <3> QED BY <3>3, <3>4
  <2> QED BY <2>1, <2>2
<1> QED BY <1>6, <1>7, <1>9 DEF Current

(***************************************************************************)
(* Once a client has read its channel, what it was shown of an operation   *)
(* is current, for every size of the channel and wherever its subscription *)
(* fell between a statement and its publication, unless the newest frame   *)
(* of the operation was dropped for others (publish, operationsHandler).   *)
(***************************************************************************)
THEOREM ClientIsCurrent == Safety => []ShownIsCurrent
<1>1. Init => CInv
  <2> SUFFICES ASSUME Init PROVE CInv
    OBVIOUS
  <2>1. Shaped
    BY DEF Init, Shaped, Detached
  <2>2. Current
    BY DEF Init, Current, StoreCurrent, Detached
  <2> QED BY <2>1, <2>2, InitOrdered DEF CInv
<1>2. CInv /\ [Next]_vars => CInv'
  <2> SUFFICES ASSUME CInv, [Next]_vars PROVE CInv'
    OBVIOUS
  <2>1. Ordered'
    BY StepRefines DEF CInv
  <2>2. Shaped' /\ Current'
    <3>1. ASSUME NEW o \in Ops, Goroutine(o) PROVE Shaped' /\ Current'
      BY <3>1, PublishCurrent, GoroutineCurrent
    <3>2. ASSUME NEW s \in Subs, Subscribe(s) \/ Connection(s) \/ Leave(s) PROVE Shaped' /\ Current'
      BY <3>2, ConnectionCurrent
    <3>3. CASE UNCHANGED vars
      BY <3>3 DEF vars, CInv, Shaped, Current, StoreCurrent, Settled, NewestCurrent, ViewCurrent, Waits
    <3> QED BY <3>1, <3>2, <3>3 DEF Next
  <2> QED BY <2>1, <2>2 DEF CInv
<1>3. CInv => ShownIsCurrent
  BY EmptyChannel DEF CInv, Current, Settled, ViewCurrent, Waits, ShownIsCurrent
<1> QED BY <1>1, <1>2, <1>3, PTL DEF Safety

----------------------------------------------------------------------------
(* Progress *)

\* Every nonempty set of naturals has a least element.  Induction over data is
\* by the least counterexample.
LEMMA LeastNatural ==
  ASSUME NEW T, T \subseteq Nat, T # {}
  PROVE  \E x \in T : \A y \in T : x <= y
<1>1. IsWellFoundedOn(OpToRel(<, Nat), Nat)
  BY NatLessThanWellFounded
<1> DEFINE R == OpToRel(<, Nat)
<1>2. \E x \in T : \A y \in T : ~ (<<y, x>> \in R)
  BY <1>1, WFMin
<1>3. \A x, y \in Nat : y < x => <<y, x>> \in R
  BY DEF OpToRel
<1> HIDE DEF R
<1>4. PICK x \in T : \A y \in T : ~ (<<y, x>> \in R)
  BY <1>2
<1>5. \A y \in T : x <= y
  <2> TAKE y \in T
  <2>1. ~(<<y, x>> \in R) /\ x \in Nat /\ y \in Nat
    BY <1>4
  <2>2. ~(y < x)
    BY <1>3, <2>1
  <2> QED BY <2>1, <2>2
<1> QED BY <1>5

\* Division rounds down, and keeps the order.
LEMMA DivMono ==
  ASSUME NEW a \in Nat, NEW b \in Nat, NEW n \in Nat, n > 0, a <= b
  PROVE a \div n <= b \div n
<1>1. a \div n \in Int /\ b \div n \in Int
  OBVIOUS
<1>2. a = n * (a \div n) + (a % n) /\ a % n \in 0 .. n-1
  OBVIOUS
<1>3. b = n * (b \div n) + (b % n) /\ b % n \in 0 .. n-1
  OBVIOUS
<1> DEFINE x == a \div n y == b \div n
<1> SUFFICES ASSUME x >= y + 1 PROVE FALSE
  BY <1>1
<1> HIDE DEF x, y
<1>4. n * x >= n * (y + 1)
  BY <1>1 DEF x, y
<1> QED BY <1>1, <1>2, <1>3, <1>4 DEF x, y

\* All of the weight is all of the bar.
LEMMA DivFull ==
  ASSUME NEW n \in Nat, n > 0, NEW f \in Nat
  PROVE  (n * f) \div n = f
  OBVIOUS
\* A fraction of the bar is a natural number.
LEMMA DivNat ==
  ASSUME NEW n \in Nat, n > 0, NEW f \in Nat
  PROVE  f \div n \in Nat
  OBVIOUS
\* Nothing done is nothing of the bar.
LEMMA DivZero ==
  ASSUME NEW n \in Nat, n > 0, NEW f \in Nat
  PROVE  (0 * f) \div n = 0
  OBVIOUS

\* The running sums of a sequence of weights exist: those of the first m weights
\* extend to those of the first m + 1.
LEMMA SumsExist ==
  ASSUME NEW w, NEW n \in Nat
  PROVE  \E f : f = [i \in 0 .. n |-> IF i = 0 THEN 0 ELSE f[i - 1] + w[i]]
<1> DEFINE G(m) == \E f : f = [i \in 0 .. m |-> IF i = 0 THEN 0 ELSE f[i - 1] + w[i]]
<1> DEFINE T == {m \in 0 .. n : ~G(m)}
<1>1. G(0)
  <2> DEFINE f == [i \in 0 .. 0 |-> 0]
  <2>1. f = [i \in 0 .. 0 |-> IF i = 0 THEN 0 ELSE f[i - 1] + w[i]]
    OBVIOUS
  <2> QED BY <2>1
<1>2. ASSUME NEW m \in 0 .. n - 1, G(m) PROVE G(m + 1)
  <2>1. PICK f : f = [i \in 0 .. m |-> IF i = 0 THEN 0 ELSE f[i - 1] + w[i]]
    BY <1>2
  <2> DEFINE g == [i \in 0 .. m + 1 |-> IF i = m + 1 THEN f[m] + w[m + 1] ELSE f[i]]
  <2>2. ASSUME NEW i \in 0 .. m + 1 PROVE g[i] = IF i = 0 THEN 0 ELSE g[i - 1] + w[i]
    <3>1. CASE i = m + 1
      BY <3>1
    <3>2. CASE i # m + 1
      <4>1. i \in 0 .. m
        BY <3>2
      <4>2. f[i] = IF i = 0 THEN 0 ELSE f[i - 1] + w[i]
        BY <2>1, <4>1
      <4>3. i # 0 => i - 1 \in 0 .. m + 1 /\ i - 1 # m + 1
        BY <4>1
      <4> QED BY <4>1, <4>2, <4>3
    <3> QED BY <3>1, <3>2
  <2>3. g = [i \in 0 .. m + 1 |-> IF i = 0 THEN 0 ELSE g[i - 1] + w[i]]
    <3>1. g = [i \in 0 .. m + 1 |-> g[i]]
      OBVIOUS
    <3> HIDE DEF g
    <3> QED BY <2>2, <3>1
  <2> HIDE DEF g
  <2> QED BY <2>3
<1>3. T = {}
  <2> SUFFICES ASSUME T # {} PROVE FALSE
    OBVIOUS
  <2>1. PICK x \in T : \A y \in T : x <= y
    <3>1. T \subseteq Nat
      OBVIOUS
    <3> HIDE DEF T
    <3> QED BY <3>1, LeastNatural
  <2>2. x # 0 /\ x \in 0 .. n /\ ~G(x)
    <3> HIDE DEF G
    <3> QED BY <1>1
  <2>3. x - 1 \in 0 .. n - 1 /\ (x - 1) + 1 = x
    BY <2>2
  <2>4. G(x - 1)
    <3> HIDE DEF G
    <3> QED BY <2>1, <2>3
  <2> HIDE DEF G
  <2> QED BY <1>2, <2>2, <2>3, <2>4
<1>4. G(n)
  <2> HIDE DEF G
  <2> QED BY <1>3
<1> QED BY <1>4

\* Running sums of positive weights are naturals that strictly increase.
LEMMA SumsRise ==
  ASSUME NEW w, NEW n \in Nat, w \in [1 .. n -> Nat \ {0}], NEW sum, sum[0] = 0,
         \A i \in 1 .. n : sum[i] = sum[i - 1] + w[i]
  PROVE  /\ \A i \in 0 .. n : sum[i] \in Nat
         /\ \A i \in 1 .. n : sum[i - 1] < sum[i] /\ sum[i] > 0
<1> DEFINE T == {m \in 0 .. n : sum[m] \notin Nat}
<1>1. T = {}
  <2> SUFFICES ASSUME T # {} PROVE FALSE
    OBVIOUS
  <2>1. PICK x \in T : \A y \in T : x <= y
    <3>1. T \subseteq Nat
      OBVIOUS
    <3> HIDE DEF T
    <3> QED BY <3>1, LeastNatural
  <2>2. x \in 0 .. n /\ x # 0 /\ sum[x] \notin Nat
    OBVIOUS
  <2>3. x \in 1 .. n /\ x - 1 \in 0 .. n /\ ~(x <= x - 1)
    BY <2>2
  <2>4. sum[x - 1] \in Nat
    BY <2>1, <2>3
  <2> QED BY <2>2, <2>3, <2>4
<1>2. \A i \in 0 .. n : sum[i] \in Nat
  BY <1>1
<1>3. ASSUME NEW i \in 1 .. n PROVE sum[i - 1] < sum[i] /\ sum[i] > 0
  <2>1. i - 1 \in 0 .. n /\ w[i] \in Nat \ {0} /\ sum[i] = sum[i - 1] + w[i]
    OBVIOUS
  <2> QED BY <1>2, <2>1
<1> QED BY <1>2, <1>3

\* Done has the running sums of the operation's weights.
LEMMA DoneSums ==
  ASSUME NEW o \in Ops
  PROVE  /\ Len(Weight[o]) \in Nat \ {0}
         /\ \A i \in 0 .. Len(Weight[o]) : Done(o)[i] \in Nat
         /\ Done(o)[0] = 0
         /\ \A i \in 1 .. Len(Weight[o]) : Done(o)[i - 1] < Done(o)[i] /\ Done(o)[i] > 0
<1> DEFINE n == Len(Weight[o])
<1>1. Weight[o] \in Seq(Nat \ {0}) /\ Weight[o] # <<>>
  BY FeedAssumptions
<1>2. n \in Nat \ {0} /\ Weight[o] \in [1 .. n -> Nat \ {0}] /\ Weight[o] \in [1 .. n -> Nat]
  BY <1>1
<1>3. Done(o) = CHOOSE f : f = [i \in 0 .. n |-> IF i = 0 THEN 0 ELSE f[i - 1] + Weight[o][i]]
  BY DEF Done
<1> HIDE DEF n
<1> DEFINE w == Weight[o] sum == Done(o)
<1>4. \E f : f = [i \in 0 .. n |-> IF i = 0 THEN 0 ELSE f[i - 1] + w[i]]
  <2> HIDE DEF w
  <2> QED BY <1>2, SumsExist
<1>5. sum = [i \in 0 .. n |-> IF i = 0 THEN 0 ELSE sum[i - 1] + w[i]]
  BY <1>3, <1>4
<1>6. \A i \in 0 .. n : sum[i] = IF i = 0 THEN 0 ELSE sum[i - 1] + w[i]
  <2> HIDE DEF w, sum
  <2> QED BY <1>5, Zenon
<1>7. sum[0] = 0 /\ \A i \in 1 .. n : sum[i] = sum[i - 1] + w[i]
  <2> HIDE DEF w, sum
  <2> QED BY <1>2, <1>6
<1>8. /\ \A i \in 0 .. n : sum[i] \in Nat
      /\ \A i \in 1 .. n : sum[i - 1] < sum[i] /\ sum[i] > 0
  <2>1. w \in [1 .. n -> Nat \ {0}]
    BY <1>2
  <2> HIDE DEF w, sum
  <2> QED BY <1>2, <1>7, <2>1, SumsRise
<1> QED BY <1>2, <1>7, <1>8 DEF n

\* The percentage goes from 0 to Full and never falls from a step to the next.
LEMMA PercentRises ==
  ASSUME NEW o \in Ops
  PROVE  /\ \A i \in 0 .. Len(Weight[o]) : Percent(o, i) \in Nat
         /\ \A i \in 0 .. Len(Weight[o]) - 1 : Percent(o, i) <= Percent(o, i + 1)
         /\ Percent(o, 0) = 0
         /\ Percent(o, Len(Weight[o])) = Full
<1> DEFINE n == Len(Weight[o]) d == Done(o) t == d[n]
<1>1. /\ n \in Nat \ {0} /\ d[0] = 0
      /\ \A i \in 0 .. n : d[i] \in Nat
      /\ \A i \in 1 .. n : d[i - 1] < d[i] /\ d[i] > 0
  BY DoneSums
<1>2. Full \in Nat
  BY FeedAssumptions
<1>3. \A i : Percent(o, i) = (d[i] * Full) \div t
  BY DEF Percent
<1> HIDE DEF n, d
<1>4. n \in 1 .. n /\ t \in Nat /\ t > 0
  BY <1>1
<1> HIDE DEF t
<1>5. \A i \in 0 .. n : Percent(o, i) \in Nat
  <2> TAKE i \in 0 .. n
  <2>1. d[i] * Full \in Nat
    BY <1>1, <1>2
  <2> QED BY <1>3, <1>4, <2>1, DivNat
<1>6. ASSUME NEW i \in 0 .. n - 1 PROVE Percent(o, i) <= Percent(o, i + 1)
  <2>1. i \in 0 .. n /\ i + 1 \in 1 .. n /\ i + 1 \in 0 .. n /\ (i + 1) - 1 = i
    BY <1>1
  <2>2. d[i] \in Nat /\ d[i + 1] \in Nat /\ d[i] < d[i + 1]
    BY <1>1, <2>1
  <2>3. d[i] * Full \in Nat /\ d[i + 1] * Full \in Nat /\ d[i] * Full <= d[i + 1] * Full
    BY <1>2, <2>2
  <2> QED BY <1>3, <1>4, <2>3, DivMono
<1>7. Percent(o, 0) = 0
  BY <1>1, <1>2, <1>3, <1>4, DivZero
<1>8. Percent(o, n) = Full
  BY <1>2, <1>3, <1>4, DivFull DEF t
<1> QED BY <1>5, <1>6, <1>7, <1>8 DEF n

\* Where operation o stands when its document is d, and what its progress may be then.
OnBar(o, d) ==
  /\ DOMAIN d = {"state", "done", "active", "broken", "progress"}
  /\ d.done \in 0 .. Len(Weight[o]) /\ d.progress \in Nat
  /\ d.active => d.state = "Running" /\ d.done < Len(Weight[o]) /\ d.progress <= Percent(o, d.done + 1)
  /\ ~d.active /\ ~d.broken /\ d.state # "Succeeded" => d.progress = Percent(o, d.done)
  /\ d.state = "Succeeded" => d.progress = Full

Bars == DOMAIN op = Ops /\ \A o \in Ops : DOMAIN op[o] = {"pc", "doc"} /\ OnBar(o, op[o].doc)

\* What ProgressMovesForward says of one operation.
Forward(o) ==
  /\ op'[o].doc.progress >= op[o].doc.progress
  /\ op'[o].doc.state = "Succeeded" => op'[o].doc.progress = Full
  /\ op[o].doc.state \in Final => op'[o].doc = op[o].doc

\* A step of an operation's goroutine keeps every document on its bar and moves
\* none back.
LEMMA StepForward ==
  ASSUME Bars, NEW o \in Ops, Goroutine(o)
  PROVE  Bars' /\ \A p \in Ops : Forward(p)
<1>1. DOMAIN op = Ops /\ \A p \in Ops : DOMAIN op[p] = {"pc", "doc"} /\ OnBar(p, op[p].doc)
  BY DEF Bars
<1>2. \A p \in Ops : op[p].doc.progress \in Nat /\ (op[p].doc.state = "Succeeded" => op[p].doc.progress = Full)
  BY <1>1 DEF OnBar
<1>3. ASSUME NEW v, op' = [op EXCEPT ![o].pc = v] PROVE Bars' /\ \A p \in Ops : Forward(p)
  <2>1. DOMAIN op' = Ops /\ \A p \in Ops : DOMAIN op'[p] = {"pc", "doc"} /\ op'[p].doc = op[p].doc
    BY <1>1, <1>3
  <2>2. Bars'
    BY <1>1, <2>1 DEF Bars
  <2> QED BY <1>2, <2>1, <2>2 DEF Forward
<1>4. ASSUME NEW d, op' = [op EXCEPT ![o] = [pc |-> "store", doc |-> d]], OnBar(o, d),
             d.progress >= op[o].doc.progress, op[o].doc.state \notin Final
      PROVE  Bars' /\ \A p \in Ops : Forward(p)
  <2>1. /\ DOMAIN op' = Ops /\ op'[o] = [pc |-> "store", doc |-> d] /\ op'[o].doc = d
        /\ \A p \in Ops \ {o} : op'[p] = op[p]
    BY <1>1, <1>4
  <2>2. \A p \in Ops : DOMAIN op'[p] = {"pc", "doc"} /\ OnBar(p, op'[p].doc)
    BY <1>1, <1>4, <2>1
  <2>3. d.state = "Succeeded" => d.progress = Full
    BY <1>4 DEF OnBar
  <2>4. Forward(o)
    BY <1>4, <2>1, <2>3 DEF Forward
  <2>5. \A p \in Ops \ {o} : Forward(p)
    BY <1>2, <2>1 DEF Forward
  <2>6. Bars'
    BY <2>1, <2>2 DEF Bars
  <2> QED BY <2>4, <2>5, <2>6
<1> DEFINE c == op[o].doc
<1>5. OnBar(o, c) /\ c.progress \in Nat
  BY <1>1, <1>2
<1>6. /\ Len(Weight[o]) \in Nat \ {0} /\ Full \in Nat
      /\ \A i \in 0 .. Len(Weight[o]) : Percent(o, i) \in Nat
      /\ \A i \in 0 .. Len(Weight[o]) - 1 : Percent(o, i) <= Percent(o, i + 1)
      /\ Percent(o, Len(Weight[o])) = Full
  BY DoneSums, PercentRises, FeedAssumptions
<1> HIDE DEF c
<1>7. CASE Create(o) \/ UpdateOperation(o) \/ Publish(o)
  <2>1. \E v : op' = [op EXCEPT ![o].pc = v]
    BY <1>7 DEF Create, UpdateOperation, Publish
  <2> QED BY <1>3, <2>1
<1>8. CASE Run(o)
  <2> DEFINE d == [c EXCEPT !.state = "Running"]
  <2>1. c.state = "Queued" /\ op' = [op EXCEPT ![o] = [pc |-> "store", doc |-> d]]
    BY <1>1, <1>8 DEF Run, Change, c
  <2>4. DOMAIN d = {"state", "done", "active", "broken", "progress"} /\ d.done = c.done /\ d.active = c.active /\ d.broken = c.broken /\ d.progress = c.progress /\ d.state = "Running"
    BY <1>5 DEF OnBar
  <2> HIDE DEF d
  <2>5. OnBar(o, d) /\ d.progress >= c.progress /\ c.state \notin Final
    BY <1>5, <2>1, <2>4 DEF OnBar, Final
  <2> QED BY <1>4, <2>1, <2>5 DEF c
<1>9. CASE StartStep(o)
  <2> DEFINE d == [c EXCEPT !.active = TRUE]
  <2>1. c.state = "Running" /\ ~c.active /\ ~c.broken /\ c.done < Len(Weight[o]) /\ op' = [op EXCEPT ![o] = [pc |-> "store", doc |-> d]]
    BY <1>1, <1>9 DEF StartStep, Change, c
  <2>2. c.progress <= Percent(o, c.done + 1)
    BY <1>5, <1>6, <2>1 DEF OnBar
  <2>4. DOMAIN d = {"state", "done", "active", "broken", "progress"} /\ d.done = c.done /\ d.active = TRUE /\ d.broken = c.broken /\ d.progress = c.progress /\ d.state = c.state
    BY <1>5 DEF OnBar
  <2> HIDE DEF d
  <2>5. OnBar(o, d) /\ d.progress >= c.progress /\ c.state \notin Final
    BY <1>5, <2>1, <2>4, <2>2 DEF OnBar, Final
  <2> QED BY <1>4, <2>1, <2>5 DEF c
<1>10. CASE Report(o)
  <2>0. PICK p \in Percent(o, c.done) .. Percent(o, c.done + 1) :
          p > c.progress /\ op' = [op EXCEPT ![o] = [pc |-> "store", doc |-> [c EXCEPT !.progress = p]]]
    BY <1>10 DEF Report, Change, c
  <2> DEFINE d == [c EXCEPT !.progress = p]
  <2>1. c.active /\ op' = [op EXCEPT ![o] = [pc |-> "store", doc |-> d]]
    BY <1>1, <1>10, <2>0 DEF Report, Change, c
  <2>2. c.done \in 0 .. Len(Weight[o]) /\ c.done + 1 \in 0 .. Len(Weight[o])
    BY <1>5, <1>6, <2>1 DEF OnBar
  <2>3. p \in Nat /\ p <= Percent(o, c.done + 1)
    BY <1>6, <2>0, <2>2
  <2>4. DOMAIN d = {"state", "done", "active", "broken", "progress"} /\ d.done = c.done /\ d.active = c.active /\ d.broken = c.broken /\ d.progress = p /\ d.state = c.state
    BY <1>5 DEF OnBar
  <2> HIDE DEF d
  <2>5. OnBar(o, d) /\ d.progress >= c.progress /\ c.state \notin Final
    BY <1>5, <2>1, <2>4, <2>0, <2>3 DEF OnBar, Final
  <2> QED BY <1>4, <2>1, <2>5 DEF c
<1>11. CASE StepSucceeds(o)
  <2> DEFINE d == [c EXCEPT !.active = FALSE, !.done = c.done + 1, !.progress = Percent(o, c.done + 1)]
  <2>1. c.active /\ op' = [op EXCEPT ![o] = [pc |-> "store", doc |-> d]]
    BY <1>1, <1>11 DEF StepSucceeds, c
  <2>2. c.done + 1 \in 0 .. Len(Weight[o])
    BY <1>5, <1>6, <2>1 DEF OnBar
  <2>3. Percent(o, c.done + 1) \in Nat /\ c.state = "Running" /\ c.progress <= Percent(o, c.done + 1)
    BY <1>5, <1>6, <2>1, <2>2 DEF OnBar
  <2>4. DOMAIN d = {"state", "done", "active", "broken", "progress"} /\ d.done = c.done + 1 /\ d.active = FALSE /\ d.broken = c.broken /\ d.progress = Percent(o, c.done + 1) /\ d.state = c.state
    BY <1>5 DEF OnBar
  <2> HIDE DEF d
  <2>5. OnBar(o, d) /\ d.progress >= c.progress /\ c.state \notin Final
    BY <1>5, <2>1, <2>4, <2>2, <2>3 DEF OnBar, Final
  <2> QED BY <1>4, <2>1, <2>5 DEF c
<1>12. CASE StepFails(o)
  <2> DEFINE d == [c EXCEPT !.active = FALSE, !.broken = TRUE]
  <2>1. c.active /\ op' = [op EXCEPT ![o] = [pc |-> "store", doc |-> d]]
    BY <1>1, <1>12 DEF StepFails, Change, c
  <2>4. DOMAIN d = {"state", "done", "active", "broken", "progress"} /\ d.done = c.done /\ d.active = FALSE /\ d.broken = TRUE /\ d.progress = c.progress /\ d.state = c.state
    BY <1>5 DEF OnBar
  <2> HIDE DEF d
  <2>5. OnBar(o, d) /\ d.progress >= c.progress /\ c.state \notin Final
    BY <1>5, <2>1, <2>4 DEF OnBar, Final
  <2> QED BY <1>4, <2>1, <2>5 DEF c
<1>13. CASE Finish(o) /\ c.broken
  <2> DEFINE d == [c EXCEPT !.state = "Failed"]
  <2>1. c.state = "Running" /\ ~c.active /\ op' = [op EXCEPT ![o] = [pc |-> "store", doc |-> d]]
    BY <1>13 DEF Finish, Change, c
  <2>4. DOMAIN d = {"state", "done", "active", "broken", "progress"} /\ d.done = c.done /\ d.active = c.active /\ d.broken = c.broken /\ d.progress = c.progress /\ d.state = "Failed"
    BY <1>5 DEF OnBar
  <2> HIDE DEF d
  <2>5. OnBar(o, d) /\ d.progress >= c.progress /\ c.state \notin Final
    BY <1>5, <1>13, <2>1, <2>4 DEF OnBar, Final
  <2> QED BY <1>4, <2>1, <2>5 DEF c
<1>14. CASE Finish(o) /\ ~c.broken
  <2> DEFINE d == [c EXCEPT !.state = "Succeeded", !.progress = Full]
  <2>1. /\ c.state = "Running" /\ ~c.active /\ c.done = Len(Weight[o])
        /\ op' = [op EXCEPT ![o] = [pc |-> "store", doc |-> d]]
    BY <1>14 DEF Finish, Change, c
  <2>2. c.progress = Full
    BY <1>5, <1>6, <1>14, <2>1 DEF OnBar
  <2>4. DOMAIN d = {"state", "done", "active", "broken", "progress"} /\ d.done = c.done /\ d.active = c.active /\ d.broken = c.broken /\ d.progress = Full /\ d.state = "Succeeded"
    BY <1>5 DEF OnBar
  <2> HIDE DEF d
  <2>5. OnBar(o, d) /\ d.progress >= c.progress /\ c.state \notin Final
    BY <1>5, <1>6, <2>1, <2>2, <2>4 DEF OnBar, Final
  <2> QED BY <1>4, <2>1, <2>5 DEF c
<1> QED
  BY <1>7, <1>8, <1>9, <1>10, <1>11, <1>12, <1>13, <1>14 DEF Goroutine

(***************************************************************************)
(* The bar of an operation never moves back, whatever the weights of its   *)
(* steps are, an operation that succeeds ends at Full, and a final         *)
(* document never changes (Report, Run and withReporter in operation.go).  *)
(***************************************************************************)
THEOREM ProgressIsForward == Safety => ProgressMovesForward
<1>1. Init => Bars
  <2> SUFFICES ASSUME Init PROVE Bars
    OBVIOUS
  <2>1. \A o \in Ops : Percent(o, 0) = 0 /\ Len(Weight[o]) \in Nat
    BY DoneSums, PercentRises
  <2> QED BY <2>1 DEF Init, Bars, OnBar, NewDoc
<1>2. Bars /\ [Next]_vars => Bars' /\ \A p \in Ops : Forward(p)
  <2> SUFFICES ASSUME Bars, [Next]_vars PROVE Bars' /\ \A p \in Ops : Forward(p)
    OBVIOUS
  <2>1. ASSUME NEW o \in Ops, Goroutine(o) PROVE Bars' /\ \A p \in Ops : Forward(p)
    BY <2>1, StepForward
  <2>2. ASSUME UNCHANGED op PROVE Bars' /\ \A p \in Ops : Forward(p)
    <3>1. Bars'
      BY <2>2 DEF Bars, OnBar
    <3>2. \A p \in Ops : op[p].doc.progress \in Nat /\ (op[p].doc.state = "Succeeded" => op[p].doc.progress = Full)
      BY DEF Bars, OnBar
    <3> QED BY <2>2, <3>1, <3>2 DEF Forward
  <2>3. ASSUME NEW s \in Subs, Subscribe(s) \/ Connection(s) \/ Leave(s) PROVE UNCHANGED op
    BY <2>3 DEF Subscribe, Connection, Snapshot, Receive, Leave
  <2>4. CASE UNCHANGED vars
    BY <2>2, <2>4 DEF vars
  <2> QED BY <2>1, <2>2, <2>3, <2>4 DEF Next
<1> DEFINE A == \A o \in Ops :
       /\ op'[o].doc.progress >= op[o].doc.progress
       /\ op'[o].doc.state = "Succeeded" => op'[o].doc.progress = Full
       /\ op[o].doc.state \in Final => op'[o].doc = op[o].doc
<1>3. Bars /\ [Next]_vars => A
  BY <1>2 DEF Forward
<1> QED
  BY <1>1, <1>2, <1>3, PTL DEF Safety, ProgressMovesForward

=============================================================================
