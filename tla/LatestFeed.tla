----------------------------- MODULE LatestFeed -----------------------------
(***************************************************************************)
(* What Manager.Subscribe promises a consumer (operation/operation.go):    *)
(* "A slow consumer misses intermediate updates but always receives the    *)
(* newest one."  Frames are numbered in the order they are published; a    *)
(* consumer that is attached receives some of them in that order, skipping *)
(* as it likes, and for ever tries to catch up with the newest.            *)
(***************************************************************************)
EXTENDS Integers

CONSTANT Subs \* consumers

VARIABLES
  last, \* frames published so far
  seen  \* the number of the frame each consumer received last, -1 when detached

avars == <<last, seen>>

Init == last = 0 /\ seen = [s \in Subs |-> -1]

Attach(s) ==
  /\ seen[s] = -1
  /\ seen' = [seen EXCEPT ![s] = last]
  /\ UNCHANGED last

Detach(s) ==
  /\ seen[s] # -1
  /\ seen' = [seen EXCEPT ![s] = -1]
  /\ UNCHANGED last

Publish ==
  /\ last' = last + 1
  /\ UNCHANGED seen

\* Some later frame arrives; the ones before it are lost.
Receive(s) ==
  /\ seen[s] # -1
  /\ \E n \in (seen[s] + 1) .. last : seen' = [seen EXCEPT ![s] = n]
  /\ UNCHANGED last

Next == Publish \/ \E s \in Subs : Attach(s) \/ Detach(s) \/ Receive(s)

Safety == Init /\ [][Next]_avars

----------------------------------------------------------------------------

(***************************************************************************)
(* A consumer is never ahead of what was published.                        *)
(***************************************************************************)
NeverAhead == \A s \in Subs : seen[s] <= last

\* Once nothing more is published a consumer that stays attached catches up.
CatchesUp == \A s \in Subs : <>[](seen[s] = -1 \/ seen[s] = last)

=============================================================================
