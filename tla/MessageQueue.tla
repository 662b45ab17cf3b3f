---------------------------- MODULE MessageQueue ----------------------------
(***************************************************************************)
(* What a queuing port promises its two users: a queue of bounded length   *)
(* whose messages arrive whole, once and in the order they were sent, and  *)
(* stay readable at the receiver until it acknowledges them.               *)
(***************************************************************************)
EXTENDS Integers, Sequences

CONSTANTS
  Capacity,   \* how many messages may be sent and not yet acknowledged
  Message     \* what a message may contain

VARIABLES
  queue,      \* sent and not yet received, the oldest first
  held        \* received and not yet acknowledged, the oldest first

vars == <<queue, held>>

Init == queue = <<>> /\ held = <<>>

Put(m) ==
  /\ Len(queue) + Len(held) < Capacity
  /\ queue' = Append(queue, m)
  /\ UNCHANGED held

Get ==
  /\ queue # <<>>
  /\ held' = Append(held, Head(queue))
  /\ queue' = Tail(queue)

Release(n) ==
  /\ held' = SubSeq(held, n + 1, Len(held))
  /\ UNCHANGED queue

Next ==
  \/ \E m \in Message : Put(m)
  \/ Get
  \/ \E n \in 1..Len(held) : Release(n)

Spec == Init /\ [][Next]_vars

=============================================================================
