------------------------------- MODULE Queue -------------------------------
(***************************************************************************)
(* What the ring of tasks promises: a bounded queue, in which what one     *)
(* thread puts in at its end another takes out at its front.               *)
(***************************************************************************)
EXTENDS Naturals, Sequences

CONSTANTS Msg, Capacity
VARIABLE queue

Init == queue = <<>>

Enqueue(m) == Len(queue) < Capacity /\ queue' = Append(queue, m)
Dequeue == queue # <<>> /\ queue' = Tail(queue)

Next == (\E m \in Msg : Enqueue(m)) \/ Dequeue

Spec == Init /\ [][Next]_queue
=============================================================================
