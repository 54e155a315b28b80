------------------------------ MODULE RingBuf ------------------------------
(***************************************************************************)
(* The ring of tasks: threads of the xApp insert messages (ring_insert, by *)
(* rft_enqueue_msg), the worker extracts them (ring_extract), created with *)
(* RING_MP | RING_EBLOCK: a lock for the producers, none for the consumer, *)
(* and a condition for the consumer to wait on.                            *)
(*                                                                         *)
(* head and tail are read and written without a common lock; each such     *)
(* access is a step, in program order.  A critical section of cond_lock is *)
(* one step: nothing blocks in it but the wait, which releases it.  head   *)
(* and tail use the whole range of their unsigned type, so they are masked *)
(* where data is accessed and wrap around at Width (2^32), a multiple of   *)
(* Size.                                                                   *)
(***************************************************************************)
EXTENDS Naturals, Sequences

CONSTANTS Producer,   \* threads that insert
          Msg,        \* messages
          NULL,
          Size,       \* cells of the ring
          Width,      \* head and tail count modulo Width
          Spurious    \* does pthread_cond_wait wake up without a signal?

ASSUME SizeAssumption == Size \in Nat /\ Width \in Nat /\ Size > 1 /\ Width > 0 /\ Width % Size = 0
ASSUME NullAssumption == NULL \notin Msg \cup Producer
ASSUME SpuriousAssumption == Spurious \in BOOLEAN

VARIABLES head, tail, data,  \* ringbuf_t
          cond_th,           \* ringbuf_t: waiting threads that were not signalled
          wlock,             \* the producer that holds wlock, or NULL
          pc,                \* where each producer is
          msg,               \* the message it inserts
          worker,            \* where the consumer is
          ptr                \* what it extracts

ring_vars == <<head, tail, data>>
producer_vars == <<wlock, pc, msg>>
vars == <<ring_vars, cond_th, producer_vars, worker, ptr>>

\* ring_create
Init ==
    /\ head = 0 /\ tail = 0
    /\ data = [i \in 0..Size-1 |-> NULL]
    /\ cond_th = 0
    /\ wlock = NULL
    /\ pc = [p \in Producer |-> "idle"]
    /\ msg = [p \in Producer |-> NULL]
    /\ worker = "idle"
    /\ ptr = NULL

\* ring_count
Count == (head + Width - tail) % Width

\* (Mutant: the ring is filled up to its last cell.)
CountFreeOfSize == (Size + Width + tail - head) % Width

\* ring_count_free
CountFree == (Size - 1 + Width + tail - head) % Width

Mask(i) == i % Size

IsRunning == worker # "exited"

-----------------------------------------------------------------------------
\* ring_insert

\* (Mutant: the producers take no lock.)
LockNothing(p, m) ==
    /\ IsRunning
    /\ pc[p] = "idle"
    /\ pc' = [pc EXCEPT ![p] = "check"]
    /\ msg' = [msg EXCEPT ![p] = m]
    /\ UNCHANGED <<ring_vars, cond_th, wlock, worker, ptr>>

Lock(p, m) ==
    /\ IsRunning
    /\ pc[p] = "idle"
    /\ wlock = NULL
    /\ wlock' = p
    /\ pc' = [pc EXCEPT ![p] = "check"]
    /\ msg' = [msg EXCEPT ![p] = m]
    /\ UNCHANGED <<ring_vars, cond_th, worker, ptr>>

Unlock(p) ==
    /\ wlock' = NULL
    /\ pc' = [pc EXCEPT ![p] = "idle"]
    /\ msg' = [msg EXCEPT ![p] = NULL]

\* A message that finds the ring full is not inserted ("not enqueued").
Check(p) ==
    /\ IsRunning
    /\ pc[p] = "check"
    /\ IF CountFree > 0 THEN pc' = [pc EXCEPT ![p] = "store"] /\ UNCHANGED <<wlock, msg>>
       ELSE Unlock(p)
    /\ UNCHANGED <<ring_vars, cond_th, worker, ptr>>

Store(p) ==
    /\ IsRunning
    /\ pc[p] = "store"
    /\ data' = [data EXCEPT ![Mask(head)] = msg[p]]
    /\ pc' = [pc EXCEPT ![p] = "advance"]
    /\ UNCHANGED <<head, tail, cond_th, wlock, msg, worker, ptr>>

Advance(p) ==
    /\ IsRunning
    /\ pc[p] = "advance"
    /\ head' = (head + 1) % Width
    /\ pc' = [pc EXCEPT ![p] = "signal"]
    /\ UNCHANGED <<tail, data, cond_th, wlock, msg, worker, ptr>>

\* The critical section of cond_lock, and the release of wlock.
Signal(p) ==
    /\ IsRunning
    /\ pc[p] = "signal"
    /\ IF cond_th > 0
       THEN /\ cond_th' = cond_th - 1
            /\ worker' = IF worker = "waiting" THEN "awake" ELSE worker
       ELSE UNCHANGED <<cond_th, worker>>
    /\ Unlock(p)
    /\ UNCHANGED <<ring_vars, ptr>>

-----------------------------------------------------------------------------
\* ring_extract, by the worker

\* Is the ring empty, before the lock is taken?
LookFirst ==
    /\ worker = "idle"
    /\ worker' = IF Count = 0 THEN "lock" ELSE "awake"
    /\ UNCHANGED <<ring_vars, cond_th, producer_vars, ptr>>

\* (Mutant: the worker waits without looking again.)
WaitAnyway ==
    /\ worker = "lock"
    /\ worker' = "waiting"
    /\ cond_th' = cond_th + 1
    /\ UNCHANGED <<ring_vars, producer_vars, ptr>>

\* Is it empty, with the lock held?  If so, wait.
Wait ==
    /\ worker = "lock"
    /\ IF Count = 0
       THEN worker' = "waiting" /\ cond_th' = cond_th + 1
       ELSE worker' = "awake" /\ UNCHANGED cond_th
    /\ UNCHANGED <<ring_vars, producer_vars, ptr>>

WakeUp ==
    /\ Spurious
    /\ worker = "waiting"
    /\ worker' = "awake"
    /\ UNCHANGED <<ring_vars, cond_th, producer_vars, ptr>>

\* An element is taken out; with none, NULL is returned and the worker exits.
Take ==
    /\ worker = "awake"
    /\ IF Count > 0
       THEN /\ ptr' = data[Mask(tail)]
            /\ data' = [data EXCEPT ![Mask(tail)] = NULL]
            /\ worker' = "advance"
       ELSE worker' = "exited" /\ UNCHANGED <<ptr, data>>
    /\ UNCHANGED <<head, tail, cond_th, producer_vars>>

\* ... and the worker comes back for the next one.
AdvanceTail ==
    /\ worker = "advance"
    /\ tail' = (tail + 1) % Width
    /\ ptr' = NULL
    /\ worker' = "idle"
    /\ UNCHANGED <<head, data, cond_th, producer_vars>>

Consume == LookFirst \/ Wait \/ Take \/ AdvanceTail

Insert(p) == Check(p) \/ Store(p) \/ Advance(p) \/ Signal(p)

Next ==
    \/ \E p \in Producer, m \in Msg : Lock(p, m)
    \/ \E p \in Producer : Check(p)
    \/ \E p \in Producer : Store(p)
    \/ \E p \in Producer : Advance(p)
    \/ \E p \in Producer : Signal(p)
    \/ LookFirst
    \/ Wait
    \/ WakeUp
    \/ Take
    \/ AdvanceTail

Spec == Init /\ [][Next]_vars

-----------------------------------------------------------------------------
\* A worker that waits while there are messages is about to be woken: no signal is lost
\* between the two looks at the ring and the wait (ring_extract_timeout), whatever
\* wake-ups left cond_th at.
NoLostWakeup ==
    worker = "waiting" /\ Count > 0 => cond_th > 0 /\ \E p \in Producer : pc[p] = "signal"

\* The cells outside of tail..head-1 are NULL, unless one is being filled or was just
\* taken: no message is left behind or overwritten when head and tail wrap around.
CellsInUse ==
    \A i \in 0..Size-1 :
       data[i] # NULL <=>
          \/ \E p \in Producer : pc[p] = "advance" /\ i = Mask(head)
          \/ /\ (i + Size - Mask(tail)) % Size < Count
             /\ ~(worker = "advance" /\ i = Mask(tail))

\* "Blocks indefinitely if the ring has been created with the RING_EBLOCK flag"
\* (ring_extract): it returns a message, and the worker does not exit.
ExtractBlocks == worker # "exited"

-----------------------------------------------------------------------------
\* The messages from the tail on.
Messages == [k \in 1..Count |-> IF k = 1 /\ worker = "advance" THEN ptr
                                ELSE data[Mask(tail + k - 1)]]

Tasks == INSTANCE Queue WITH queue <- Messages, Capacity <- Size - 1

\* Messages are taken out in the order they were put in, each once, and never more than
\* the ring holds: an insertion takes effect when head advances, an extraction when
\* tail does.
QueueImplemented == Tasks!Spec

\* The worker and a producer that has started go on.
FairSpec == Spec /\ WF_vars(Consume) /\ \A p \in Producer : WF_vars(Insert(p))

\* No message stays in the ring for ever: the worker takes the oldest one, unless it
\* exits (ring_extract_timeout).
WorkerTakes == Count > 0 ~> (worker \in {"advance", "exited"})
=============================================================================
