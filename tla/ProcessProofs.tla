--------------------------- MODULE ProcessProofs ---------------------------
(***************************************************************************)
(* What a process runs beside raft: the ring of tasks between the threads  *)
(* of the xApp and the worker (module RingBuf), and the transaction with   *)
(* which rft_shutdown deletes the key of Redis (module Lifecycle).         *)
(*                                                                         *)
(* The ring, for any number of producers and a ring of any size: head and  *)
(* tail, which wrap around at Width, always delimit the cells in use, no   *)
(* wake-up of the worker is lost, and the ring implements a bounded queue. *)
(***************************************************************************)
EXTENDS RingBuf, SequenceTheorems, TLAPS

\* A remainder is determined by any quotient.
LEMMA ModUnique ==
    ASSUME NEW b \in Nat, b > 0, NEW k \in Nat, NEW r \in 0..b-1
    PROVE  (k * b + r) % b = r
OBVIOUS

\* The mask of a position k cells after t.
LEMMA MaskSum ==
    ASSUME NEW t \in Nat, NEW k \in 0..Size
    PROVE  /\ Mask(t) \in 0..Size-1
           /\ Mask(t + k) = IF Mask(t) + k < Size THEN Mask(t) + k ELSE Mask(t) + k - Size
<1> DEFINE d == t \div Size
           r == t % Size
<1>1. d \in Nat /\ r \in 0..Size-1 /\ t = d * Size + r
  BY SizeAssumption
<1> HIDE DEF d, r
<1>2. CASE r + k < Size
  <2>1. r + k \in 0..Size-1 /\ t + k = d * Size + (r + k)
    BY <1>1, <1>2, SizeAssumption
  <2>2. (d * Size + (r + k)) % Size = r + k
    <3> DEFINE s == r + k
    <3>1. s \in 0..Size-1
      BY <2>1
    <3> HIDE DEF s
    <3>2. (d * Size + s) % Size = s
      BY <3>1, <1>1, ModUnique, SizeAssumption
    <3> QED BY <3>2 DEF s
  <2> QED BY <1>1, <1>2, <2>1, <2>2 DEF Mask, r
<1>3. CASE ~(r + k < Size)
  <2>1. r + k - Size \in 0..Size-1
    BY <1>1, <1>3, SizeAssumption
  <2>2. t + k = (d + 1) * Size + (r + k - Size) /\ d + 1 \in Nat
    BY <1>1, <1>3, SizeAssumption
  <2>3. ((d + 1) * Size + (r + k - Size)) % Size = r + k - Size
    <3> DEFINE s == r + k - Size
               e == d + 1
    <3>1. s \in 0..Size-1 /\ e \in Nat
      BY <2>1, <2>2
    <3> HIDE DEF s, e
    <3>2. (e * Size + s) % Size = s
      BY <3>1, ModUnique, SizeAssumption
    <3> QED BY <3>2 DEF s, e
  <2> QED BY <1>1, <1>3, <2>2, <2>3 DEF Mask, r
<1> QED
  BY <1>2, <1>3

\* A wrap-around at Width changes no cell.
LEMMA MaskWrap ==
    ASSUME NEW t \in Nat
    PROVE  Mask(t + Width) = Mask(t)
<1> DEFINE d == t \div Size
           r == t % Size
           w == Width \div Size
<1>1. d \in Nat /\ r \in 0..Size-1 /\ t = d * Size + r
  BY SizeAssumption
<1>2. w \in Nat /\ Width = w * Size
  BY SizeAssumption
<1>3. d + w \in Nat /\ t + Width = (d + w) * Size + r
  <2> HIDE DEF d, r, w
  <2> QED BY <1>1, <1>2, SizeAssumption
<1>4. ((d + w) * Size + r) % Size = r
  <2> DEFINE e == d + w
  <2> HIDE DEF e, r
  <2>1. e \in Nat
    BY <1>3 DEF e
  <2>2. (e * Size + r) % Size = r
    BY <2>1, <1>1, ModUnique, SizeAssumption
  <2> QED BY <2>2 DEF e
<1> QED
  BY <1>3, <1>4 DEF Mask

\* ring_count for any head and tail, and the next position.
LEMMA Distances ==
    ASSUME NEW h \in 0..Width-1, NEW t \in 0..Width-1
    PROVE  /\ (h + Width - t) % Width = IF h >= t THEN h - t ELSE h + Width - t
           /\ (h + 1) % Width = IF h = Width - 1 THEN 0 ELSE h + 1
BY SizeAssumption

\* ring_count_free is not positive only when the ring is full.
LEMMA CountFreeIs ==
    ASSUME head \in 0..Width-1, tail \in 0..Width-1, Count <= Size - 1
    PROVE  CountFree > 0 <=> Count < Size - 1
<1>1. Count = IF head >= tail THEN head - tail ELSE head + Width - tail
  BY Distances DEF Count
<1>2. Size - 1 - Count \in 0..Width-1
  BY <1>1, SizeAssumption
<1>3. CountFree = Size - 1 - Count
  BY <1>1, <1>2, SizeAssumption DEF CountFree
<1> QED BY <1>1, <1>3, SizeAssumption

-----------------------------------------------------------------------------
TypeOK ==
    /\ head \in 0..Width-1 /\ tail \in 0..Width-1
    /\ data \in [0..Size-1 -> Msg \cup {NULL}]
    /\ cond_th \in Nat
    /\ wlock \in Producer \cup {NULL}
    /\ pc \in [Producer -> {"idle", "check", "store", "advance", "signal"}]
    /\ msg \in [Producer -> Msg \cup {NULL}]
    /\ worker \in {"idle", "lock", "waiting", "awake", "advance", "exited"}
    /\ ptr \in Msg \cup {NULL}

\* A producer holds wlock, and has a message, from ring_insert's lock to its unlock.
Locked == \A p \in Producer : /\ pc[p] # "idle" <=> wlock = p
                              /\ pc[p] # "idle" => msg[p] \in Msg

\* One cell stays empty, and a producer past its check has another one.
Room == /\ Count < Size
        /\ \A p \in Producer : pc[p] \in {"store", "advance"} => Count < Size - 1

\* What is stored, or taken, before head or tail advances.
HalfDone == /\ \A p \in Producer : pc[p] = "advance" => data[Mask(head)] = msg[p]
            /\ worker = "advance" => Count > 0 /\ ptr \in Msg

\* The inductive invariant: the worker waits only with cond_th counting it.
IInv == /\ TypeOK /\ Locked /\ Room /\ HalfDone /\ CellsInUse /\ NoLostWakeup
        /\ worker = "waiting" => cond_th > 0

\* How far cell i is from the cell of position t.
Distance(t, i) == (i + Size - Mask(t)) % Size

\* The cells from the tail on: the head is Count cells further.
LEMMA Geometry ==
    ASSUME NEW h \in 0..Width-1, NEW t \in 0..Width-1, NEW c, c = (h + Width - t) % Width,
           c < Size
    PROVE  /\ c \in 0..Size-1 /\ c = IF h >= t THEN h - t ELSE h + Width - t
           /\ Mask(t) \in 0..Size-1 /\ Mask(h) \in 0..Size-1
           /\ \A i \in 0..Size-1 :
                 /\ Distance(t, i) \in 0..Size-1
                 /\ Distance(t, i) = IF i >= Mask(t) THEN i - Mask(t) ELSE i + Size - Mask(t)
                 /\ i = Mask(h) <=> Distance(t, i) = c
                 /\ i = Mask(t) <=> Distance(t, i) = 0
<1>1. c = (IF h >= t THEN h - t ELSE h + Width - t) /\ h \in Nat /\ t \in Nat
  BY Distances
<1>2. c \in 0..Size-1
  BY <1>1, SizeAssumption
<1>3. Mask(t) \in 0..Size-1 /\ Mask(h) \in 0..Size-1
  BY <1>1, SizeAssumption DEF Mask
<1>4. Mask(h) = Mask(t + c)
  <2>1. CASE h >= t
    BY <2>1, <1>1, SizeAssumption
  <2>2. CASE ~(h >= t)
    <3>1. t + c = h + Width
      BY <2>2, <1>1, SizeAssumption
    <3> QED BY <3>1, <1>1, MaskWrap
  <2> QED BY <2>1, <2>2
<1>5. Mask(t + c) = IF Mask(t) + c < Size THEN Mask(t) + c ELSE Mask(t) + c - Size
  <2>1. c \in 0..Size
    BY <1>2, SizeAssumption
  <2> QED BY <2>1, <1>1, MaskSum
<1>6. ASSUME NEW i \in 0..Size-1
      PROVE  /\ Distance(t, i) = IF i >= Mask(t) THEN i - Mask(t) ELSE i + Size - Mask(t)
             /\ Distance(t, i) \in 0..Size-1
  <2> DEFINE m == Mask(t)
  <2>1. m \in 0..Size-1
    BY <1>3
  <2> HIDE DEF m
  <2>2. /\ (i + Size - m) % Size = IF i >= m THEN i - m ELSE i + Size - m
        /\ (i + Size - m) % Size \in 0..Size-1
    BY <2>1, SizeAssumption
  <2> QED BY <2>2 DEF m, Distance
<1>7. ASSUME NEW i \in 0..Size-1
      PROVE  /\ i = Mask(h) <=> Distance(t, i) = c
             /\ i = Mask(t) <=> Distance(t, i) = 0
  <2> DEFINE m == Mask(t)
             n == Mask(h)
             d == Distance(t, i)
  <2>1. /\ m \in 0..Size-1 /\ n \in 0..Size-1
        /\ n = IF m + c < Size THEN m + c ELSE m + c - Size
        /\ d = IF i >= m THEN i - m ELSE i + Size - m
    BY <1>3, <1>4, <1>5, <1>6
  <2> HIDE DEF m, n, d
  <2>2. (i = n <=> d = c) /\ (i = m <=> d = 0)
    BY <2>1, <1>2, SizeAssumption
  <2> QED BY <2>2 DEF m, n, d
<1> QED
  BY <1>1, <1>2, <1>3, <1>6, <1>7

\* One cell further, for the head.
LEMMA HeadAdvances ==
    ASSUME NEW h \in 0..Width-1, NEW t \in 0..Width-1, (h + Width - t) % Width < Size - 1
    PROVE  /\ (h + 1) % Width \in 0..Width-1
           /\ (((h + 1) % Width) + Width - t) % Width = ((h + Width - t) % Width) + 1
<1>1. Size <= Width
  BY SizeAssumption
<1> DEFINE g == (h + 1) % Width
<1>2. g = (IF h = Width - 1 THEN 0 ELSE h + 1) /\ g \in 0..Width-1
  BY Distances, SizeAssumption
<1>3. (h + Width - t) % Width = IF h >= t THEN h - t ELSE h + Width - t
  BY Distances
<1>4. (g + Width - t) % Width = IF g >= t THEN g - t ELSE g + Width - t
  <2> HIDE DEF g
  <2> QED BY <1>2, Distances
<1> HIDE DEF g
<1>5. (g + Width - t) % Width = ((h + Width - t) % Width) + 1
  BY <1>1, <1>2, <1>3, <1>4, SizeAssumption
<1> QED
  BY <1>2, <1>5 DEF g

\* One cell further, for the tail: every other cell gets nearer.
LEMMA TailAdvances ==
    ASSUME NEW h \in 0..Width-1, NEW t \in 0..Width-1,
           (h + Width - t) % Width > 0, (h + Width - t) % Width < Size
    PROVE  /\ (t + 1) % Width \in 0..Width-1
           /\ (h + Width - ((t + 1) % Width)) % Width = ((h + Width - t) % Width) - 1
           /\ \A i \in 0..Size-1 :
                 Distance((t + 1) % Width, i) = IF i = Mask(t) THEN Size - 1 ELSE Distance(t, i) - 1
<1> DEFINE u == (t + 1) % Width
<1>1. u = (IF t = Width - 1 THEN 0 ELSE t + 1) /\ u \in 0..Width-1
  BY Distances, SizeAssumption
<1>2. (h + Width - t) % Width = IF h >= t THEN h - t ELSE h + Width - t
  BY Distances
<1>3. (h + Width - u) % Width = IF h >= u THEN h - u ELSE h + Width - u
  <2> HIDE DEF u
  <2> QED BY <1>1, Distances
<1> HIDE DEF u
<1>4. (h + Width - u) % Width = ((h + Width - t) % Width) - 1
  BY <1>1, <1>2, <1>3, SizeAssumption
<1>5. Mask(u) = IF Mask(t) = Size - 1 THEN 0 ELSE Mask(t) + 1
  <2>1. t \in Nat /\ 1 \in 0..Size /\ 0 \in Nat
    BY SizeAssumption
  <2>2. Mask(t + 1) = (IF Mask(t) + 1 < Size THEN Mask(t) + 1 ELSE Mask(t) + 1 - Size)
        /\ Mask(t) \in 0..Size-1
    BY <2>1, MaskSum
  <2>3. Mask(u) = Mask(t + 1)
    <3>1. CASE t = Width - 1
      <4>1. t + 1 = 0 + Width /\ u = 0
        BY <3>1, <1>1, SizeAssumption
      <4> QED BY <4>1, <2>1, MaskWrap
    <3> QED BY <3>1, <1>1
  <2> QED BY <2>2, <2>3, SizeAssumption
<1>6. ASSUME NEW i \in 0..Size-1
      PROVE  Distance(u, i) = IF i = Mask(t) THEN Size - 1 ELSE Distance(t, i) - 1
  <2>1. Distance(t, i) = IF i >= Mask(t) THEN i - Mask(t) ELSE i + Size - Mask(t)
    BY Geometry
  <2>2. Mask(t) \in 0..Size-1
    BY Geometry
  <2>3. Distance(u, i) = IF i >= Mask(u) THEN i - Mask(u) ELSE i + Size - Mask(u)
    <3> DEFINE c == (h + Width - u) % Width
    <3>1. c < Size
      BY <1>4, <1>2, SizeAssumption
    <3> HIDE DEF c
    <3> QED BY <3>1, <1>1, Geometry DEF c
  <2> QED BY <2>1, <2>2, <2>3, <1>5, SizeAssumption
<1>7. \A i \in 0..Size-1 :
         Distance(u, i) = IF i = Mask(t) THEN Size - 1 ELSE Distance(t, i) - 1
  BY <1>6
<1> QED
  BY Zenon, <1>1, <1>4, <1>7 DEF u

\* ring_create establishes the invariant.
LEMMA InitIInv == Init => IInv
<1> SUFFICES ASSUME Init PROVE IInv
  OBVIOUS
<1>1. Count = 0
  BY SizeAssumption DEF Init, Count
<1>2. TypeOK
  BY SizeAssumption DEF Init, TypeOK
<1>3. Locked
  BY Zenon, NullAssumption DEF Init, Locked
<1>4. Room /\ HalfDone /\ NoLostWakeup /\ (worker = "waiting" => cond_th > 0)
  BY <1>1, SizeAssumption DEF Init, Room, HalfDone, NoLostWakeup
<1>5. CellsInUse
  <2>1. \A i \in 0..Size-1 : ~((i + Size - Mask(tail)) % Size < Count)
    BY <1>1, SizeAssumption DEF Init, Mask
  <2> QED BY <2>1 DEF CellsInUse, Init
<1> QED
  BY <1>2, <1>3, <1>4, <1>5 DEF IInv

\* The cells in use do not change when head, tail and data do not and no producer or
\* worker starts or ends its half of a step.
LEMMA SameCells ==
    ASSUME IInv, UNCHANGED ring_vars,
           (\E p \in Producer : pc'[p] = "advance") <=> (\E p \in Producer : pc[p] = "advance"),
           worker' = "advance" <=> worker = "advance"
    PROVE  CellsInUse' /\ Count' = Count
BY Zenon DEF IInv, CellsInUse, ring_vars, Count, Mask

\* The steps of a producer that leave the cells alone.
LEMMA ProducerIInv ==
    ASSUME IInv, NEW p \in Producer,
           (\E m \in Msg : Lock(p, m)) \/ Check(p) \/ Signal(p)
    PROVE  IInv'
<1>1. TypeOK /\ Locked /\ Room /\ HalfDone /\ CellsInUse /\ NoLostWakeup
  BY DEF IInv
<1>2. head \in 0..Width-1 /\ tail \in 0..Width-1 /\ Count < Size
  BY <1>1 DEF TypeOK, Room
<1>3. Count \in 0..Size-1
  BY <1>2, Geometry DEF Count
<1>4. UNCHANGED ring_vars
  BY DEF Lock, Check, Signal, Unlock
<1>5. pc[p] # "advance" /\ pc'[p] # "advance" /\ \A q \in Producer \ {p} : pc'[q] = pc[q]
  BY <1>1 DEF Lock, Check, Signal, Unlock, TypeOK
<1>6. worker' = "advance" <=> worker = "advance"
  BY DEF Lock, Check, Signal, Unlock
<1>7. CellsInUse' /\ Count' = Count
  BY Zenon, <1>4, <1>5, <1>6, SameCells
<1>8. TypeOK'
  BY <1>1, <1>4 DEF TypeOK, ring_vars, Lock, Check, Signal, Unlock
<1>9. Locked'
  BY <1>1, NullAssumption DEF TypeOK, Locked, Lock, Check, Signal, Unlock
<1>10. Room'
  <2>1. CASE Check(p)
    <3>1. pc'[p] = "store" => Count < Size - 1
      <4>1. Count <= Size - 1
        BY <1>3, SizeAssumption
      <4>2. CountFree > 0 <=> Count < Size - 1
        BY <4>1, <1>2, CountFreeIs
      <4> QED BY <2>1, <4>2, <1>1 DEF Check, Unlock, TypeOK
    <3> QED BY <3>1, <1>1, <1>5, <1>7 DEF Room
  <2>2. CASE ~Check(p)
    <3>1. pc'[p] # "store"
      BY <2>2, <1>1 DEF Lock, Signal, Unlock, TypeOK
    <3> QED BY <3>1, <1>1, <1>5, <1>7 DEF Room
  <2> QED BY <2>1, <2>2
<1>11. HalfDone'
  <2>1. \A q \in Producer \ {p} : msg'[q] = msg[q]
    BY <1>1 DEF Lock, Check, Signal, Unlock, TypeOK
  <2>2. ptr' = ptr /\ data'[Mask(head)'] = data[Mask(head)]
    BY <1>4 DEF Lock, Check, Signal, Unlock, ring_vars, Mask
  <2> QED BY <2>1, <2>2, <1>1, <1>5, <1>6, <1>7 DEF HalfDone
<1>12. NoLostWakeup' /\ (worker' = "waiting" => cond_th' > 0)
  <2>1. CASE Signal(p)
    <3>1. worker' # "waiting"
      BY <2>1 DEF IInv, Signal
    <3> QED BY <3>1 DEF NoLostWakeup
  <2>2. CASE ~Signal(p)
    <3>1. UNCHANGED <<worker, cond_th>> /\ pc[p] # "signal"
      BY <2>2 DEF Lock, Check
    <3> QED BY <3>1, <1>1, <1>5, <1>7 DEF NoLostWakeup, IInv
  <2> QED BY <2>1, <2>2
<1> QED
  BY <1>7, <1>8, <1>9, <1>10, <1>11, <1>12 DEF IInv

\* The steps of the worker that do.
LEMMA WorkerIInv ==
    ASSUME IInv, LookFirst \/ Wait \/ WakeUp
    PROVE  IInv'
<1>1. TypeOK /\ Locked /\ Room /\ HalfDone /\ CellsInUse /\ NoLostWakeup
  BY DEF IInv
<1>2. UNCHANGED <<ring_vars, producer_vars, ptr>>
  BY DEF LookFirst, Wait, WakeUp
<1>3. worker # "advance" /\ worker' # "advance"
  BY DEF LookFirst, Wait, WakeUp
<1>4. CellsInUse' /\ Count' = Count
  BY Zenon, <1>2, <1>3, SameCells DEF producer_vars
<1>5. TypeOK'
  BY <1>1, <1>2 DEF TypeOK, ring_vars, producer_vars, LookFirst, Wait, WakeUp
<1>6. Locked' /\ Room' /\ HalfDone'
  BY Zenon, <1>1, <1>2, <1>3, <1>4 DEF Locked, Room, HalfDone, ring_vars, producer_vars, Mask
<1>7. NoLostWakeup' /\ (worker' = "waiting" => cond_th' > 0)
  <2>1. worker' = "waiting" => Count = 0 /\ cond_th' > 0
    BY <1>1 DEF LookFirst, Wait, WakeUp, TypeOK
  <2> QED BY <2>1, <1>4 DEF NoLostWakeup
<1> QED
  BY <1>4, <1>5, <1>6, <1>7 DEF IInv

\* Only one producer is between the lock and the unlock.
LEMMA OneProducer ==
    ASSUME IInv, NEW p \in Producer, pc[p] # "idle"
    PROVE  \A q \in Producer : pc[q] # "idle" => q = p
BY DEF IInv, Locked

\* What the invariant says of the positions.
LEMMA Positions ==
    ASSUME IInv
    PROVE  /\ head \in 0..Width-1 /\ tail \in 0..Width-1 /\ Count \in 0..Size-1
           /\ Mask(head) \in 0..Size-1 /\ Mask(tail) \in 0..Size-1
           /\ \A i \in 0..Size-1 :
                 /\ Distance(tail, i) \in 0..Size-1
                 /\ i = Mask(head) <=> Distance(tail, i) = Count
                 /\ i = Mask(tail) <=> Distance(tail, i) = 0
                 /\ data[i] # NULL <=>
                       \/ \E p \in Producer : pc[p] = "advance" /\ Distance(tail, i) = Count
                       \/ /\ Distance(tail, i) < Count
                          /\ ~(worker = "advance" /\ Distance(tail, i) = 0)
<1>1. head \in 0..Width-1 /\ tail \in 0..Width-1 /\ Count < Size
  BY DEF IInv, TypeOK, Room
<1>2. /\ Count \in 0..Size-1 /\ Mask(tail) \in 0..Size-1 /\ Mask(head) \in 0..Size-1
      /\ \A i \in 0..Size-1 : /\ Distance(tail, i) \in 0..Size-1
                              /\ i = Mask(head) <=> Distance(tail, i) = Count
                              /\ i = Mask(tail) <=> Distance(tail, i) = 0
  BY <1>1, Geometry DEF Count
<1>3. \A i \in 0..Size-1 :
         data[i] # NULL <=>
            \/ \E p \in Producer : pc[p] = "advance" /\ Distance(tail, i) = Count
            \/ /\ Distance(tail, i) < Count
               /\ ~(worker = "advance" /\ Distance(tail, i) = 0)
  BY Zenon, <1>2 DEF IInv, CellsInUse, Distance
<1> QED
  BY <1>1, <1>2, <1>3

\* ring_insert stores the message in the cell of the head, which is free.
LEMMA StoreIInv == ASSUME IInv, NEW p \in Producer, Store(p) PROVE IInv'
<1>1. TypeOK /\ Locked /\ Room /\ HalfDone /\ NoLostWakeup
  BY DEF IInv
<1>2. /\ pc[p] = "store" /\ pc' = [pc EXCEPT ![p] = "advance"]
      /\ data' = [data EXCEPT ![Mask(head)] = msg[p]]
      /\ UNCHANGED <<head, tail, cond_th, wlock, msg, worker, ptr>>
  BY DEF Store
<1>3. msg[p] \in Msg /\ msg[p] # NULL
  BY <1>1, <1>2, NullAssumption DEF Locked
<1>4. Count' = Count /\ Mask(head)' = Mask(head) /\ Mask(tail)' = Mask(tail)
  BY <1>2 DEF Count, Mask
<1>5. TypeOK'
  BY Zenon, <1>1, <1>2, <1>3 DEF TypeOK
<1>6. pc'[p] = "advance" /\ \A q \in Producer \ {p} : pc'[q] = pc[q] /\ pc[q] = "idle"
  BY <1>1, <1>2, OneProducer DEF TypeOK
<1>7. Locked'
  BY <1>1, <1>2, <1>6 DEF Locked
<1>8. Room'
  BY <1>1, <1>2, <1>4, <1>6 DEF Room
<1>9. HalfDone'
  <2>1. data'[Mask(head)] = msg[p]
    BY <1>1, <1>2, Positions DEF TypeOK
  <2> QED BY <2>1, <1>1, <1>2, <1>4, <1>6 DEF HalfDone
<1>10. CellsInUse'
  <2> SUFFICES ASSUME NEW i \in 0..Size-1
               PROVE  data'[i] # NULL <=>
                         \/ i = Mask(head)
                         \/ Distance(tail, i) < Count /\ ~(worker = "advance" /\ i = Mask(tail))
    BY Zenon, <1>2, <1>4, <1>6 DEF CellsInUse, Distance
  <2>1. CASE i = Mask(head)
    <3>1. data'[i] = msg[p]
      BY Zenon, <2>1, <1>1, <1>2, Positions DEF TypeOK
    <3> QED BY <2>1, <3>1, <1>3
  <2>2. CASE i # Mask(head)
    <3>1. data'[i] = data[i]
      BY Zenon, <2>2, <1>1, <1>2 DEF TypeOK
    <3>2. \A q \in Producer : pc[q] # "advance"
      BY <1>2, <1>6
    <3> QED BY <2>2, <3>1, <3>2, Positions
  <2> QED BY <2>1, <2>2
<1>11. NoLostWakeup' /\ (worker' = "waiting" => cond_th' > 0)
  BY <1>1, <1>2, <1>4, <1>6 DEF NoLostWakeup, IInv
<1> QED
  BY <1>5, <1>7, <1>8, <1>9, <1>10, <1>11 DEF IInv

\* ... and advances the head.
LEMMA AdvanceIInv ==
    ASSUME IInv, NEW p \in Producer, Advance(p)
    PROVE  IInv' /\ Count' = Count + 1
<1>1. TypeOK /\ Locked /\ Room /\ HalfDone /\ NoLostWakeup
  BY DEF IInv
<1>2. /\ pc[p] = "advance" /\ pc' = [pc EXCEPT ![p] = "signal"]
      /\ head' = (head + 1) % Width
      /\ UNCHANGED <<tail, data, cond_th, wlock, msg, worker, ptr>>
  BY DEF Advance
<1>3. Count < Size - 1 /\ Count \in 0..Size-1
  BY <1>1, <1>2, Positions DEF Room
<1>4. head' \in 0..Width-1 /\ Count' = Count + 1
  BY <1>2, <1>3, Positions, HeadAdvances DEF Count
<1>5. TypeOK'
  BY Zenon, <1>1, <1>2, <1>4 DEF TypeOK
<1>6. pc'[p] = "signal" /\ \A q \in Producer \ {p} : pc'[q] = pc[q] /\ pc[q] = "idle"
  BY <1>1, <1>2, OneProducer DEF TypeOK
<1>7. Locked'
  BY <1>1, <1>2, <1>6 DEF Locked
<1>8. Room'
  BY <1>3, <1>4, <1>6, SizeAssumption DEF Room
<1>9. HalfDone'
  BY <1>1, <1>2, <1>3, <1>4, <1>6 DEF HalfDone
<1>10. CellsInUse'
  <2>1. \A q \in Producer : pc'[q] # "advance"
    BY <1>6
  <2>2. Mask(tail)' = Mask(tail)
    BY <1>2 DEF Mask
  <2> SUFFICES ASSUME NEW i \in 0..Size-1
               PROVE  data[i] # NULL <=>
                         Distance(tail, i) < Count + 1 /\ ~(worker = "advance" /\ i = Mask(tail))
    BY Zenon, <1>2, <1>4, <2>1, <2>2 DEF CellsInUse, Distance
  <2>3. Distance(tail, i) < Count + 1 <=> Distance(tail, i) < Count \/ Distance(tail, i) = Count
    BY <1>3, Positions
  <2>4. worker = "advance" => Count # 0
    BY <1>1, <1>3 DEF HalfDone
  <2> QED BY <2>3, <2>4, <1>2, Positions
<1>11. NoLostWakeup' /\ (worker' = "waiting" => cond_th' > 0)
  BY <1>2, <1>6 DEF NoLostWakeup, IInv
<1> QED
  BY <1>4, <1>5, <1>7, <1>8, <1>9, <1>10, <1>11 DEF IInv

\* ring_extract takes the message out of the cell of the tail, if there is one.
LEMMA TakeIInv == ASSUME IInv, Take PROVE IInv'
<1>1. TypeOK /\ Locked /\ Room /\ HalfDone /\ NoLostWakeup
  BY DEF IInv
<1>2. worker = "awake" /\ UNCHANGED <<head, tail, cond_th, producer_vars>>
  BY DEF Take
<1>3. Count' = Count /\ Mask(head)' = Mask(head) /\ Mask(tail)' = Mask(tail)
  BY <1>2 DEF Count, Mask
<1>4. Locked' /\ Room'
  BY Zenon, <1>1, <1>2, <1>3 DEF Locked, Room, producer_vars
<1>5. CASE Count > 0
  <2>1. /\ ptr' = data[Mask(tail)] /\ worker' = "advance"
        /\ data' = [data EXCEPT ![Mask(tail)] = NULL]
    BY <1>5 DEF Take
  <2>2. data[Mask(tail)] # NULL
    BY <1>2, <1>5, Positions
  <2>3. data[Mask(tail)] \in Msg
    BY <2>2, <1>1, Positions DEF TypeOK
  <2>4. TypeOK'
    BY Zenon, <2>1, <2>3, <1>1, <1>2 DEF TypeOK, producer_vars
  <2>5. Mask(tail) # Mask(head)
    BY <1>5, Positions
  <2>6. HalfDone'
    BY <2>1, <2>3, <2>5, <1>1, <1>2, <1>3, <1>5, Positions DEF HalfDone, producer_vars, TypeOK
  <2>7. CellsInUse'
    <3> SUFFICES ASSUME NEW i \in 0..Size-1
                 PROVE  data'[i] # NULL <=>
                           \/ \E p \in Producer : pc[p] = "advance" /\ i = Mask(head)
                           \/ Distance(tail, i) < Count /\ i # Mask(tail)
      BY Zenon, <1>2, <1>3, <2>1 DEF CellsInUse, Distance, producer_vars
    <3>1. CASE i = Mask(tail)
      <4>1. data'[i] = NULL
        BY Zenon, <3>1, <2>1, <1>1 DEF TypeOK
      <4> QED BY <3>1, <4>1, <2>5
    <3>2. CASE i # Mask(tail)
      <4>1. data'[i] = data[i]
        BY Zenon, <3>2, <2>1, <1>1 DEF TypeOK
      <4> QED BY <3>2, <4>1, <1>2, Positions
    <3> QED BY <3>1, <3>2
  <2> QED
    BY <1>4, <2>1, <2>4, <2>6, <2>7 DEF IInv, NoLostWakeup
<1>6. CASE ~(Count > 0)
  <2>1. worker' = "exited" /\ UNCHANGED <<ring_vars, ptr, producer_vars>>
    BY <1>2, <1>6 DEF Take, ring_vars
  <2>2. CellsInUse'
    BY Zenon, <2>1, <1>2, SameCells DEF producer_vars
  <2>3. TypeOK'
    BY <2>1, <1>1, <1>2 DEF TypeOK, ring_vars, producer_vars
  <2>4. HalfDone'
    BY <2>1, <1>1, <1>3 DEF HalfDone, producer_vars, ring_vars
  <2> QED
    BY <1>4, <2>1, <2>2, <2>3, <2>4 DEF IInv, NoLostWakeup
<1> QED
  BY <1>5, <1>6

\* ... and advances the tail.
LEMMA AdvanceTailIInv ==
    ASSUME IInv, AdvanceTail
    PROVE  IInv' /\ Count > 0 /\ Count' = Count - 1
<1>1. TypeOK /\ Locked /\ Room /\ HalfDone /\ NoLostWakeup
  BY DEF IInv
<1>2. /\ worker = "advance" /\ worker' = "idle" /\ ptr' = NULL
      /\ tail' = (tail + 1) % Width
      /\ UNCHANGED <<head, data, cond_th, producer_vars>>
  BY DEF AdvanceTail
<1>3. Count > 0 /\ Count \in 0..Size-1 /\ Count < Size
  BY <1>1, <1>2, Positions DEF HalfDone, Room
<1>4. /\ tail' \in 0..Width-1 /\ Count' = Count - 1
      /\ \A i \in 0..Size-1 :
            Distance(tail', i) = IF i = Mask(tail) THEN Size - 1 ELSE Distance(tail, i) - 1
  BY <1>2, <1>3, Positions, TailAdvances DEF Count
<1>5. TypeOK'
  BY <1>1, <1>2, <1>4 DEF TypeOK, producer_vars
<1>6. Locked' /\ HalfDone'
  BY <1>1, <1>2 DEF Locked, HalfDone, producer_vars, Mask
<1>7. Room'
  <2>1. Count' < Size - 1
    BY <1>3, <1>4, SizeAssumption
  <2> QED BY <2>1, <1>3, <1>4, SizeAssumption DEF Room
<1>8. CellsInUse'
  <2>1. \A p \in Producer : pc'[p] = pc[p]
    BY <1>2 DEF producer_vars
  <2>2. Mask(head)' = Mask(head)
    BY <1>2 DEF Mask
  <2> SUFFICES ASSUME NEW i \in 0..Size-1
               PROVE  data[i] # NULL <=>
                         \/ \E p \in Producer : pc[p] = "advance" /\ i = Mask(head)
                         \/ Distance(tail', i) < Count'
    BY Zenon, <1>2, <2>1, <2>2 DEF CellsInUse, Distance, Mask
  <2>3. Distance(tail', i) < Count' <=> Distance(tail, i) < Count /\ i # Mask(tail)
    BY <1>3, <1>4, Positions, SizeAssumption
  <2> QED BY <2>3, <1>2, Positions
<1>9. NoLostWakeup' /\ (worker' = "waiting" => cond_th' > 0)
  BY <1>2 DEF NoLostWakeup
<1> QED
  BY <1>3, <1>4, <1>5, <1>6, <1>7, <1>8, <1>9 DEF IInv

\* Every step of a producer and of the worker preserves the invariant.
LEMMA NextIInv == IInv /\ [Next]_vars => IInv'
<1> SUFFICES ASSUME IInv, [Next]_vars PROVE IInv'
  OBVIOUS
<1>1. CASE UNCHANGED vars
  <2>1. UNCHANGED <<head, tail, data, cond_th, wlock, pc, msg, worker, ptr>>
    BY <1>1 DEF vars, ring_vars, producer_vars
  <2> QED
    BY Zenon, <2>1 DEF IInv, TypeOK, Locked, Room, HalfDone, CellsInUse, NoLostWakeup, Count, Mask
<1>2. CASE Next
  BY Zenon, <1>2, ProducerIInv, WorkerIInv, StoreIInv, AdvanceIInv, TakeIInv, AdvanceTailIInv DEF Next
<1> QED
  BY <1>1, <1>2

\* No signal is lost between the worker's two looks at the ring and its wait: it is a
\* waiting worker with messages in the ring that a producer is about to wake up
\* (ring_extract_timeout, ring_insert), for any number of producers.
THEOREM WakeUps == Spec => []NoLostWakeup
<1>1. IInv => NoLostWakeup
  BY DEF IInv
<1> QED
  BY <1>1, InitIInv, NextIInv, PTL DEF Spec

\* No message is left behind or overwritten when head and tail wrap around, for a ring
\* of any size that divides the range of head and tail.
THEOREM Cells == Spec => []CellsInUse
<1>1. IInv => CellsInUse
  BY DEF IInv
<1> QED
  BY <1>1, InitIInv, NextIInv, PTL DEF Spec

-----------------------------------------------------------------------------
\* The position k cells after the tail.
LEMMA CellAt ==
    ASSUME IInv, NEW k \in 0..Size-1
    PROVE  Mask(tail + k) \in 0..Size-1 /\ Distance(tail, Mask(tail + k)) = k
<1>1. head \in 0..Width-1 /\ tail \in 0..Width-1 /\ Count < Size /\ tail \in Nat /\ k \in 0..Size
  BY SizeAssumption DEF IInv, TypeOK, Room
<1> DEFINE m == Mask(tail)
           i == Mask(tail + k)
<1>2. m \in 0..Size-1 /\ i = IF m + k < Size THEN m + k ELSE m + k - Size
  BY <1>1, MaskSum
<1>3. i \in 0..Size-1
  <2> HIDE DEF m, i
  <2> QED BY <1>2, SizeAssumption
<1>4. Distance(tail, i) = IF i >= m THEN i - m ELSE i + Size - m
  <2> HIDE DEF i
  <2> QED BY <1>1, <1>3, Geometry DEF Count
<1> HIDE DEF m, i
<1>5. Distance(tail, i) = k
  BY <1>2, <1>3, <1>4, SizeAssumption
<1> QED
  BY <1>3, <1>5 DEF i

\* The queue, read off the cells.
IsQueue ==
    /\ Messages \in Seq(Msg) /\ Len(Messages) = Count
    /\ \A k \in 1..Count : Messages[k] = IF k = 1 /\ worker = "advance" THEN ptr
                                         ELSE data[Mask(tail + k - 1)]

LEMMA MessagesSeq == IInv => IsQueue
<1> SUFFICES ASSUME IInv PROVE IsQueue
  OBVIOUS
<1>1. Count \in 0..Size-1
  BY Positions
<1>2. ASSUME NEW k \in 1..Count
      PROVE  (IF k = 1 /\ worker = "advance" THEN ptr ELSE data[Mask(tail + k - 1)]) \in Msg
  <2>1. CASE k = 1 /\ worker = "advance"
    BY <2>1 DEF IInv, HalfDone
  <2>2. CASE ~(k = 1 /\ worker = "advance")
    <3> DEFINE j == k - 1
    <3>1. j \in 0..Size-1 /\ j < Count /\ tail + k - 1 = tail + j
      BY <1>1, SizeAssumption DEF IInv, TypeOK
    <3>2. worker = "advance" => j # 0
      BY <2>2
    <3> HIDE DEF j
    <3>3. Mask(tail + j) \in 0..Size-1 /\ Distance(tail, Mask(tail + j)) = j
      BY <3>1, CellAt
    <3>4. data[Mask(tail + j)] # NULL
      BY <3>1, <3>2, <3>3, Positions
    <3>5. data[Mask(tail + j)] \in Msg
      BY <3>3, <3>4 DEF IInv, TypeOK
    <3> QED BY <2>2, <3>1, <3>5
  <2> QED BY <2>1, <2>2
<1>3. Messages \in [1..Count -> Msg]
  BY <1>2 DEF Messages
<1>4. Messages \in Seq(Msg) /\ Len(Messages) = Count
  BY <1>1, <1>3, SeqDef
<1> QED
  BY Zenon, <1>4 DEF Messages, IsQueue

LEMMA MessagesSeqNext == IInv' => IsQueue'
BY MessagesSeq, PTL

\* Nothing happens to the queue when no cell of it changes.
LEMMA SameMessages ==
    ASSUME IInv, IInv', Count' = Count,
           \A k \in 1..Count : Messages'[k] = Messages[k]
    PROVE  Messages' = Messages
<1>1. Messages \in Seq(Msg) /\ Len(Messages) = Count
  BY MessagesSeq DEF IsQueue
<1>2. Messages' \in Seq(Msg) /\ Len(Messages') = Count
  BY MessagesSeqNext DEF IsQueue
<1> QED
  BY <1>1, <1>2, SeqEqual

\* The cells of the queue, as far as they are full, are unaffected by a message stored
\* in the cell of the head.
LEMMA StoreMessages ==
    ASSUME IInv, IInv', NEW p \in Producer, Store(p)
    PROVE  Messages' = Messages
<1>1. /\ data' = [data EXCEPT ![Mask(head)] = msg[p]]
      /\ UNCHANGED <<head, tail, worker, ptr>>
  BY DEF Store
<1>2. Count' = Count /\ Count \in 0..Size-1 /\ data \in [0..Size-1 -> Msg \cup {NULL}]
  BY <1>1, Positions DEF Count, IInv, TypeOK
<1>3. ASSUME NEW k \in 1..Count
      PROVE  data'[Mask(tail + k - 1)] = data[Mask(tail + k - 1)]
  <2> DEFINE j == k - 1
  <2>1. j \in 0..Size-1 /\ j # Count /\ tail + k - 1 = tail + j
    BY <1>2, SizeAssumption DEF IInv, TypeOK
  <2> HIDE DEF j
  <2>2. Mask(tail + j) \in 0..Size-1 /\ Mask(tail + j) # Mask(head)
    BY <2>1, CellAt, Positions
  <2>3. data'[Mask(tail + j)] = data[Mask(tail + j)]
    BY <2>2, <1>1, <1>2
  <2> QED BY <2>1, <2>3
<1>4. \A k \in 1..Count : Messages'[k] = Messages[k]
  BY <1>1, <1>2, <1>3, MessagesSeq, MessagesSeqNext DEF IsQueue, Mask
<1> QED
  BY <1>2, <1>4, SameMessages

\* Nor by the message taken out of the cell of the tail, which the worker then has.
LEMMA TakeMessages ==
    ASSUME IInv, IInv', Take
    PROVE  Messages' = Messages
<1>1. UNCHANGED <<head, tail>> /\ worker = "awake"
  BY DEF Take
<1>2. Count' = Count /\ Count \in 0..Size-1 /\ data \in [0..Size-1 -> Msg \cup {NULL}]
  BY <1>1, Positions DEF Count, IInv, TypeOK
<1>3. CASE Count = 0
  <2>1. \A k \in 1..Count : Messages'[k] = Messages[k]
    BY <1>3
  <2> QED BY <2>1, <1>2, SameMessages
<1>4. CASE Count > 0
  <2>1. /\ ptr' = data[Mask(tail)] /\ worker' = "advance"
        /\ data' = [data EXCEPT ![Mask(tail)] = NULL]
    BY <1>4 DEF Take
  <2>2. ASSUME NEW k \in 1..Count, k # 1
        PROVE  data'[Mask(tail + k - 1)] = data[Mask(tail + k - 1)]
    <3> DEFINE j == k - 1
    <3>1. j \in 0..Size-1 /\ j # 0 /\ tail + k - 1 = tail + j
      BY <2>2, <1>2, SizeAssumption DEF IInv, TypeOK
    <3> HIDE DEF j
    <3>2. Mask(tail + j) \in 0..Size-1 /\ Mask(tail + j) # Mask(tail)
      BY <3>1, CellAt, Positions
    <3>3. data'[Mask(tail + j)] = data[Mask(tail + j)]
      BY <3>2, <2>1, <1>2
    <3> QED BY <3>1, <3>3
  <2>3. Mask(tail + 1 - 1) = Mask(tail)
    BY DEF IInv, TypeOK, Mask
  <2>4. ASSUME NEW k \in 1..Count PROVE Messages'[k] = Messages[k]
    <3>1. CASE k = 1
      BY <3>1, <2>1, <2>3, <1>1, <1>2, MessagesSeq, MessagesSeqNext DEF IsQueue
    <3>2. CASE k # 1
      BY <3>2, <2>2, <1>1, <1>2, MessagesSeq, MessagesSeqNext DEF IsQueue, Mask
    <3> QED BY <3>1, <3>2
  <2> QED BY <2>4, <1>2, SameMessages
<1> QED
  BY <1>2, <1>3, <1>4

\* When the head advances, the message stored before it is enqueued.
LEMMA AdvanceMessages ==
    ASSUME IInv, NEW p \in Producer, Advance(p)
    PROVE  Tasks!Enqueue(msg[p]) /\ msg[p] \in Msg
<1>1. IInv' /\ Count' = Count + 1
  BY AdvanceIInv
<1>2. pc[p] = "advance" /\ UNCHANGED <<tail, data, worker, ptr>>
  BY DEF Advance
<1>3. /\ Count \in 0..Size-1 /\ Count < Size - 1
      /\ msg[p] \in Msg /\ data[Mask(head)] = msg[p] /\ (worker = "advance" => Count > 0)
  BY <1>2, Positions DEF IInv, Room, Locked, HalfDone
<1> DEFINE s == Append(Messages, msg[p])
<1>4. /\ s \in Seq(Msg) /\ Len(s) = Count + 1
      /\ \A k \in 1..Count : s[k] = Messages[k]
      /\ s[Count + 1] = msg[p]
  BY <1>3, MessagesSeq, AppendProperties DEF IsQueue
<1>5. Messages' \in Seq(Msg) /\ Len(Messages') = Count + 1
  BY <1>1, MessagesSeqNext DEF IsQueue
<1>6. ASSUME NEW k \in 1..Count + 1 PROVE Messages'[k] = s[k]
  <2>1. Messages'[k] = IF k = 1 /\ worker = "advance" THEN ptr ELSE data[Mask(tail + k - 1)]
    BY <1>1, <1>2, MessagesSeqNext DEF IsQueue, Mask
  <2>2. CASE k \in 1..Count
    BY <2>1, <2>2, <1>4, MessagesSeq DEF IsQueue
  <2>3. CASE k \notin 1..Count
    <3>1. k = Count + 1
      BY <2>3, <1>3
    <3>2. ~(k = 1 /\ worker = "advance")
      BY <3>1, <1>3
    <3>3. tail + k - 1 = tail + Count
      BY <3>1, <1>3 DEF IInv, TypeOK
    <3>4. Mask(tail + Count) = Mask(head)
      BY <1>3, CellAt, Positions
    <3> QED BY <2>1, <3>1, <3>2, <3>3, <3>4, <1>3, <1>4
  <2> QED BY Zenon, <2>2, <2>3
<1>7. Messages' = s
  <2> HIDE DEF s
  <2> QED BY <1>4, <1>5, <1>6, SeqEqual
<1>8. Len(Messages) < Size - 1
  BY <1>3, MessagesSeq DEF IsQueue
<1> QED
  BY <1>3, <1>7, <1>8 DEF Tasks!Enqueue

\* When the tail advances, the message taken before it is dequeued.
LEMMA AdvanceTailMessages ==
    ASSUME IInv, AdvanceTail
    PROVE  Tasks!Dequeue
<1>1. IInv' /\ Count > 0 /\ Count' = Count - 1
  BY AdvanceTailIInv
<1>2. /\ worker = "advance" /\ worker' = "idle" /\ tail' = (tail + 1) % Width
      /\ UNCHANGED <<head, data>>
  BY DEF AdvanceTail
<1>3. Count \in 0..Size-1 /\ tail \in 0..Width-1
  BY Positions
<1>4. Messages \in Seq(Msg) /\ Len(Messages) = Count /\ Messages # <<>>
  BY <1>1, <1>3, MessagesSeq DEF IsQueue
<1> DEFINE s == Tail(Messages)
<1>5. /\ s \in Seq(Msg) /\ Len(s) = Count - 1
      /\ \A k \in 1..Count-1 : s[k] = Messages[k + 1]
  BY <1>4, HeadTailProperties
<1>6. Messages' \in Seq(Msg) /\ Len(Messages') = Count - 1
  BY <1>1, MessagesSeqNext DEF IsQueue
<1>7. ASSUME NEW k \in 1..Count-1 PROVE Messages'[k] = s[k]
  <2>1. Messages'[k] = data[Mask(tail' + k - 1)]
    BY <1>1, <1>2, MessagesSeqNext DEF IsQueue, Mask
  <2>2. k + 1 \in 1..Count /\ k + 1 # 1
    BY <1>3
  <2>3. Messages[k + 1] = data[Mask(tail + (k + 1) - 1)]
    BY <2>2, MessagesSeq DEF IsQueue
  <2>4. tail + (k + 1) - 1 = tail + k
    BY <1>3
  <2>5. Mask(tail' + k - 1) = Mask(tail + k)
    <3>1. tail' = IF tail = Width - 1 THEN 0 ELSE tail + 1
      BY <1>2, <1>3, Distances
    <3>2. CASE tail = Width - 1
      <4> DEFINE j == k - 1
      <4>1. j \in Nat /\ tail' + k - 1 = j /\ tail + k = j + Width
        BY <3>1, <3>2, <1>3, SizeAssumption
      <4> HIDE DEF j
      <4> QED BY <4>1, MaskWrap
    <3>3. CASE tail # Width - 1
      BY <3>1, <3>3, <1>3
    <3> QED BY <3>2, <3>3
  <2> QED BY <2>1, <2>3, <2>4, <2>5, <1>5
<1>8. Messages' = s
  <2> HIDE DEF s
  <2> QED BY <1>5, <1>6, <1>7, SeqEqual
<1> QED
  BY <1>4, <1>8 DEF Tasks!Dequeue

\* The other steps leave the queue alone.
LEMMA OtherMessages ==
    ASSUME IInv, IInv', UNCHANGED <<ring_vars, ptr>>,
           worker' = "advance" <=> worker = "advance"
    PROVE  Messages' = Messages
<1>1. Count' = Count /\ UNCHANGED <<tail, data, ptr>>
  BY DEF ring_vars, Count
<1>2. \A k \in 1..Count : Messages'[k] = Messages[k]
  BY <1>1, MessagesSeq, MessagesSeqNext DEF IsQueue, Mask
<1> QED
  BY <1>1, <1>2, SameMessages

\* A step of the ring is a step of the queue.
LEMMA NextQueue == IInv /\ [Next]_vars => [Tasks!Next]_Messages
<1> SUFFICES ASSUME IInv, [Next]_vars PROVE Tasks!Next \/ Messages' = Messages
  OBVIOUS
<1>1. IInv'
  BY NextIInv
<1>2. ASSUME NEW p \in Producer, (\E m \in Msg : Lock(p, m)) \/ Check(p) \/ Signal(p)
      PROVE  Messages' = Messages
  BY <1>2, <1>1, OtherMessages DEF Lock, Check, Signal
<1>3. ASSUME NEW p \in Producer, Store(p) PROVE Messages' = Messages
  BY <1>3, <1>1, StoreMessages
<1>4. ASSUME NEW p \in Producer, Advance(p) PROVE Tasks!Next
  BY <1>4, AdvanceMessages DEF Tasks!Next
<1>5. CASE LookFirst \/ Wait \/ WakeUp
  BY <1>5, <1>1, OtherMessages DEF LookFirst, Wait, WakeUp
<1>6. CASE Take
  BY <1>6, <1>1, TakeMessages
<1>7. CASE AdvanceTail
  BY <1>7, AdvanceTailMessages DEF Tasks!Next
<1>8. CASE UNCHANGED vars
  BY <1>8, <1>1, OtherMessages DEF vars
<1> QED
  BY Zenon, <1>2, <1>3, <1>4, <1>5, <1>6, <1>7, <1>8 DEF Next

\* The ring of tasks is a bounded queue for the producers and the worker: a message is
\* enqueued when head advances, dequeued when tail does, in order, once, and never more
\* than Size - 1 at a time, wherever head and tail wrap around.
THEOREM Implementation == Spec => QueueImplemented
<1>1. Init => Tasks!Init
  <2> SUFFICES ASSUME Init PROVE Messages = <<>>
    BY DEF Tasks!Init
  <2>1. Messages \in Seq(Msg) /\ Len(Messages) = 0
    BY InitIInv, MessagesSeq, SizeAssumption DEF IsQueue, Init, Count
  <2> QED BY <2>1, EmptySeq
<1> QED
  BY <1>1, InitIInv, NextIInv, NextQueue, PTL DEF Spec, QueueImplemented, Tasks!Spec

-----------------------------------------------------------------------------
(* The key of Redis, for any number of servers, terms and clusters         *)

CONSTANTS Server, Stops, Faulty, MaxTerm, MaxTries, MaxStarts, MaxClusters

VARIABLES key, watch, members, starts, state, term, voted_for, cluster, election, target,
          asked, tries, takes, shutdown

\* The xApps of a cluster, the threads of each, and Redis.
Life == INSTANCE Lifecycle WITH worker <- takes

\* The steps that leave Redis alone and start no deletion: a thread of s may come to any
\* place but the EXEC.
NoExec ==
    /\ UNCHANGED Life!redis
    /\ shutdown' \in [Server -> {"no", "wait", "lock", "watch", "get", "exec", "signal", "done"}]
    /\ \A s \in Server : shutdown'[s] = "exec" => shutdown[s] = "exec"

\* Such a step keeps WatchedKey.
LEMMA NoExecStep ==
    ASSUME Life!WatchedKey, NoExec
    PROVE  Life!WatchedKey'
BY DEF Life!WatchedKey, NoExec, Life!redis

\* A write of the key (SET of a new leader or of bootstrap_rft_cluster) breaks every WATCH,
\* so that no EXEC that is still to come deletes what was written.
LEMMA SetKeyStep ==
    ASSUME Life!WatchedKey, NEW s \in Server, Life!SetKey(s), UNCHANGED shutdown
    PROVE  Life!WatchedKey'
<1>1. watch' \in [Server -> {"no", "clean", "dirty"}]
  BY DEF Life!WatchedKey, Life!SetKey, Life!Touched
<1>2. \A t \in Server : watch'[t] # "clean"
  BY DEF Life!WatchedKey, Life!SetKey, Life!Touched
<1> QED
  BY <1>1, <1>2 DEF Life!WatchedKey

\* The start and the end of a process drop its WATCH.
LEMMA FreshStep ==
    ASSUME Life!WatchedKey, NEW s \in Server, NEW st, NEW thread, Life!Fresh(s, st, thread)
    PROVE  Life!WatchedKey'
BY DEF Life!WatchedKey, Life!Fresh

\* become_follower signals follower_cond: rft_shutdown may go on, to the test of me.state.
LEMMA SignalStep ==
    ASSUME Life!WatchedKey, NEW s \in Server, Life!SignalFollower(s), UNCHANGED Life!redis
    PROVE  Life!WatchedKey'
<1>1. NoExec
  BY DEF Life!WatchedKey, NoExec, Life!SignalFollower
<1> QED
  BY <1>1, NoExecStep

\* The election thread touches the key only with SetKey, and exits only with Fresh.
LEMMA ElectionThreadStep ==
    ASSUME Life!WatchedKey, NEW s \in Server, Life!ElectionThread(s)
    PROVE  Life!WatchedKey'
<1>1. ASSUME UNCHANGED <<Life!redis, shutdown>>
      PROVE  Life!WatchedKey'
  BY <1>1 DEF Life!WatchedKey, Life!redis
<1>2. CASE Life!Loop(s)
  BY <1>1, <1>2 DEF Life!Loop
<1>3. CASE Life!Bootstrap(s)
  BY <1>1, <1>3, SetKeyStep DEF Life!Bootstrap, Life!SetIfNoKey
<1>4. CASE Life!Discover(s)
  BY <1>1, <1>4 DEF Life!Discover
<1>5. CASE Life!Ask(s)
  BY <1>1, <1>5 DEF Life!Ask
<1>6. CASE Life!GiveUp(s)
  BY <1>6, FreshStep DEF Life!GiveUp
<1>7. CASE Life!BecomeCandidate(s)
  BY <1>1, <1>7 DEF Life!BecomeCandidate
<1>8. CASE Life!CandidateEnds(s)
  BY <1>1, <1>8 DEF Life!CandidateEnds
<1>9. CASE Life!SetLeaderKey(s)
  BY <1>9, SetKeyStep DEF Life!SetLeaderKey
<1>10. CASE Life!WaitFollower(s)
  BY <1>1, <1>10 DEF Life!WaitFollower
<1> QED
  BY <1>2, <1>3, <1>4, <1>5, <1>6, <1>7, <1>8, <1>9, <1>10 DEF Life!ElectionThread

\* The worker leaves Redis alone; a step down may wake rft_shutdown.
LEMMA WorkerStep ==
    ASSUME Life!WatchedKey, NEW s \in Server, Life!Worker(s)
    PROVE  Life!WatchedKey'
<1>1. ASSUME UNCHANGED <<Life!redis, shutdown>>
      PROVE  Life!WatchedKey'
  BY <1>1 DEF Life!WatchedKey, Life!redis
<1>2. CASE Life!HandleVoteReply(s)
  BY <1>1, <1>2 DEF Life!HandleVoteReply
<1>3. ASSUME NEW x \in Server, Life!HandleVoteRequest(s, x)
      PROVE  Life!WatchedKey'
  BY <1>1, <1>3, SignalStep DEF Life!HandleVoteRequest, Life!MatchTerms, Life!BecomeFollower
<1>4. ASSUME NEW x \in Server, Life!HandleAppendEntriesRequest(s, x)
      PROVE  Life!WatchedKey'
  BY <1>1, <1>4, SignalStep DEF Life!HandleAppendEntriesRequest, Life!MatchTerms, Life!BecomeFollower
<1>5. ASSUME NEW x \in Server, Life!JoinCluster(s, x)
      PROVE  Life!WatchedKey'
  BY <1>5, SignalStep DEF Life!JoinCluster, Life!BecomeFollower
<1> QED
  BY <1>2, <1>3, <1>4, <1>5 DEF Life!Worker

\* rft_shutdown comes to the EXEC only from a GET that found its own endpoint.
LEMMA ShutdownStep ==
    ASSUME Life!WatchedKey, NEW s \in Server, Life!BeginShutdown(s) \/ Life!Shutdown(s)
    PROVE  Life!WatchedKey'
<1>1. CASE Life!BeginShutdown(s) \/ Life!WaitTimeout(s) \/ Life!LockState(s) \/ Life!EndShutdown(s)
  <2>1. NoExec
    BY <1>1 DEF Life!WatchedKey, NoExec, Life!BeginShutdown, Life!WaitTimeout, Life!LockState, Life!EndShutdown
  <2> QED
    BY <2>1, NoExecStep
<1>2. CASE Life!Watch(s)
  BY <1>2 DEF Life!WatchedKey, Life!Watch
<1>3. CASE Life!GetKey(s)
  BY <1>3 DEF Life!WatchedKey, Life!GetKey
<1>4. CASE Life!DeleteKey(s)
  <2>1. watch' \in [Server -> {"no", "clean", "dirty"}]
    BY Zenon, <1>4 DEF Life!WatchedKey, Life!DeleteKey, Life!Touched
  <2>2. shutdown' = [shutdown EXCEPT ![s] = "signal"]
    BY <1>4 DEF Life!DeleteKey
  <2>3. CASE watch[s] = "clean"
    <3>1. \A t \in Server : watch'[t] # "clean"
      BY Zenon, <2>3, <1>4 DEF Life!WatchedKey, Life!DeleteKey, Life!Touched
    <3> QED
      BY <2>1, <2>2, <3>1 DEF Life!WatchedKey
  <2>4. CASE watch[s] # "clean"
    BY <2>1, <2>2, <2>4, <1>4 DEF Life!WatchedKey, Life!DeleteKey
  <2> QED
    BY <2>3, <2>4
<1> QED
  BY <1>1, <1>2, <1>3, <1>4 DEF Life!Shutdown

\* Every step keeps WatchedKey.
LEMMA WatchedKeyStep ==
    ASSUME Life!WatchedKey, [Life!Next]_(Life!vars)
    PROVE  Life!WatchedKey'
<1>1. CASE UNCHANGED Life!vars
  BY <1>1 DEF Life!vars, Life!redis, Life!WatchedKey
<1>2. ASSUME NEW s \in Server, Life!Start(s) \/ Life!Crash(s)
      PROVE  Life!WatchedKey'
  BY <1>2, FreshStep DEF Life!Start, Life!Crash
<1>3. ASSUME NEW s \in Server, Life!SpuriousWakeUp(s)
      PROVE  Life!WatchedKey'
  BY <1>3 DEF Life!SpuriousWakeUp, Life!WatchedKey, Life!redis
<1> QED
  BY <1>1, <1>2, <1>3, ElectionThreadStep, WorkerStep, ShutdownStep DEF Life!Next

\* While the WATCH of a server that is about to delete the key is unbroken, the key holds the
\* endpoint of that server (redis_sync_safe_ep_del).
THEOREM WatchedKeyAlways == Life!Spec => []Life!WatchedKey
<1>1. Life!Init => Life!WatchedKey
  BY DEF Life!Init, Life!WatchedKey
<1>2. Life!WatchedKey /\ [Life!Next]_(Life!vars) => Life!WatchedKey'
  BY WatchedKeyStep
<1> QED
  BY <1>1, <1>2, PTL DEF Life!Spec

\* Only DeleteKey empties the key.
LEMMA DeletingStep ==
    ASSUME NULL \notin Server,
           Life!WatchedKey, [Life!Next]_(Life!vars), key # NULL, key' = NULL
    PROVE  shutdown[key] = "exec"
<1>1. key' # key
  OBVIOUS
<1>2. ASSUME NEW s \in Server, Life!SetKey(s)
      PROVE  FALSE
  BY <1>2 DEF Life!SetKey
<1>3. ~UNCHANGED Life!vars
  BY <1>1 DEF Life!vars, Life!redis
<1>4. ASSUME NEW s \in Server, Life!Start(s) \/ Life!Crash(s) \/ Life!SpuriousWakeUp(s) \/ Life!BeginShutdown(s)
      PROVE  FALSE
  BY <1>1, <1>4 DEF Life!Start, Life!Crash, Life!Fresh, Life!SpuriousWakeUp, Life!BeginShutdown, Life!redis
<1>5. ASSUME NEW s \in Server, Life!ElectionThread(s)
      PROVE  FALSE
  BY <1>1, <1>2, <1>5 DEF Life!ElectionThread, Life!Loop, Life!Bootstrap, Life!SetIfNoKey, Life!Discover, Life!Ask, Life!GiveUp, Life!Fresh,
                          Life!BecomeCandidate, Life!CandidateEnds, Life!SetLeaderKey, Life!WaitFollower, Life!redis
<1>6. ASSUME NEW s \in Server, Life!Worker(s)
      PROVE  FALSE
  BY <1>1, <1>6 DEF Life!Worker, Life!HandleVoteReply, Life!HandleVoteRequest, Life!HandleAppendEntriesRequest,
                    Life!JoinCluster, Life!redis
<1>7. PICK s \in Server : Life!Shutdown(s)
  BY <1>3, <1>4, <1>5, <1>6 DEF Life!Next
<1>8. Life!DeleteKey(s)
  BY <1>1, <1>7 DEF Life!Shutdown, Life!WaitTimeout, Life!LockState, Life!Watch, Life!GetKey, Life!EndShutdown, Life!redis
<1>9. shutdown[s] = "exec" /\ watch[s] = "clean"
  BY <1>1, <1>8 DEF Life!DeleteKey
<1> QED
  BY <1>9 DEF Life!WatchedKey

\* rft_shutdown only ever deletes the key while it holds the endpoint of the server that
\* shuts down, however many leaders write the key meanwhile.
THEOREM KeyDeletedByOwnerAlways ==
    ASSUME NULL \notin Server
    PROVE  Life!Spec => Life!KeyDeletedByOwner
<1>1. Life!WatchedKey /\ [Life!Next]_(Life!vars) => [key # NULL /\ key' = NULL => shutdown[key] = "exec"]_(Life!vars)
  BY DeletingStep
<1> QED
  BY <1>1, WatchedKeyAlways, PTL DEF Life!Spec, Life!KeyDeletedByOwner
=============================================================================
