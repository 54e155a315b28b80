--------------------------- MODULE RaftLogProofs ---------------------------
(***************************************************************************)
(* The raft log for a ring of any size: its cells, its offsets and the     *)
(* snapshot stay aligned while the log is appended to, cut back and        *)
(* compacted, and log_ring_get finds what it should.                       *)
(***************************************************************************)
EXTENDS RaftLog, SequenceTheorems, TLAPS

\* The mask, on the sums it is used for.
LEMMA MaskSmall ==
    \A i \in 0..2*Size-1 : Mask(i) = IF i < Size THEN i ELSE i - Size
BY SizeAssumption DEF Mask

\* log_ring_count and the distance from the tail, without the mask.
LEMMA CountDistance ==
    ASSUME NEW h \in Cells, NEW t \in Cells
    PROVE  /\ Mask(h + Size - t) = IF h >= t THEN h - t ELSE h + Size - t
           /\ Mask(h + Size - t) \in Cells
           /\ Mask(h + 1) = IF h = Size - 1 THEN 0 ELSE h + 1
           /\ Mask(h + 1) \in Cells
<1> DEFINE a == h + Size - t
           b == h + 1
<1>1. a \in 0..2*Size-1 /\ b \in 0..2*Size-1
  BY SizeAssumption DEF Cells
<1>2. Mask(a) = IF a < Size THEN a ELSE a - Size
  <2> HIDE DEF a
  <2> QED BY <1>1, MaskSmall
<1>3. Mask(b) = IF b < Size THEN b ELSE b - Size
  <2> HIDE DEF b
  <2> QED BY <1>1, MaskSmall
<1> QED
  BY <1>2, <1>3, SizeAssumption DEF Cells

\* Going back by n cells.
LEMMA Back ==
    ASSUME NEW h \in Cells, NEW n \in Cells
    PROVE  /\ Mask(h + Size - n) = IF h >= n THEN h - n ELSE h + Size - n
           /\ Mask(h + Size - n) \in Cells
BY CountDistance

\* An insertion keeps the order.
LEMMA InsertRing ==
    ASSUME TypeOK, RingOrdered, ~IsFull, NEW term \in Term,
           Insert([index |-> last_log_index + 1, term |-> term]),
           last_log_index' = last_log_index + 1
    PROVE  /\ head' \in Cells /\ tail' \in Cells
           /\ data' \in [Cells -> Entry \cup {NULL}]
           /\ Count' = Count + 1
           /\ RingOrdered'
<1> DEFINE e == [index |-> last_log_index + 1, term |-> term]
<1>1. e \in Entry /\ e # NULL /\ e.index = last_log_index + 1
  <2>0. last_log_index \in Nat
    BY Zenon DEF TypeOK
  <2>1. last_log_index + 1 \in Nat
    BY <2>0
  <2>2. e \in Entry /\ e.index = last_log_index + 1
    BY <2>1, Zenon DEF Entry
  <2> QED
    BY <2>2, NullAssumption
<1>2. /\ head \in Cells /\ tail \in Cells /\ last_log_index \in Nat
      /\ data' = [data EXCEPT ![head] = e]
      /\ head' = Mask(head + 1) /\ tail' = tail
  BY Zenon DEF TypeOK, Insert
<1>3. /\ head' = IF head = Size - 1 THEN 0 ELSE head + 1
      /\ head' \in Cells /\ head' # tail
  BY <1>2, CountDistance DEF IsFull
<1>4. /\ Count = IF head >= tail THEN head - tail ELSE head + Size - tail
      /\ Count' = IF head' >= tail THEN head' - tail ELSE head' + Size - tail
  BY <1>2, <1>3, CountDistance DEF Count
<1>5. \A i \in Cells : /\ Distance(i) = IF i >= tail THEN i - tail ELSE i + Size - tail
                       /\ Distance(i)' = Distance(i)
  BY <1>2, CountDistance DEF Distance
<1>6. Count' = Count + 1
  BY <1>2, <1>3, <1>4, SizeAssumption DEF Cells
<1>7. data' \in [Cells -> Entry \cup {NULL}]
  BY Zenon, <1>1, <1>2 DEF TypeOK
<1>8. RingOrdered'
  <2>0. last_log_index' - Count' = last_log_index - Count
    BY <1>2, <1>4, <1>6, SizeAssumption DEF Cells
  <2> SUFFICES ASSUME NEW i \in Cells
               PROVE  IF Distance(i) < Count + 1
                      THEN data'[i] # NULL /\ data'[i].index = last_log_index - Count + 1 + Distance(i)
                      ELSE data'[i] = NULL
    BY <2>0, <1>5, <1>6, Zenon DEF RingOrdered, Base
  <2>1. CASE i = head
    <3>1. Distance(i) = Count
      BY <2>1, <1>4, <1>5
    <3>2. data'[i] = e
      BY Zenon, <2>1, <1>2 DEF TypeOK
    <3> QED
      BY <3>1, <3>2, <1>1, <1>2, <1>4, SizeAssumption DEF Cells
  <2>2. CASE i # head
    <3>1. Distance(i) # Count
      BY <2>2, <1>2, <1>4, <1>5, SizeAssumption DEF Cells
    <3>2. data'[i] = data[i]
      BY Zenon, <2>2, <1>2 DEF TypeOK
    <3> QED
      BY <3>1, <3>2, <1>2, <1>4, <1>5, SizeAssumption DEF RingOrdered, Base, Cells
  <2> QED
    BY <2>1, <2>2
<1> QED
  BY <1>2, <1>3, <1>6, <1>7, <1>8

\* When the tail goes one cell further, every other cell is one cell nearer to it.
LEMMA OneCellFurther ==
    ASSUME NEW i \in Cells, NEW t \in Cells, NEW u \in Cells, i # t,
           u = IF t = Size - 1 THEN 0 ELSE t + 1
    PROVE  (IF i >= u THEN i - u ELSE i + Size - u)
             = (IF i >= t THEN i - t ELSE i + Size - t) - 1
<1>1. CASE t = Size - 1
  BY <1>1, SizeAssumption DEF Cells
<1>2. CASE t # Size - 1
  BY <1>2, SizeAssumption DEF Cells
<1> QED
  BY <1>1, <1>2

\* So does an extraction of the oldest entry.
LEMMA ExtractRing ==
    ASSUME TypeOK, RingOrdered, ~IsEmpty, Extract, last_log_index' = last_log_index
    PROVE  /\ head' \in Cells /\ tail' \in Cells
           /\ data' \in [Cells -> Entry \cup {NULL}]
           /\ Count > 0 /\ Count' = Count - 1
           /\ RingOrdered'
<1>1. /\ head \in Cells /\ tail \in Cells /\ last_log_index \in Nat
      /\ data' = [data EXCEPT ![tail] = NULL]
      /\ tail' = Mask(tail + 1) /\ head' = head /\ head # tail
  BY Zenon DEF TypeOK, Extract, IsEmpty
<1>2. tail' = (IF tail = Size - 1 THEN 0 ELSE tail + 1) /\ tail' \in Cells
  BY <1>1, CountDistance
<1>3. /\ Count = IF head >= tail THEN head - tail ELSE head + Size - tail
      /\ Count' = IF head >= tail' THEN head - tail' ELSE head + Size - tail'
  BY <1>1, <1>2, CountDistance DEF Count
<1>4. \A i \in Cells : /\ Distance(i) = IF i >= tail THEN i - tail ELSE i + Size - tail
                       /\ Distance(i)' = IF i >= tail' THEN i - tail' ELSE i + Size - tail'
  BY <1>1, <1>2, CountDistance DEF Distance
<1>5. Count > 0 /\ Count' = Count - 1
  BY <1>1, <1>2, <1>3, SizeAssumption DEF Cells
<1>6. data' \in [Cells -> Entry \cup {NULL}]
  BY Zenon, <1>1 DEF TypeOK
<1>7. RingOrdered'
  <2> SUFFICES ASSUME NEW i \in Cells
               PROVE  IF Distance(i)' < Count'
                      THEN data'[i] # NULL /\ data'[i].index = last_log_index - Count' + 1 + Distance(i)'
                      ELSE data'[i] = NULL
    BY DEF RingOrdered, Base
  <2>1. CASE i = tail
    <3>1. Distance(i)' = Size - 1
      BY <2>1, <1>1, <1>2, <1>4, SizeAssumption DEF Cells
    <3>3. Count' \in Nat /\ Count' < Size - 1
      BY <1>1, <1>3, <1>5, SizeAssumption DEF Cells
    <3>2. data'[i] = NULL
      BY Zenon, <2>1, <1>1 DEF TypeOK
    <3> QED
      BY <3>1, <3>2, <3>3, SizeAssumption
  <2>2. CASE i # tail
    <3>1. Distance(i)' = Distance(i) - 1
      <4>1. (IF i >= tail' THEN i - tail' ELSE i + Size - tail')
              = (IF i >= tail THEN i - tail ELSE i + Size - tail) - 1
        BY <2>2, <1>1, <1>2, OneCellFurther
      <4>2. /\ Distance(i) = IF i >= tail THEN i - tail ELSE i + Size - tail
            /\ Distance(i)' = IF i >= tail' THEN i - tail' ELSE i + Size - tail'
        BY <1>4
      <4> QED
        BY <4>1, <4>2
    <3>2. data'[i] = data[i]
      BY Zenon, <2>2, <1>1 DEF TypeOK
    <3>3. Distance(i) \in Int /\ Count \in Int /\ Size \in Int
      BY <1>1, <1>3, <1>4, SizeAssumption DEF Cells
    <3>4. /\ (Distance(i)' < Count') <=> (Distance(i) < Count)
          /\ last_log_index - Count' + 1 + Distance(i)' = last_log_index - Count + 1 + Distance(i)
      BY <3>1, <3>3, <1>1, <1>5
    <3>5. IF Distance(i) < Count
          THEN data[i] # NULL /\ data[i].index = last_log_index - Count + 1 + Distance(i)
          ELSE data[i] = NULL
      BY DEF RingOrdered, Base
    <3> QED
      BY <3>2, <3>4, <3>5
  <2> QED
    BY <2>1, <2>2
<1> QED
  BY <1>1, <1>2, <1>5, <1>6, <1>7

\* And so does the extraction of the n newest ones, if the last index goes back by n,
\* or if they are all extracted.
LEMMA ExtractNewestRing ==
    ASSUME TypeOK, RingOrdered, NEW n \in 0..Count, ExtractNewest(n),
           last_log_index' \in Nat,
           last_log_index' = last_log_index - n \/ n = Count
    PROVE  /\ head' \in Cells /\ tail' \in Cells
           /\ data' \in [Cells -> Entry \cup {NULL}]
           /\ Count' = Count - n
           /\ RingOrdered'
<1>1. /\ head \in Cells /\ tail \in Cells /\ last_log_index \in Nat
      /\ data' = [i \in Cells |-> IF Distance(i) >= Count - n THEN NULL ELSE data[i]]
      /\ head' = Mask(head + Size - n) /\ tail' = tail
  BY Zenon DEF TypeOK, ExtractNewest
<1>2. /\ Count = IF head >= tail THEN head - tail ELSE head + Size - tail
      /\ Count \in Cells /\ n \in Cells
  <2>1. Count \in Cells
    BY <1>1, CountDistance DEF Count
  <2>2. Count = IF head >= tail THEN head - tail ELSE head + Size - tail
    BY <1>1, CountDistance DEF Count
  <2>3. n \in Cells
    BY <2>1, SizeAssumption DEF Cells
  <2> QED
    BY <2>1, <2>2, <2>3
<1>3. head' = (IF head >= n THEN head - n ELSE head + Size - n) /\ head' \in Cells
  BY <1>1, <1>2, Back
<1>4. Count' = IF head' >= tail THEN head' - tail ELSE head' + Size - tail
  BY <1>1, <1>3, CountDistance DEF Count
<1>5. \A i \in Cells : /\ Distance(i) = IF i >= tail THEN i - tail ELSE i + Size - tail
                       /\ Distance(i)' = Distance(i)
                       /\ Distance(i) \in Cells
  BY Zenon, <1>1, CountDistance DEF Distance
<1>6. Count' = Count - n
  BY <1>1, <1>2, <1>3, <1>4, SizeAssumption DEF Cells
<1>7. data' \in [Cells -> Entry \cup {NULL}]
  BY Zenon, <1>1 DEF TypeOK
<1>8. RingOrdered'
  <2> SUFFICES ASSUME NEW i \in Cells
               PROVE  IF Distance(i) < Count'
                      THEN data'[i] # NULL /\ data'[i].index = last_log_index' - Count' + 1 + Distance(i)
                      ELSE data'[i] = NULL
    BY <1>5, Zenon DEF RingOrdered, Base
  <2>1. CASE Distance(i) >= Count - n
    <3>1. data'[i] = NULL
      BY <2>1, <1>1
    <3>2. ~(Distance(i) < Count')
      BY <2>1, <1>2, <1>5, <1>6, SizeAssumption DEF Cells
    <3> QED
      BY <3>1, <3>2
  <2>2. CASE Distance(i) < Count - n
    <3>1. data'[i] = data[i]
      <4>1. Distance(i) \in Int /\ Count - n \in Int
        BY <1>2, <1>5, SizeAssumption DEF Cells
      <4>2. ~(Distance(i) >= Count - n)
        BY <4>1, <2>2
      <4> QED
        BY <4>2, <1>1
    <3>2. n # Count
      BY <2>2, <1>2, <1>5 DEF Cells
    <3>3. last_log_index' - Count' = last_log_index - Count
      <4>1. last_log_index' = last_log_index - n /\ last_log_index \in Nat
        BY <3>2, <1>1
      <4>2. Count \in Nat /\ n \in Nat
        BY <1>2, SizeAssumption DEF Cells
      <4> QED
        BY <4>1, <4>2, <1>6
    <3>4. Distance(i) < Count
      BY <2>2, <1>2, <1>5 DEF Cells
    <3>5. data[i] # NULL /\ data[i].index = last_log_index - Count + 1 + Distance(i)
      BY <3>4 DEF RingOrdered, Base
    <3> QED
      BY <2>2, <3>1, <3>3, <3>5, <1>6
  <2> QED
    BY <2>1, <2>2, <1>2, <1>5 DEF Cells
<1> QED
  BY <1>1, <1>3, <1>6, <1>7, <1>8

\* log_ring_get, in an ordered ring.
LEMMA GetEntry ==
    ASSUME TypeOK, RingOrdered, NEW i \in Nat
    PROVE  IF Base < i /\ i <= last_log_index
           THEN Get(i) # NULL /\ Get(i).index = i
           ELSE Get(i) = NULL
<1> DEFINE p == Mask(head + Size - 1)
           first == data[tail]
           last == data[p]
<1>0. head \in Cells /\ tail \in Cells /\ last_log_index \in Nat
  BY Zenon DEF TypeOK
<1>1. /\ head \in Cells /\ tail \in Cells /\ last_log_index \in Nat
      /\ 1 \in Cells /\ Size \in Nat
  BY <1>0, SizeAssumption DEF Cells
<1>2. /\ Count = IF head >= tail THEN head - tail ELSE head + Size - tail
      /\ Count \in Cells
  BY <1>1, CountDistance DEF Count
<1>3. p = (IF head >= 1 THEN head - 1 ELSE head + Size - 1) /\ p \in Cells
  BY <1>1, Back
<1>4. \A j \in Cells : /\ Distance(j) = IF j >= tail THEN j - tail ELSE j + Size - tail
                       /\ Distance(j) \in Cells
  BY Zenon, <1>1, CountDistance DEF Distance
<1>5. CASE Count = 0
  <2>1. first = NULL
    <3>1. ~(Distance(tail) < Count)
      BY <1>1, <1>4, <1>5 DEF Cells
    <3> QED
      BY <3>1, <1>1 DEF RingOrdered
  <2>2. Get(i) = NULL
    BY <2>1 DEF Get
  <2> QED
    BY <1>5, <2>2, <1>1 DEF Base
<1>6. CASE Count # 0
  <2>1. Distance(tail) = 0 /\ Distance(p) = Count - 1
    BY <1>1, <1>2, <1>3, <1>4, <1>6, SizeAssumption DEF Cells
  <2>2. /\ first # NULL /\ first.index = last_log_index - Count + 1
        /\ last # NULL /\ last.index = last_log_index
    <3>1. 0 < Count /\ Count - 1 < Count
      BY <1>2, <1>6 DEF Cells
    <3>2. /\ first # NULL /\ first.index = Base + 1 + 0
          /\ last # NULL /\ last.index = Base + 1 + (Count - 1)
      BY <2>1, <3>1, <1>1, <1>3 DEF RingOrdered
    <3> QED
      BY <3>2, <1>1, <1>2 DEF Base, Cells
  <2>3. CASE Base < i /\ i <= last_log_index
    <3> DEFINE d == i - first.index
               a == tail + d
               q == Mask(a)
    <3>1. d \in 0..Count-1
      BY <2>2, <2>3, <1>1, <1>2 DEF Base, Cells
    <3>2. /\ q = IF a < Size THEN a ELSE a - Size
          /\ a = tail + d
      <4>1. a \in 0..2*Size-1 /\ a = tail + d
        <5> HIDE DEF d
        <5> QED BY <3>1, <1>1, <1>2 DEF Cells
      <4> HIDE DEF a
      <4> QED
        BY <4>1, MaskSmall
    <3>3. q \in Cells /\ Distance(q) = d
      <4> HIDE DEF d, a, q
      <4>1. q \in Cells
        BY <3>1, <3>2, <1>1, <1>2 DEF Cells
      <4>2. Distance(q) = IF q >= tail THEN q - tail ELSE q + Size - tail
        BY <4>1, <1>4
      <4> QED
        BY <4>1, <4>2, <3>1, <3>2, <1>1, <1>2 DEF Cells
    <3>4. Distance(q) < Count
      BY <3>1, <3>3, <1>2 DEF Cells
    <3>5. data[q] # NULL /\ data[q].index = last_log_index - Count + 1 + d
      BY <3>3, <3>4 DEF RingOrdered, Base
    <3>6. Get(i) = data[q]
      BY <2>2, <2>3, <1>1, <1>2 DEF Get, Base, Cells
    <3> QED
      BY <3>5, <3>6, <2>2, <2>3, <1>1, <1>2 DEF Cells
  <2>4. CASE ~(Base < i /\ i <= last_log_index)
    <3>1. ~(first.index <= i /\ i <= last.index)
      BY <2>2, <2>4, <1>1, <1>2 DEF Base, Cells
    <3>2. Get(i) = NULL
      BY <3>1 DEF Get
    <3> QED
      BY <2>4, <3>2
  <2> QED
    BY <2>3, <2>4
<1> QED
  BY <1>5, <1>6

-----------------------------------------------------------------------------
\* The invariant that is inductive: the offsets, the ring, and where the snapshot ends.
IInv == Inv /\ SnapshotMeetsLog /\ CompactionFinds

\* The empty log of init_log satisfies it.
LEMMA InitIInv == Init => IInv
<1> SUFFICES ASSUME Init PROVE IInv
  OBVIOUS
<1>1. 0 \in Cells /\ Size \in Nat
  BY SizeAssumption DEF Cells
<1>2. Count = 0
  BY <1>1, CountDistance DEF Init, Count
<1>3. \A i \in Cells : Distance(i) \in Cells
  BY Zenon, <1>1, CountDistance DEF Init, Distance
<1>4. TypeOK
  BY <1>1 DEF Init, TypeOK
<1>5. RingOrdered
  BY <1>2, <1>3, SizeAssumption DEF Init, RingOrdered, Cells
<1>6. Base = 0
  BY <1>2 DEF Init, Base
<1> QED
  BY <1>4, <1>5, <1>6 DEF Init, IInv, Inv, CompactionAligned, SnapshotMeetsLog, CompactionFinds

\* The ring is left alone.
LEMMA SameRing ==
    ASSUME TypeOK, RingOrdered, UNCHANGED <<ring_vars, last_log_index>>
    PROVE  RingOrdered' /\ Count' = Count /\ Base' = Base
BY DEF RingOrdered, Count, Base, Distance, ring_vars

\* Count and Base are numbers.
LEMMA BaseInt ==
    ASSUME TypeOK
    PROVE  Count \in Nat /\ Base \in Int /\ Base = last_log_index - Count
<1>1. head \in Cells /\ tail \in Cells /\ last_log_index \in Nat
  BY Zenon DEF TypeOK
<1>2. Count \in Cells
  BY <1>1, CountDistance DEF Count
<1>3. Count \in Nat
  BY <1>2, SizeAssumption DEF Cells
<1> QED
  BY <1>1, <1>3 DEF Base

\* append_raft_log_entry preserves it, whether a snapshot is taken or the ring is full.
LEMMA AppendIInv ==
    ASSUME IInv, NEW term \in Term, AppendEntry(term)
    PROVE  IInv'
<1>1. TypeOK /\ RingOrdered /\ CompactionAligned /\ SnapshotMeetsLog /\ CompactionFinds
  BY DEF IInv, Inv
<1>2. Count \in Nat /\ Base \in Int /\ Base = last_log_index - Count
  BY <1>1, BaseInt
<1>3. /\ UNCHANGED <<index_offset, last_applied, snapshot_index, count>>
      /\ \/ snapshot = "none" /\ snapshot' = "taking" /\ taken' = last_applied
         \/ UNCHANGED <<snapshot, taken>>
  BY DEF AppendEntry, TakeSnapshot
<1>4. /\ head' \in Cells /\ tail' \in Cells /\ data' \in [Cells -> Entry \cup {NULL}]
      /\ RingOrdered' /\ Base' = Base
      /\ last_log_index' \in {last_log_index, last_log_index + 1}
      /\ worker' \in {worker, "full"}
  <2>1. CASE IsFull
    <3>1. UNCHANGED <<ring_vars, last_log_index>> /\ worker' = "full"
      BY <2>1 DEF AppendEntry, TakeSnapshot
    <3>2. RingOrdered' /\ Base' = Base
      BY <3>1, <1>1, SameRing
    <3> QED
      BY Zenon, <3>1, <3>2, <1>1 DEF TypeOK, ring_vars
  <2>2. CASE ~IsFull
    <3>1. /\ Insert([index |-> last_log_index + 1, term |-> term])
          /\ last_log_index' = last_log_index + 1
          /\ worker' = worker
      BY <2>2 DEF AppendEntry, TakeSnapshot
    <3>2. /\ head' \in Cells /\ tail' \in Cells /\ data' \in [Cells -> Entry \cup {NULL}]
          /\ RingOrdered' /\ Count' = Count + 1
      BY <2>2, <3>1, <1>1, InsertRing
    <3>3. last_log_index \in Nat
      BY Zenon, <1>1 DEF TypeOK
    <3>4. Base' = Base
      BY <3>1, <3>2, <3>3, <1>2 DEF Base
    <3> QED
      BY <3>1, <3>2, <3>4
  <2> QED
    BY <2>1, <2>2
<1>5. last_log_index \in Nat /\ last_log_index' \in Nat /\ last_applied \in Nat
  <2>1. last_log_index \in Nat /\ last_applied \in Nat
    BY Zenon, <1>1 DEF TypeOK
  <2> QED
    BY <2>1, <1>4
<1>6. TypeOK'
  BY Zenon, <1>1, <1>3, <1>4, <1>5 DEF TypeOK
<1>7. CompactionAligned'
  BY <1>1, <1>2, <1>3, <1>4, <1>5 DEF CompactionAligned
<1>8. SnapshotMeetsLog' /\ CompactionFinds'
  BY Zenon, <1>1, <1>3, <1>4 DEF SnapshotMeetsLog, CompactionFinds
<1> QED
  BY <1>4, <1>6, <1>7, <1>8 DEF IInv, Inv

\* What check_raft_log_consistency keeps ends between last_applied and the last index.
LEMMA KeptRange ==
    ASSUME IInv, NEW i \in Nat, NEW term
    PROVE  KeptIndex(i, term) \in last_applied..last_log_index
<1>1. TypeOK /\ RingOrdered /\ CompactionAligned
  BY DEF IInv, Inv
<1>2. last_log_index \in Nat /\ last_applied \in Nat /\ last_applied <= last_log_index
  BY Zenon, <1>1 DEF TypeOK, CompactionAligned
<1>3. Get(i) # NULL => i <= last_log_index
  BY <1>1, GetEntry
<1> QED
  BY <1>2, <1>3 DEF KeptIndex

\* check_raft_log_consistency preserves it: what it removes was not applied.
LEMMA CheckIInv ==
    ASSUME IInv, NEW i \in Nat, NEW term \in Term, CheckConsistency(i, term)
    PROVE  IInv'
<1>1. TypeOK /\ RingOrdered /\ CompactionAligned /\ SnapshotMeetsLog /\ CompactionFinds
  BY DEF IInv, Inv
<1>2. Count \in Nat /\ Base \in Int /\ Base = last_log_index - Count
  BY <1>1, BaseInt
<1>3. last_log_index \in Nat /\ last_applied \in Nat
  BY Zenon, <1>1 DEF TypeOK
<1>4. PICK kept \in last_applied..last_log_index :
         ExtractNewest(last_log_index - kept) /\ last_log_index' = kept
  <2>1. KeptIndex(i, term) \in last_applied..last_log_index
    BY KeptRange
  <2>2. last_log_index \in last_applied..last_log_index
    BY <1>1, <1>3 DEF CompactionAligned
  <2> QED
    BY <2>1, <2>2 DEF CheckConsistency
<1>5. /\ UNCHANGED <<index_offset, last_applied, snapshot_vars>>
      /\ worker' \in {"idle", "waiting"}
  BY DEF CheckConsistency
<1> DEFINE n == last_log_index - kept
<1>6. /\ n \in 0..Count /\ last_log_index' = last_log_index - n
      /\ last_log_index' \in Nat /\ last_applied <= last_log_index'
  BY <1>1, <1>2, <1>3, <1>4 DEF CompactionAligned
<1>7. /\ head' \in Cells /\ tail' \in Cells /\ data' \in [Cells -> Entry \cup {NULL}]
      /\ RingOrdered' /\ Count' = Count - n
  <2>1. ExtractNewest(n)
    BY <1>4
  <2> HIDE DEF n
  <2> QED
    BY <2>1, <1>1, <1>6, ExtractNewestRing
<1>8. Base' = Base
  <2> HIDE DEF n
  <2>1. n \in Int
    BY <1>6, <1>2
  <2> QED
    BY <2>1, <1>2, <1>3, <1>6, <1>7 DEF Base
<1>9. TypeOK'
  BY Zenon, <1>1, <1>5, <1>6, <1>7 DEF TypeOK, snapshot_vars
<1>10. CompactionAligned'
  BY <1>1, <1>2, <1>3, <1>5, <1>6, <1>8 DEF CompactionAligned, snapshot_vars
<1>11. SnapshotMeetsLog' /\ CompactionFinds'
  BY Zenon, <1>1, <1>5, <1>8 DEF SnapshotMeetsLog, CompactionFinds, snapshot_vars
<1> QED
  BY <1>7, <1>9, <1>10, <1>11 DEF IInv, Inv

\* One step of compact_raft_log preserves it, and finds an entry.
LEMMA CompactIInv ==
    ASSUME IInv, CompactEntry
    PROVE  IInv'
<1>1. TypeOK /\ RingOrdered /\ CompactionAligned /\ SnapshotMeetsLog /\ CompactionFinds
  BY DEF IInv, Inv
<1>2. Count \in Nat /\ Base \in Int /\ Base = last_log_index - Count
  BY <1>1, BaseInt
<1>3. /\ last_log_index \in Nat /\ last_applied \in Nat /\ count \in Nat /\ taken \in Nat
      /\ count > 0 /\ snapshot = "compacting"
  BY Zenon, <1>1 DEF TypeOK, CompactEntry
<1>4. ~IsEmpty
  <2>1. Base + count <= last_log_index
    BY <1>1, <1>2, <1>3 DEF CompactionAligned
  <2>2. Count # 0
    BY <2>1, <1>2, <1>3
  <2>3. head \in Cells /\ tail \in Cells
    BY Zenon, <1>1 DEF TypeOK
  <2>4. Count = IF head >= tail THEN head - tail ELSE head + Size - tail
    BY <2>3, CountDistance DEF Count
  <2> QED
    BY <2>2, <2>3, <2>4 DEF IsEmpty, Cells
<1>5. /\ Extract /\ count' = count - 1
      /\ UNCHANGED <<worker, last_log_index, index_offset, last_applied, snapshot_index,
                     snapshot, taken>>
  BY <1>4 DEF CompactEntry
<1>6. /\ head' \in Cells /\ tail' \in Cells /\ data' \in [Cells -> Entry \cup {NULL}]
      /\ RingOrdered' /\ Count > 0 /\ Count' = Count - 1
  BY <1>1, <1>4, <1>5, ExtractRing
<1>7. Base' = Base + 1 /\ count' \in Nat
  BY <1>2, <1>3, <1>5, <1>6 DEF Base
<1>8. TypeOK'
  BY Zenon, <1>1, <1>5, <1>6, <1>7 DEF TypeOK
<1>9. CompactionAligned'
  BY <1>1, <1>2, <1>3, <1>5, <1>7 DEF CompactionAligned
<1>10. SnapshotMeetsLog' /\ CompactionFinds'
  <2>1. snapshot_index = Base + count
    BY <1>1, <1>3 DEF SnapshotMeetsLog
  <2>2. snapshot_index' = Base' + count'
    BY <2>1, <1>2, <1>3, <1>5, <1>7
  <2> QED
    BY Zenon, <2>2, <1>1, <1>3, <1>5 DEF SnapshotMeetsLog, CompactionFinds
<1> QED
  BY <1>6, <1>8, <1>9, <1>10 DEF IInv, Inv

\* install_raft_snapshot preserves it, as no snapshot is in progress.
LEMMA InstallIInv ==
    ASSUME IInv, NEW i \in Nat, InstallSnapshot(i)
    PROVE  IInv'
<1>1. TypeOK /\ RingOrdered /\ CompactionFinds
  BY DEF IInv, Inv
<1>2. Count \in Nat
  BY <1>1, BaseInt
<1>3. /\ ExtractNewest(Count) /\ index_offset' = i /\ last_log_index' = i
      /\ last_applied' = i /\ snapshot_index' = i /\ snapshot = "none"
      /\ UNCHANGED <<snapshot, taken, count, worker>>
  BY DEF InstallSnapshot
<1>4. /\ head' \in Cells /\ tail' \in Cells /\ data' \in [Cells -> Entry \cup {NULL}]
      /\ RingOrdered' /\ Count' = Count - Count
  <2> DEFINE n == Count
  <2>1. n \in 0..Count /\ n = Count /\ ExtractNewest(n)
    BY <1>2, <1>3
  <2> HIDE DEF n
  <2>2. Count' = Count - n
    BY <2>1, <1>1, <1>3, ExtractNewestRing
  <2> QED
    BY <2>1, <2>2, <1>1, <1>3, ExtractNewestRing
<1>5. Base' = i
  BY <1>2, <1>3, <1>4 DEF Base
<1>6. TypeOK'
  BY Zenon, <1>1, <1>3, <1>4 DEF TypeOK
<1>7. CompactionAligned' /\ SnapshotMeetsLog' /\ CompactionFinds'
  <2>1. snapshot' = "none" /\ i <= i /\ i + 0 = i
    BY <1>3
  <2>2. CompactionAligned'
    BY <2>1, <1>3, <1>5 DEF CompactionAligned
  <2>3. SnapshotMeetsLog'
    BY <2>1, <1>3, <1>5 DEF SnapshotMeetsLog
  <2>4. CompactionFinds'
    BY Zenon, <1>1, <1>3 DEF CompactionFinds
  <2> QED
    BY <2>2, <2>3, <2>4
<1> QED
  BY <1>4, <1>6, <1>7 DEF IInv, Inv

\* The steps that leave the ring alone.
LEMMA OtherIInv ==
    ASSUME IInv,
           \/ \E i \in last_applied+1..last_log_index : Commit(i)
           \/ ReadSnapshot
           \/ StartCompaction
           \/ SnapshotFails
           \/ EndCompaction
           \/ UNCHANGED vars
    PROVE  IInv'
<1>1. TypeOK /\ RingOrdered /\ CompactionAligned /\ SnapshotMeetsLog /\ CompactionFinds
  BY DEF IInv, Inv
<1>2. UNCHANGED <<ring_vars, last_log_index>>
  BY DEF Commit, ReadSnapshot, StartCompaction, SnapshotFails, EndCompaction, vars
<1>3. RingOrdered' /\ Base' = Base
  BY <1>1, <1>2, SameRing
<1>4. Base \in Int /\ Base = last_log_index - Count /\ Count \in Nat
  BY <1>1, BaseInt
<1>5. /\ last_log_index \in Nat /\ last_applied \in Nat /\ index_offset \in Nat
      /\ snapshot_index \in Nat /\ taken \in Nat /\ count \in Nat
  BY Zenon, <1>1 DEF TypeOK
<1>6. TypeOK' /\ CompactionAligned' /\ SnapshotMeetsLog' /\ CompactionFinds'
  <2>1. CASE \E i \in last_applied+1..last_log_index : Commit(i)
    <3>1. /\ last_applied' \in last_applied+1..last_log_index
          /\ UNCHANGED <<index_offset, snapshot_vars, worker>>
      BY <2>1 DEF Commit
    <3>2. last_applied' \in Nat /\ last_applied < last_applied' /\ last_applied' <= last_log_index
      BY <3>1, <1>5
    <3>3. TypeOK'
      BY Zenon, <3>1, <3>2, <1>1, <1>2 DEF TypeOK, ring_vars, snapshot_vars
    <3>4. CompactionAligned'
      BY <3>1, <3>2, <1>1, <1>2, <1>3, <1>4, <1>5 DEF CompactionAligned, snapshot_vars
    <3> QED
      BY Zenon, <3>1, <3>3, <3>4, <1>1, <1>3 DEF SnapshotMeetsLog, CompactionFinds, snapshot_vars
  <2>2. CASE ReadSnapshot
    BY <2>2, <1>1, <1>2, <1>3 DEF ReadSnapshot, TypeOK, CompactionAligned, SnapshotMeetsLog,
                                  CompactionFinds, ring_vars, snapshot_vars
  <2>3. CASE StartCompaction
    <3>1. /\ snapshot = "taking" /\ snapshot' = "compacting" /\ snapshot_index' = taken
          /\ count' = taken - index_offset
          /\ UNCHANGED <<index_offset, last_applied, taken, worker>>
      BY <2>3 DEF StartCompaction
    <3>2. /\ Base = index_offset /\ index_offset <= taken /\ taken <= last_applied
          /\ last_applied <= last_log_index
      BY <3>1, <1>1 DEF CompactionAligned
    <3>3. count' \in Nat /\ Base + count' = taken
      BY <3>1, <3>2, <1>5
    <3>4. TypeOK'
      BY Zenon, <3>1, <3>3, <1>1, <1>2 DEF TypeOK, ring_vars
    <3>5. CompactionAligned'
      BY <3>1, <3>2, <3>3, <1>1, <1>2, <1>3, <1>5 DEF CompactionAligned
    <3> QED
      BY Zenon, <3>1, <3>3, <3>4, <3>5, <1>1, <1>3 DEF SnapshotMeetsLog, CompactionFinds
  <2>4. CASE SnapshotFails
    BY Zenon, <2>4, <1>1, <1>2, <1>3 DEF SnapshotFails, TypeOK, CompactionAligned, SnapshotMeetsLog,
                                  CompactionFinds, ring_vars
  <2>5. CASE EndCompaction
    <3>1. /\ snapshot = "compacting" /\ snapshot' = "none" /\ count = 0 /\ index_offset' = taken
          /\ UNCHANGED <<last_applied, snapshot_index, taken, count, worker>>
      BY <2>5 DEF EndCompaction
    <3>2. Base = taken /\ snapshot_index = Base
      BY <3>1, <1>1, <1>4 DEF CompactionAligned, SnapshotMeetsLog
    <3>3. TypeOK'
      BY Zenon, <3>1, <1>1, <1>2 DEF TypeOK, ring_vars
    <3>4. CompactionAligned'
      BY <3>1, <3>2, <1>1, <1>2, <1>3, <1>5 DEF CompactionAligned
    <3> QED
      BY Zenon, <3>1, <3>2, <3>3, <3>4, <1>1, <1>3, <1>4 DEF SnapshotMeetsLog, CompactionFinds
  <2>6. CASE UNCHANGED vars
    BY Zenon, <2>6, <1>1, <1>2, <1>3 DEF vars, TypeOK, CompactionAligned, SnapshotMeetsLog,
                                  CompactionFinds, ring_vars, snapshot_vars
  <2> QED
    BY <2>1, <2>2, <2>3, <2>4, <2>5, <2>6
<1> QED
  BY <1>3, <1>6 DEF IInv, Inv

\* Every step of the worker and of the compaction thread preserves it.
LEMMA NextIInv == IInv /\ [Next]_vars => IInv'
<1> SUFFICES ASSUME IInv, [Next]_vars PROVE IInv'
  OBVIOUS
<1>1. \A i \in 0..MaxIndex : i \in Nat
  BY MaxIndexAssumption
<1>2. CASE \E term \in Term : AppendEntry(term)
  BY <1>2, AppendIInv
<1>3. CASE \E i \in 0..MaxIndex, term \in Term : CheckConsistency(i, term)
  BY <1>1, <1>3, CheckIInv
<1>4. CASE CompactEntry
  BY <1>4, CompactIInv
<1>5. CASE \E i \in 0..MaxIndex : InstallSnapshot(i)
  BY <1>1, <1>5, InstallIInv
<1> QED
  BY <1>2, <1>3, <1>4, <1>5, OtherIInv DEF Next

\* The ring stays in order and its offsets aligned with the compaction, for a ring of
\* any size.
THEOREM Invariance == Spec => []Inv
<1>1. IInv => Inv
  BY DEF IInv
<1> QED
  BY <1>1, InitIInv, NextIInv, PTL DEF Spec

\* log_ring_get finds the entry of every index the log holds, and no other.
THEOREM Finds == Spec => []GetFinds
<1>1. Inv => GetFinds
  <2>1. \A i \in 0..MaxIndex+1 : i \in Nat
    BY MaxIndexAssumption
  <2> QED
    BY <2>1, GetEntry DEF Inv, GetFinds
<1> QED
  BY <1>1, Invariance, PTL

\* compact_raft_log always finds the entries it has counted.
THEOREM Compaction == Spec => []CompactionFinds
<1>1. IInv => CompactionFinds
  BY DEF IInv
<1> QED
  BY <1>1, InitIInv, NextIInv, PTL DEF Spec

\* The snapshot and the log leave no gap and, once compaction is over, do not overlap.
THEOREM Snapshot == Spec => []SnapshotMeetsLog
<1>1. IInv => SnapshotMeetsLog
  BY DEF IInv
<1> QED
  BY <1>1, InitIInv, NextIInv, PTL DEF Spec

-----------------------------------------------------------------------------
\* The cell k further than the tail.
LEMMA CellAt ==
    ASSUME NEW t \in Cells, NEW k \in Cells
    PROVE  /\ Mask(t + k) \in Cells
           /\ Mask(t + k) = IF t + k < Size THEN t + k ELSE t + k - Size
           /\ Mask(Mask(t + k) + Size - t) = k
<1> DEFINE a == t + k
           i == Mask(a)
<1>1. a \in 0..2*Size-1
  BY SizeAssumption DEF Cells
<1>2. i = IF a < Size THEN a ELSE a - Size
  <2> HIDE DEF a
  <2> QED BY <1>1, MaskSmall
<1> HIDE DEF i
<1>3. i \in Cells
  BY <1>2, SizeAssumption DEF Cells
<1>4. Mask(i + Size - t) = IF i >= t THEN i - t ELSE i + Size - t
  BY <1>3, CountDistance
<1>5. Mask(i + Size - t) = k
  BY <1>2, <1>3, <1>4, SizeAssumption DEF Cells
<1>6. i = Mask(t + k) /\ a = t + k
  BY DEF i
<1> QED
  BY <1>2, <1>3, <1>5, <1>6, SizeAssumption DEF Cells

\* The sequence of entries, read off the ring.
IsLog ==
    /\ Count \in Cells /\ Base \in Int
    /\ Entries \in Seq(Entry) /\ Len(Entries) = Count
    /\ \A k \in 1..Count : Entries[k] = data[Mask(tail + k - 1)]

LEMMA EntriesSeq == IInv => IsLog
<1> SUFFICES ASSUME IInv PROVE IsLog
  OBVIOUS
<1>1. TypeOK /\ RingOrdered
  BY DEF IInv, Inv
<1>2. head \in Cells /\ tail \in Cells /\ data \in [Cells -> Entry \cup {NULL}]
  BY Zenon, <1>1 DEF TypeOK
<1>3. Count \in Cells /\ Base \in Int
  BY <1>1, <1>2, CountDistance, BaseInt DEF Count
<1>4. ASSUME NEW k \in 1..Count PROVE data[Mask(tail + k - 1)] \in Entry
  <2> DEFINE j == k - 1
  <2>1. j \in Cells /\ j < Count /\ tail + k - 1 = tail + j
    BY <1>2, <1>3, SizeAssumption DEF Cells
  <2> HIDE DEF j
  <2>2. Mask(tail + j) \in Cells /\ Distance(Mask(tail + j)) = j
    BY <2>1, <1>2, CellAt DEF Distance
  <2>3. data[Mask(tail + j)] # NULL
    BY <2>1, <2>2, <1>1 DEF RingOrdered
  <2> QED BY <2>1, <2>2, <2>3, <1>2
<1>5. Entries \in [1..Count -> Entry]
  BY <1>4 DEF Entries
<1>6. Entries \in Seq(Entry) /\ Len(Entries) = Count
  BY <1>3, <1>5, SizeAssumption, SeqDef DEF Cells
<1> QED
  BY Zenon, <1>3, <1>6 DEF Entries, IsLog

LEMMA EntriesSeqNext == IInv' => IsLog'
BY EntriesSeq, PTL

\* Where the tail does not move, an entry of the log changes only if its cell does.
LEMMA SameCell ==
    ASSUME IInv, tail' = tail, NEW k \in 1..Count, k \in 1..Count',
           IInv', \A i \in Cells : Distance(i) = k - 1 => data'[i] = data[i]
    PROVE  Entries'[k] = Entries[k]
<1>1. tail \in Cells /\ Count \in Cells /\ IsLog /\ IsLog'
  BY Zenon, EntriesSeq, EntriesSeqNext DEF IInv, Inv, TypeOK, IsLog
<1> DEFINE j == k - 1
<1>2. j \in Cells /\ tail + k - 1 = tail + j
  BY <1>1, SizeAssumption DEF Cells
<1>3. Mask(tail + j) \in Cells /\ Distance(Mask(tail + j)) = j
  <2> HIDE DEF j
  <2> QED BY <1>1, <1>2, CellAt DEF Distance
<1>4. data'[Mask(tail + j)] = data[Mask(tail + j)]
  BY <1>3
<1> QED
  BY <1>1, <1>2, <1>4 DEF IsLog, Mask

\* An insertion appends an entry to the sequence.
LEMMA InsertLog ==
    ASSUME IInv, IInv', NEW term \in Term, ~IsFull,
           Insert([index |-> last_log_index + 1, term |-> term]),
           last_log_index' = last_log_index + 1
    PROVE  Log!AppendEntry(term)
<1> DEFINE e == [index |-> last_log_index + 1, term |-> term]
           s == Append(Entries, e)
<1>1. TypeOK /\ RingOrdered /\ IsLog /\ IsLog'
  BY EntriesSeq, EntriesSeqNext DEF IInv, Inv
<1>2. /\ Count' = Count + 1 /\ Count \in Cells /\ Count' \in Cells
      /\ head \in Cells /\ tail \in Cells /\ last_log_index \in Nat
      /\ data \in [Cells -> Entry \cup {NULL}]
  BY Zenon, <1>1, InsertRing DEF IsLog, TypeOK
<1>3. data' = [data EXCEPT ![head] = e] /\ tail' = tail
  BY DEF Insert
<1>4. e \in Entry
  <2>1. last_log_index + 1 \in Nat
    BY <1>2
  <2> QED BY Zenon, <2>1 DEF Entry
<1>5. /\ s \in Seq(Entry) /\ Len(s) = Count + 1
      /\ \A k \in 1..Count : s[k] = Entries[k]
      /\ s[Count + 1] = e
  <2> HIDE DEF e
  <2> QED BY <1>1, <1>4, AppendProperties DEF IsLog
<1>6. /\ Distance(head) = Count
      /\ \A i \in Cells : Distance(i) = Count => i = head
  <2>1. \A i \in Cells : Distance(i) = IF i >= tail THEN i - tail ELSE i + Size - tail
    BY <1>2, CountDistance DEF Distance
  <2>2. Count = Distance(head)
    BY DEF Count, Distance
  <2>3. ASSUME NEW i \in Cells, Distance(i) = Distance(head) PROVE i = head
    BY <2>1, <2>3, <1>2, SizeAssumption DEF Cells
  <2> QED BY <2>2, <2>3
<1>7. ASSUME NEW k \in 1..Count + 1 PROVE Entries'[k] = s[k]
  <2>1. CASE k \in 1..Count
    <3>1. \A i \in Cells : Distance(i) = k - 1 => i # head
      BY <2>1, <1>2, <1>6 DEF Cells
    <3>2. \A i \in Cells : Distance(i) = k - 1 => data'[i] = data[i]
      BY <3>1, <1>2, <1>3
    <3>3. Entries'[k] = Entries[k]
      BY <2>1, <3>2, <1>2, <1>3, SameCell
    <3> QED BY <2>1, <3>3, <1>5
  <2>2. CASE k \notin 1..Count
    <3>1. k = Count + 1 /\ tail + k - 1 = tail + Count
      BY <2>2, <1>2 DEF Cells
    <3>2. Mask(tail + Count) = head
      BY Zenon, <1>2, <1>6, CellAt DEF Distance
    <3>3. Entries'[k] = data'[Mask(tail' + k - 1)]
      BY <1>1, <1>2 DEF IsLog
    <3>4. data'[head] = e
      BY <1>2, <1>3
    <3> QED BY <3>1, <3>2, <3>3, <3>4, <1>3, <1>5
  <2> QED BY Zenon, <2>1, <2>2
<1>8. Entries' = s
  <2> HIDE DEF s
  <2>1. Entries' \in Seq(Entry) /\ Len(Entries') = Count + 1
    BY <1>1, <1>2 DEF IsLog
  <2> QED BY <2>1, <1>5, <1>7, SeqEqual
<1>9. Len(Entries) < Size - 1 /\ Base' = Base /\ last_log_index + 1 = Base + Len(Entries) + 1
  BY <1>1, <1>2, SizeAssumption DEF IsLog, Base, Cells
<1> QED
  BY <1>8, <1>9 DEF Log!AppendEntry

\* An extraction of the newest entries cuts the sequence.
LEMMA ExtractNewestLog ==
    ASSUME IInv, IInv', NEW n \in 0..Count, ExtractNewest(n), Count' = Count - n, Base' = Base
    PROVE  Log!RemoveAfter(Count - n) /\ Count - n \in 0..Len(Entries)
<1> DEFINE s == SubSeq(Entries, 1, Count - n)
<1>1. /\ IsLog /\ IsLog' /\ Count \in Cells /\ Count - n \in 0..Count
      /\ tail \in Cells
  <2>1. IsLog /\ IsLog' /\ Count \in Cells
    BY EntriesSeq, EntriesSeqNext DEF IsLog
  <2>2. tail \in Cells
    BY Zenon DEF IInv, Inv, TypeOK
  <2> QED BY <2>1, <2>2, SizeAssumption DEF Cells
<1>2. /\ data' = [i \in Cells |-> IF Distance(i) >= Count - n THEN NULL ELSE data[i]]
      /\ tail' = tail
  BY DEF ExtractNewest
<1> DEFINE c == Count - n
<1>3. /\ s \in Seq(Entry) /\ Len(s) = c
      /\ \A k \in 1..c : s[k] = Entries[k]
  <2>1. \A k \in 1..c : Entries[k] \in Entry
    BY <1>1, LenProperties DEF IsLog
  <2>2. c \in Int /\ 1 \in Int /\ c >= 0
    BY <1>1 DEF Cells
  <2>3. s = SubSeq(Entries, 1, c)
    OBVIOUS
  <2> HIDE DEF c, s
  <2>4. /\ s \in Seq(Entry) /\ Len(s) = (IF 1 <= c THEN c - 1 + 1 ELSE 0)
        /\ \A k \in 1..c - 1 + 1 : s[k] = Entries[1 + k - 1]
    BY <2>1, <2>2, <2>3, SubSeqProperties
  <2>5. Len(s) = c
    BY <2>2, <2>4
  <2>6. ASSUME NEW k \in 1..c PROVE s[k] = Entries[k]
    <3>1. k \in 1..c - 1 + 1 /\ 1 + k - 1 = k
      BY <2>2
    <3> QED BY <3>1, <2>4
  <2> QED BY <2>4, <2>5, <2>6
<1>4. ASSUME NEW k \in 1..c PROVE Entries'[k] = Entries[k]
  <2>1. k \in 1..Count /\ k \in 1..Count'
    BY <1>1 DEF Cells
  <2>2. ASSUME NEW i \in Cells, Distance(i) = k - 1 PROVE data'[i] = data[i]
    <3>1. ~(Distance(i) >= Count - n)
      BY <2>2, <1>1 DEF Cells
    <3> QED BY <3>1, <1>2
  <2> QED BY <2>1, <2>2, <1>2, SameCell
<1>5. Entries' = s
  <2>1. Entries' \in Seq(Entry) /\ Len(Entries') = c
    BY <1>1 DEF IsLog
  <2> HIDE DEF s, c
  <2> QED BY <2>1, <1>3, <1>4, SeqEqual
<1> QED
  BY <1>1, <1>5 DEF Log!RemoveAfter, IsLog

\* The extraction of the oldest one removes the first.
LEMMA ExtractLog ==
    ASSUME IInv, IInv', Extract, Count > 0, Count' = Count - 1, Base' = Base + 1
    PROVE  Log!RemoveFirst
<1> DEFINE s == Tail(Entries)
<1>1. /\ IsLog /\ IsLog' /\ Count \in Cells /\ tail \in Cells
      /\ data \in [Cells -> Entry \cup {NULL}]
  BY Zenon, EntriesSeq, EntriesSeqNext DEF IsLog, IInv, Inv, TypeOK
<1>2. data' = [data EXCEPT ![tail] = NULL] /\ tail' = Mask(tail + 1)
  BY DEF Extract
<1>3. tail' = (IF tail = Size - 1 THEN 0 ELSE tail + 1) /\ tail' \in Cells
  BY <1>1, <1>2, CountDistance
<1>4. Entries \in Seq(Entry) /\ Len(Entries) = Count /\ Entries # <<>>
  BY <1>1 DEF IsLog, Cells
<1>5. /\ s \in Seq(Entry) /\ Len(s) = Count - 1
      /\ \A k \in 1..Count-1 : s[k] = Entries[k + 1]
  BY <1>4, HeadTailProperties
<1>6. ASSUME NEW k \in 1..Count-1 PROVE Entries'[k] = s[k]
  <2> DEFINE j == k - 1
  <2>1. /\ k \in Cells /\ j \in Cells /\ k + 1 \in 1..Count
        /\ tail' + k - 1 = tail' + j /\ tail + (k + 1) - 1 = tail + k
    BY <1>1, <1>3, SizeAssumption DEF Cells
  <2>2. Entries'[k] = data'[Mask(tail' + k - 1)] /\ Entries[k + 1] = data[Mask(tail + (k + 1) - 1)]
    BY <2>1, <1>1 DEF IsLog
  <2>3. /\ Mask(tail + k) \in Cells
        /\ Mask(tail + k) = IF tail + k < Size THEN tail + k ELSE tail + k - Size
    BY <2>1, <1>1, CellAt
  <2>4. Mask(tail' + j) = IF tail' + j < Size THEN tail' + j ELSE tail' + j - Size
    <3> HIDE DEF j
    <3> QED BY <2>1, <1>3, CellAt
  <2>5. Mask(tail' + j) = Mask(tail + k) /\ Mask(tail + k) # tail
    BY <2>1, <2>3, <2>4, <1>1, <1>3, SizeAssumption DEF Cells
  <2>6. data'[Mask(tail + k)] = data[Mask(tail + k)]
    BY <2>3, <2>5, <1>1, <1>2
  <2> QED BY <2>1, <2>2, <2>5, <2>6, <1>5
<1>7. Entries' = s
  <2>1. Entries' \in Seq(Entry) /\ Len(Entries') = Count - 1
    BY <1>1 DEF IsLog
  <2> HIDE DEF s
  <2> QED BY <2>1, <1>5, <1>6, SeqEqual
<1> QED
  BY <1>4, <1>7 DEF Log!RemoveFirst

\* A step of the worker or of the compaction thread is a step of the sequence.
LEMMA NextLog == IInv /\ [Next]_vars => [Log!Next]_(Log!vars)
<1> SUFFICES ASSUME IInv, [Next]_vars PROVE Log!Next \/ UNCHANGED <<Entries, Base>>
  BY DEF Log!vars
<1>0. IInv' /\ IsLog /\ IsLog'
  BY NextIInv, EntriesSeq, EntriesSeqNext
<1>1. /\ TypeOK /\ RingOrdered /\ CompactionAligned
      /\ last_log_index \in Nat /\ last_applied \in Nat
      /\ Count \in Nat /\ Base = last_log_index - Count
  <2>1. TypeOK /\ RingOrdered /\ CompactionAligned
    BY DEF IInv, Inv
  <2> QED BY Zenon, <2>1, BaseInt DEF TypeOK
<1>2. \A i \in 0..MaxIndex : i \in Nat
  BY MaxIndexAssumption
<1>3. ASSUME UNCHANGED <<ring_vars, last_log_index>> PROVE UNCHANGED <<Entries, Base>>
  BY <1>3 DEF ring_vars, Entries, Base, Count, Mask
<1>4. ASSUME NEW term \in Term, AppendEntry(term)
      PROVE  Log!Next \/ UNCHANGED <<Entries, Base>>
  <2>1. CASE IsFull
    BY <2>1, <1>3, <1>4 DEF AppendEntry
  <2>2. CASE ~IsFull
    <3>1. Log!AppendEntry(term)
      BY <2>2, <1>0, <1>4, InsertLog DEF AppendEntry
    <3> QED BY <3>1 DEF Log!Next
  <2> QED BY <2>1, <2>2
<1>5. ASSUME NEW i \in Nat, NEW term \in Term, CheckConsistency(i, term)
      PROVE  Log!Next
  <2>1. PICK kept \in last_applied..last_log_index :
           ExtractNewest(last_log_index - kept) /\ last_log_index' = kept
    <3>1. KeptIndex(i, term) \in last_applied..last_log_index
      BY KeptRange
    <3>2. last_log_index \in last_applied..last_log_index
      BY <1>1 DEF CompactionAligned
    <3> QED
      BY <3>1, <3>2, <1>5 DEF CheckConsistency
  <2> DEFINE n == last_log_index - kept
  <2>2. /\ n \in 0..Count /\ ExtractNewest(n) /\ last_log_index' = last_log_index - n
        /\ last_log_index' \in Nat
    BY <2>1, <1>1 DEF CompactionAligned
  <2> HIDE DEF n
  <2>3. Count' = Count - n
    BY <2>2, <1>1, ExtractNewestRing
  <2>4. Base' = Base
    BY <2>2, <2>3, <1>1 DEF Base
  <2>5. Log!RemoveAfter(Count - n) /\ Count - n \in 0..Len(Entries)
    BY <2>2, <2>3, <2>4, <1>0, ExtractNewestLog
  <2> QED BY <2>5 DEF Log!Next
<1>6. ASSUME CompactEntry PROVE Log!Next
  <2>1. /\ IF IsEmpty THEN worker' = "no entry" ELSE Extract
        /\ last_log_index' = last_log_index
    BY Zenon, <1>6 DEF CompactEntry
  <2>2. ~IsEmpty
    BY Zenon, <2>1, <1>0 DEF IInv, CompactionFinds
  <2>3. Extract /\ Count > 0 /\ Count' = Count - 1
    BY <2>1, <2>2, <1>1, ExtractRing
  <2>4. Base' = Base + 1
    <3>1. last_log_index' = last_log_index /\ Count' = Count - 1
      BY Zenon, <2>1, <2>3
    <3>2. Base' = last_log_index' - Count'
      BY DEF Base
    <3> QED BY <3>1, <3>2, <1>1
  <2> QED BY <2>3, <2>4, <1>0, ExtractLog DEF Log!Next
<1>7. ASSUME NEW i \in Nat, InstallSnapshot(i) PROVE Log!Next
  <2>1. ExtractNewest(Count) /\ last_log_index' = i
    BY <1>7 DEF InstallSnapshot
  <2>2. Count' = 0
    <3> DEFINE n == Count
    <3>1. n \in 0..Count /\ n = Count /\ ExtractNewest(n) /\ Count \in Nat
      BY <2>1, <1>1, BaseInt
    <3> HIDE DEF n
    <3>2. Count' = Count - n
      BY <3>1, <2>1, <1>1, ExtractNewestRing
    <3> QED BY <3>1, <3>2
  <2>3. Entries' = <<>>
    BY <2>2, <1>0, EmptySeq DEF IsLog
  <2>4. Base' \in Nat
    BY <2>1, <2>2 DEF Base
  <2> QED BY <2>3, <2>4 DEF Log!Next, Log!Replace
<1>8. CASE \/ \E i \in last_applied+1..last_log_index : Commit(i)
           \/ ReadSnapshot \/ StartCompaction \/ SnapshotFails \/ EndCompaction
           \/ UNCHANGED vars
  BY <1>3, <1>8 DEF Commit, ReadSnapshot, StartCompaction, SnapshotFails, EndCompaction, vars
<1> QED
  BY <1>2, <1>4, <1>5, <1>6, <1>7, <1>8 DEF Next

\* The ring with its offsets is the bounded sequence the rest of the code takes the log
\* for, for a ring of any size: the worker appends to its end and cuts it back, the
\* compaction thread takes its first entry away, a snapshot replaces it
\* (append_raft_log_entry, remove_raft_conflicting_entries, compact_raft_log,
\* install_raft_snapshot).
THEOREM Implementation == Spec => LogImplemented
<1>1. Init => Log!Init
  <2> SUFFICES ASSUME Init PROVE Entries = <<>> /\ Base = 0
    BY DEF Log!Init
  <2>1. IsLog /\ head = 0 /\ tail = 0 /\ last_log_index = 0
    BY InitIInv, EntriesSeq DEF Init
  <2>2. Count = 0
    BY <2>1, CountDistance, SizeAssumption DEF Count, Cells
  <2> QED BY <2>1, <2>2, EmptySeq DEF IsLog, Base
<1> QED
  BY <1>1, InitIInv, NextIInv, NextLog, PTL DEF Spec, LogImplemented, Log!Spec
=============================================================================
