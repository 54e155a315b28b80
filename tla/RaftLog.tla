------------------------------ MODULE RaftLog ------------------------------
(***************************************************************************)
(* The raft log of one server in memory: the ring of logring.c, the        *)
(* operations of log.c on it, and the thread of snapshot.c that compacts   *)
(* it while the worker goes on.  raft_log_lock is taken and released       *)
(* within one action, except by a check_raft_log_consistency that waits    *)
(* for raft_snapshot_lock; the thread holds raft_snapshot_lock from the    *)
(* moment it has read the snapshot until it is done.                       *)
(*                                                                         *)
(* The size of the ring is a power of two, so that & mask is % Size.  What *)
(* the entries hold does not matter here; memsize is left out, so that     *)
(* any append to a log with entries may find the memory threshold exceeded.*)
(***************************************************************************)
EXTENDS Integers, Sequences

CONSTANTS Size,      \* cells of the ring; one of them stays empty
          Threshold, \* cthresh: a snapshot is taken when there are more entries
          Term,      \* terms of entries
          NULL,
          MaxIndex   \* bound on the indexes

ASSUME SizeAssumption == Size \in Nat /\ Size > 1
ASSUME ThresholdAssumption == Threshold \in Nat
ASSUME MaxIndexAssumption == MaxIndex \in Nat

Entry == [index : Nat, term : Term]
ASSUME NullAssumption == NULL \notin Entry

VARIABLES head, tail, data,  \* logring_t
          last_log_index,    \* log_entries_t
          index_offset,
          last_applied,      \* raft_state_t: also commit_index
          snapshot_index,    \* raft_snapshot.last_index
          snapshot,          \* raft_in_progress, and how far the thread is
          taken,             \* raft_metabuf.last_index, of the snapshot in progress
          count,             \* entries compact_raft_log has yet to remove
          worker             \* "waiting": for raft_snapshot_lock, with raft_log_lock

ring_vars == <<head, tail, data>>
snapshot_vars == <<snapshot_index, snapshot, taken, count>>
vars == <<ring_vars, last_log_index, index_offset, last_applied, snapshot_vars, worker>>

-----------------------------------------------------------------------------
\* logring.c

Cells == 0..Size-1

Mask(i) == i % Size

\* log_ring_count
Count == Mask(head + Size - tail)

\* How far cell i is from the oldest entry.
Distance(i) == Mask(i + Size - tail)

\* log_ring_insert, when the ring is not full.
IsFull == Mask(head + 1) = tail
Insert(e) == /\ data' = [data EXCEPT ![head] = e]
             /\ head' = Mask(head + 1)
             /\ UNCHANGED tail

IsEmpty == tail = head

\* (Mutant: the tail is advanced before its cell is cleared.)
ExtractAdvanced == /\ data' = [data EXCEPT ![Mask(tail + 1)] = NULL]
                   /\ tail' = Mask(tail + 1)
                   /\ UNCHANGED head

\* log_ring_extract, when the ring is not empty.
Extract == /\ data' = [data EXCEPT ![tail] = NULL]
           /\ tail' = Mask(tail + 1)
           /\ UNCHANGED head

\* (Mutant: the cells keep what was extracted.)
ExtractNewestOnly(n) ==
    /\ head' = Mask(head + Size - n)
    /\ UNCHANGED <<tail, data>>

\* log_ring_extract_r, n times.
ExtractNewest(n) ==
    /\ data' = [i \in Cells |-> IF Distance(i) >= Count - n THEN NULL ELSE data[i]]
    /\ head' = Mask(head + Size - n)
    /\ UNCHANGED tail

\* (Mutant: the entry at the head is taken for the newest one.)
GetAtHead(i) ==
    LET first == data[tail]
        last == data[head]
    IN  IF first # NULL /\ last # NULL /\ first.index <= i /\ i <= last.index
        THEN data[Mask(tail + (i - first.index))] ELSE NULL

\* log_ring_get
Get(i) ==
    LET first == data[tail]
        last == data[Mask(head + Size - 1)]
    IN  IF first # NULL /\ first.index <= i /\ i <= last.index
        THEN data[Mask(tail + (i - first.index))] ELSE NULL

-----------------------------------------------------------------------------
\* init_log
Init ==
    /\ head = 0
    /\ tail = 0
    /\ data = [i \in Cells |-> NULL]
    /\ last_log_index = 0
    /\ index_offset = 0
    /\ last_applied = 0
    /\ snapshot_index = 0
    /\ snapshot = "none"
    /\ taken = 0
    /\ count = 0
    /\ worker = "idle"

\* take_raft_snapshot: the child process takes last_applied, unless a snapshot is in
\* progress.
TakeSnapshot ==
    IF snapshot = "none"
    THEN snapshot' = "taking" /\ taken' = last_applied
    ELSE UNCHANGED <<snapshot, taken>>

\* append_raft_log_entry
AppendEntry(term) ==
    /\ worker = "idle"
    /\ last_log_index < MaxIndex
    /\ \E exceeded \in BOOLEAN :
          /\ Count > Threshold => exceeded
          /\ exceeded => Count > 0
          /\ IF exceeded THEN TakeSnapshot ELSE UNCHANGED <<snapshot, taken>>
    /\ IF IsFull
       THEN worker' = "full" /\ UNCHANGED <<ring_vars, last_log_index>>
       ELSE /\ Insert([index |-> last_log_index + 1, term |-> term])
            /\ last_log_index' = last_log_index + 1
            /\ UNCHANGED worker
    /\ UNCHANGED <<index_offset, last_applied, snapshot_index, count>>

\* raft_commit_log_entries and raft_apply_log_entries
Commit(i) ==
    /\ worker = "idle"
    /\ last_applied' = i
    /\ UNCHANGED <<ring_vars, last_log_index, index_offset, snapshot_vars, worker>>

\* remove_raft_conflicting_entries: where it stops.
KeptIndex(prev_log_index, prev_log_term) ==
    IF /\ prev_log_index > last_applied
       /\ Get(prev_log_index) # NULL
       /\ Get(prev_log_index).term = prev_log_term
    THEN prev_log_index ELSE last_applied

\* check_raft_log_consistency.  An entry that is not in the ring is looked for in the
\* snapshot, for which raft_snapshot_lock is needed.
CheckConsistency(prev_log_index, prev_log_term) ==
    LET last == Get(last_log_index)
        remove == /\ last # NULL
                  /\ last # [index |-> prev_log_index, term |-> prev_log_term]
        kept == IF remove THEN KeptIndex(prev_log_index, prev_log_term) ELSE last_log_index
    IN  /\ worker = "idle"
        /\ ExtractNewest(last_log_index - kept)
        /\ last_log_index' = kept
        /\ worker' = IF prev_log_index <= kept /\ Get(prev_log_index) # NULL
                     THEN "idle" ELSE "waiting"
        /\ UNCHANGED <<index_offset, last_applied, snapshot_vars>>

\* ... and once it has the lock.
ReadSnapshot ==
    /\ worker = "waiting"
    /\ snapshot # "compacting"
    /\ worker' = "idle"
    /\ UNCHANGED <<ring_vars, last_log_index, index_offset, last_applied, snapshot_vars>>

IsRunning == worker \in {"idle", "waiting"}

\* (Mutant: the entries to remove are counted from the first one on.)
StartCompactionFromStart ==
    /\ IsRunning
    /\ snapshot = "taking"
    /\ snapshot' = "compacting"
    /\ snapshot_index' = taken
    /\ count' = taken
    /\ UNCHANGED <<ring_vars, last_log_index, index_offset, last_applied, taken, worker>>

\* parent_raft_thread has read the snapshot, and compact_raft_log counts.
StartCompaction ==
    /\ IsRunning
    /\ snapshot = "taking"
    /\ snapshot' = "compacting"
    /\ snapshot_index' = taken
    /\ count' = taken - index_offset
    /\ UNCHANGED <<ring_vars, last_log_index, index_offset, last_applied, taken, worker>>

\* parent_raft_thread cannot read the snapshot from the pipe.
SnapshotFails ==
    /\ IsRunning
    /\ snapshot = "taking"
    /\ snapshot' = "none"
    /\ UNCHANGED <<ring_vars, last_log_index, index_offset, last_applied, snapshot_index,
                   taken, count, worker>>

\* compact_raft_log, one entry; without one it exits.
CompactEntry ==
    /\ worker = "idle"
    /\ snapshot = "compacting"
    /\ count > 0
    /\ IF IsEmpty THEN worker' = "no entry" /\ UNCHANGED <<ring_vars, count>>
       ELSE Extract /\ count' = count - 1 /\ UNCHANGED worker
    /\ UNCHANGED <<last_log_index, index_offset, last_applied, snapshot_index, snapshot, taken>>

\* ... and the end of it.
EndCompaction ==
    /\ worker = "idle"
    /\ snapshot = "compacting"
    /\ count = 0
    /\ index_offset' = taken
    /\ snapshot' = "none"
    /\ UNCHANGED <<ring_vars, last_log_index, last_applied, snapshot_index, taken, count, worker>>

\* (Mutant: a snapshot is installed while one is taken.)
InstallAnyway(i) ==
    /\ worker = "idle"
    /\ ExtractNewest(Count)
    /\ index_offset' = i
    /\ last_log_index' = i
    /\ last_applied' = i
    /\ snapshot_index' = i
    /\ UNCHANGED <<snapshot, taken, count, worker>>

\* install_raft_snapshot, with free_all_log_entries.
InstallSnapshot(i) ==
    /\ worker = "idle"
    /\ snapshot = "none"
    /\ ExtractNewest(Count)
    /\ index_offset' = i
    /\ last_log_index' = i
    /\ last_applied' = i
    /\ snapshot_index' = i
    /\ UNCHANGED <<snapshot, taken, count, worker>>

Next ==
    \/ \E term \in Term : AppendEntry(term)
    \/ \E i \in last_applied+1..last_log_index : Commit(i)
    \/ \E i \in 0..MaxIndex, term \in Term : CheckConsistency(i, term)
    \/ ReadSnapshot
    \/ StartCompaction
    \/ SnapshotFails
    \/ CompactEntry
    \/ EndCompaction
    \/ \E i \in 0..MaxIndex : InstallSnapshot(i)

Spec == Init /\ [][Next]_vars

-----------------------------------------------------------------------------
\* The index before the oldest entry in the ring.
Base == last_log_index - Count

TypeOK ==
    /\ head \in Cells /\ tail \in Cells
    /\ data \in [Cells -> Entry \cup {NULL}]
    /\ last_log_index \in Nat /\ index_offset \in Nat /\ last_applied \in Nat
    /\ snapshot_index \in Nat /\ taken \in Nat /\ count \in Nat
    /\ snapshot \in {"none", "taking", "compacting"}
    /\ worker \in {"idle", "waiting", "full", "no entry"}

\* The ring holds the entries Base + 1 .. last_log_index in order from the tail on, and
\* every other cell is NULL, whatever is inserted and extracted at both ends
\* (log_ring_get relies on it to tell an empty ring).
RingOrdered ==
    \A i \in Cells :
       IF Distance(i) < Count
       THEN data[i] # NULL /\ data[i].index = Base + 1 + Distance(i)
       ELSE data[i] = NULL

\* The thread removes what it counted while the worker appends to the log and cuts it
\* back: the oldest entry is always where index_offset, count and the snapshot say,
\* and what is applied and not covered by the snapshot is still there.
CompactionAligned ==
    /\ Base <= last_applied /\ last_applied <= last_log_index
    /\ snapshot = "none" => Base = index_offset
    /\ snapshot = "taking" => /\ Base = index_offset
                              /\ index_offset <= taken /\ taken <= last_applied
    /\ snapshot = "compacting" => /\ Base + count = taken
                                  /\ taken <= last_applied

Inv == TypeOK /\ RingOrdered /\ CompactionAligned

\* log_ring_get finds exactly the entries held, and so the ones whose index it is asked
\* for, after any wrap-around ("log_index is out of range" else).
GetFinds ==
    \A i \in 0..MaxIndex+1 :
       IF Base < i /\ i <= last_log_index THEN Get(i) # NULL /\ Get(i).index = i
       ELSE Get(i) = NULL

\* compact_raft_log never meets the fatal "unable to find and delete the raft log entry".
CompactionFinds == worker # "no entry"

\* What is not in the log is in the snapshot: it ends at the entry before the oldest
\* one, or at the last one that compact_raft_log is going to remove
\* (check_raft_log_consistency and serialize_raft_log_entries look in one of the two).
SnapshotMeetsLog ==
    snapshot_index = Base + (IF snapshot = "compacting" THEN count ELSE 0)

\* "the lock order must be: raft state (rft.c), raft log (log.c), and raft config"
\* (commit_raft_config_snapshot): the worker never waits for the lock of the thread
\* that waits for the worker's.
NoLockCycle == ~(worker = "waiting" /\ snapshot = "compacting")

-----------------------------------------------------------------------------
\* The entries from the tail on.
Entries == [k \in 1..Count |-> data[Mask(tail + k - 1)]]

\* The ring with its offsets implements the bounded sequence of LogSpec.
Log == INSTANCE LogSpec WITH Capacity <- Size - 1, entries <- Entries, base <- Base

\* Every step of the worker and of the compaction thread is a step of the sequence or
\* leaves it alone.
LogImplemented == Log!Spec
=============================================================================
