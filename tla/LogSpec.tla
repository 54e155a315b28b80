------------------------------ MODULE LogSpec ------------------------------
(***************************************************************************)
(* What the log of a server promises to the rest of the code: a bounded    *)
(* sequence of entries whose first one has index base + 1.  It grows at    *)
(* its end, is cut back at its end, loses its first entry to compaction,   *)
(* or is replaced by a snapshot.                                           *)
(***************************************************************************)
EXTENDS Naturals, Sequences

CONSTANTS Capacity,  \* how many entries it holds at most
          Term       \* terms of entries

VARIABLES entries,   \* the entries held, with index and term
          base       \* index of the last entry no longer held

vars == <<entries, base>>

Init == entries = <<>> /\ base = 0

AppendEntry(t) ==
    /\ Len(entries) < Capacity
    /\ entries' = Append(entries, [index |-> base + Len(entries) + 1, term |-> t])
    /\ UNCHANGED base

RemoveAfter(n) ==
    /\ entries' = SubSeq(entries, 1, n)
    /\ UNCHANGED base

RemoveFirst ==
    /\ entries # <<>>
    /\ entries' = Tail(entries)
    /\ base' = base + 1

Replace ==
    /\ entries' = <<>>
    /\ base' \in Nat

Next ==
    \/ \E t \in Term : AppendEntry(t)
    \/ \E n \in 0..Len(entries) : RemoveAfter(n)
    \/ RemoveFirst
    \/ Replace

Spec == Init /\ [][Next]_vars
=============================================================================
