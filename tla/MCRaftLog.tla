----------------------------- MODULE MCRaftLog -----------------------------
(***************************************************************************)
(* A ring of four cells: it is full with three entries, wraps around       *)
(* within MaxIndex entries, and is compacted from its second entry on.     *)
(***************************************************************************)
EXTENDS RaftLog

Terms == {1, 2}
=============================================================================
