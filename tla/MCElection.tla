----------------------------- MODULE MCElection -----------------------------
(* Three voting members and, in Server, one that is still joining. *)
EXTENDS Election, TLC

CONSTANTS v1, v2, v3, j1

MCVoting == {v1, v2, v3}
MCServer == {v1, v2, v3, j1}

\* The three voters are interchangeable: no action names one of them.
Symmetry == Permutations({v1, v2, v3})
=============================================================================
