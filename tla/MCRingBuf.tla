----------------------------- MODULE MCRingBuf -----------------------------
(***************************************************************************)
(* Two producers on a ring of four cells; head and tail wrap around at     *)
(* eight.                                                                  *)
(***************************************************************************)
EXTENDS RingBuf, TLC

CONSTANTS p, q, m1, m2

Producers == {p, q}
Messages2 == {m1, m2}

Symmetry == Permutations(Producers) \cup Permutations(Messages2)
=============================================================================
