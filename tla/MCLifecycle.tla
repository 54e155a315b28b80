---------------------------- MODULE MCLifecycle ----------------------------
(* A cluster that a founded and b and c joined.  b was a candidate in term 2, in vain; in
   term 3 the vote of c has just made a the leader again, and the election thread of a,
   still in become_candidate, has yet to see it. *)
EXTENDS Lifecycle

CONSTANTS a, b, c

Three == {a, b, c}
JustA == {a}
JustC == {c}

FormedInit ==
    /\ key = a
    /\ watch = [s \in Server |-> "no"]
    /\ members = [d \in Clusters |-> IF d = 1 THEN Server ELSE {}]
    /\ starts = 0
    /\ state = [s \in Server |-> IF s = a THEN "LEADER" ELSE "FOLLOWER"]
    /\ term = [s \in Server |-> 3]
    /\ voted_for = [s \in Server |-> IF s = b THEN NULL ELSE a]
    /\ cluster = [s \in Server |-> 1]
    /\ election = [s \in Server |-> IF s = a THEN "candidate" ELSE "top"]
    /\ target = [s \in Server |-> NULL]
    /\ asked = [s \in Server |-> NULL]
    /\ tries = [s \in Server |-> 0]
    /\ worker = [s \in Server |-> TRUE]
    /\ shutdown = [s \in Server |-> "no"]

FormedSpec == FormedInit /\ [][Next]_vars /\ Fairness
=============================================================================
