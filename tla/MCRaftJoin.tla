----------------------------- MODULE MCRaftJoin -----------------------------
(* A cluster from its start: a, b and possibly j boot with an empty Redis. *)
EXTENDS Raft, TLC

CONSTANTS a, b, j

Two == {a, b}
Three == {a, b, j}
JustA == {a}
JustB == {b}
JustJ == {j}
NotA == {b, j}

\* ... or a has bootstrapped the cluster and leads it alone.
Alone(s) ==
    IF s # a THEN NewNode(s)
    ELSE [NewNode(a) EXCEPT
             !.state = "LEADER", !.current_term = 1, !.voted_for = a, !.current_leader = a,
             !.rcv_votes = 1, !.voted_for_me = {a}, !.commit_index = 1,
             !.log = <<Config(1, "ADD_MEMBER", a), Noop(1)>>,
             !.servers = {a}, !.voting = {a}, !.next_index[a] = 3]

AloneInit ==
    /\ node = [s \in Server |-> Alone(s)]
    /\ vote_reqs = {}
    /\ vote_replies = {}
    /\ reqs = Empty
    /\ replies = Empty
    /\ joins = {}
    /\ redis_key = a

AloneSpec == AloneInit /\ [][Next]_vars
AloneFairSpec == AloneSpec /\ Fairness
=============================================================================
