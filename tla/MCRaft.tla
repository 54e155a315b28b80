------------------------------- MODULE MCRaft -------------------------------
(* A cluster that was formed by a, which b and then c joined; a still leads.
   In some runs another server d boots. *)
EXTENDS RaftRefinement, TLC

CONSTANTS a, b, c, d

Members == {a, b, c}
Four == {a, b, c, d}
JustA == {a}
JustB == {b}
JustC == {c}
JustD == {d}
NotA == {b, c}
NotB == {a, c}

FormedLog == <<Config(1, "ADD_MEMBER", a), Noop(1),
               Config(1, "ADD_MEMBER", b), Config(1, "ADD_MEMBER", c)>>

Formed(s) == Joined(Members, a, FormedLog, s)

FormedInit == JoinedInit(Members, a, FormedLog)

\* JoinedSpec(Members, a, FormedLog), with its conjuncts in the open, as TLC wants them.
FormedSpec == FormedInit /\ [][Next]_vars

\* ... and then b was elected by all three; its NOOP is in its own log only.
Elected(s) ==
    [Formed(s) EXCEPT
        !.state = IF s = b THEN "LEADER" ELSE "FOLLOWER",
        !.current_term = 2,
        !.voted_for = b,
        !.current_leader = IF s = b THEN b ELSE Nil,
        !.rcv_votes = IF s = b THEN 2 ELSE @,
        !.voted_for_me = IF s = b THEN {b, c} ELSE @,
        !.log = IF s = b THEN Append(@, Noop(2)) ELSE @,
        !.next_index = IF s = b THEN [x \in Server |-> 6] ELSE @]

VotesFor(s, term) == {[src |-> v, dst |-> s, term |-> term, granted |-> TRUE] : v \in Server \ {s}}

ElectedInit ==
    /\ node = [s \in Server |-> Elected(s)]
    /\ vote_reqs = {[src |-> b, term |-> 2, last_log_index |-> 4, last_log_term |-> 1]}
    /\ vote_replies = VotesFor(b, 2)
    /\ reqs = Empty
    /\ replies = Empty
    /\ joins = {}
    /\ redis_key = b

ElectedSpec == ElectedInit /\ [][Next]_vars

\* ... whose NOOP then reached a, so that b committed it.  Before a heartbeat could tell
\* a, c tried to be leader in term 3, in vain, and b is leader again, of term 4.
Reelected(s) ==
    [Elected(s) EXCEPT
        !.current_term = 4,
        !.rcv_votes = IF s = c THEN 1 ELSE @,
        !.voted_for_me = IF s = c THEN {c} ELSE @,
        !.commit_index = IF s = b THEN 5 ELSE @,
        !.log = IF s = b THEN @ \o <<Noop(4)>>
                ELSE IF s = a THEN Append(@, Noop(2)) ELSE @,
        !.next_index = IF s = b THEN [x \in Server |-> 7] ELSE @]

ReelectedInit ==
    /\ node = [s \in Server |-> Reelected(s)]
    /\ vote_reqs = {}
    /\ vote_replies = {}
    /\ reqs = Empty
    /\ replies = Empty
    /\ joins = {}
    /\ redis_key = b

ReelectedSpec == ReelectedInit /\ [][Next]_vars

Symmetry == Permutations({b, c})
=============================================================================
