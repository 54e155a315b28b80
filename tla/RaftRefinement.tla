--------------------------- MODULE RaftRefinement ---------------------------
(***************************************************************************)
(* Module Raft implements module Election while all servers are voting     *)
(* members: its logs decide log_ok, and everything else it does is, for    *)
(* the election, the handling of another message.                          *)
(***************************************************************************)
EXTENDS Raft

\* A cluster M that was formed by f, which leads; log holds the commands by which its
\* members joined, and is applied everywhere.  Other servers are about to boot.
Joined(M, f, log, s) ==
    IF s \notin M THEN NewNode(s) ELSE
    [NewNode(s) EXCEPT
        !.state = IF s = f THEN "LEADER" ELSE "FOLLOWER",
        !.current_term = 1,
        !.voted_for = IF s = f THEN f ELSE Nil,
        !.current_leader = f,
        !.rcv_votes = IF s = f THEN 1 ELSE 0,
        !.voted_for_me = IF s = f THEN {f} ELSE {},
        !.commit_index = Len(log),
        !.log = log,
        !.servers = M,
        !.voting = M,
        !.next_index = [x \in Server |-> IF s # f \/ x \notin M THEN 1
                                         ELSE IF x = f THEN 3 ELSE Len(log) + 1],
        !.match_index = [x \in Server |-> IF s = f /\ x \in M \ {f} THEN Len(log) ELSE 0]]

JoinedInit(M, f, log) ==
    /\ node = [s \in Server |-> Joined(M, f, log, s)]
    /\ vote_reqs = {}
    /\ vote_replies = {}
    /\ reqs = Empty
    /\ replies = Empty
    /\ joins = {}
    /\ redis_key = f

JoinedSpec(M, f, log) == JoinedInit(M, f, log) /\ [][Next]_vars

-----------------------------------------------------------------------------
\* What the election sees of the servers and their messages.
Roles == [s \in Server |-> node[s].state]
Terms == [s \in Server |-> node[s].current_term]
VotesGiven == [s \in Server |-> node[s].voted_for]
VotesTaken == [s \in Server |-> node[s].voted_for_me]
VoteCounts == [s \in Server |-> node[s].rcv_votes]
Asked == {[src |-> m.src, term |-> m.term] : m \in vote_reqs}
Granted == {[src |-> m.src, dst |-> m.dst, term |-> m.term] :
               m \in {r \in vote_replies : r.granted}}

E == INSTANCE Election WITH
        Voting <- Server, state <- Roles, current_term <- Terms, voted_for <- VotesGiven,
        voted_for_me <- VotesTaken, rcv_votes <- VoteCounts, vote_reqs <- Asked,
        votes <- Granted

\* The raft servers run the election: every step of their code that touches the role,
\* the term, the vote or the vote messages is one of the election's actions.  In
\* particular only handle_vote_request gives votes, and only their majority makes a
\* leader.
ElectionImplemented == E!Spec
=============================================================================
