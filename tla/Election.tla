------------------------------ MODULE Election ------------------------------
(***************************************************************************)
(* Leader election of rft.c over a fixed set of voting members: the role,  *)
(* term and vote of each server, and the VOTE_REQ / VOTE_REPLY messages.   *)
(* It is also the abstract specification module Raft is checked against    *)
(* (RaftRefinement) while the configuration does not change.               *)
(*                                                                         *)
(* Every handler runs under raft_state_lock and is one action.  What the   *)
(* election does not keep is left open here and decided by module Raft:    *)
(* the logs (log_ok), the clock (timed_out) and all other messages         *)
(* (HandleOtherMessage).  A vote message that was sent may be delivered    *)
(* late, out of order, several times or never.  Terms and votes are kept   *)
(* in memory only; this module is about processes that do not restart.     *)
(***************************************************************************)
EXTENDS Naturals, FiniteSets

CONSTANTS Server,     \* server ids
          Voting,     \* the VOTING_MEMBERs of the raft configuration
          Nil,        \* the empty voted_for
          MaxTerm     \* bound on current_term

ASSUME VotingAssumption == Voting \subseteq Server /\ IsFiniteSet(Server)
ASSUME NilAssumption == Nil \notin Server
ASSUME MaxTermAssumption == MaxTerm \in Nat \ {0}

VARIABLES state,         \* me.state of each server
          current_term,  \* me.current_term
          voted_for,     \* me.voted_for
          voted_for_me,  \* members whose voted_for_me flag is set
          rcv_votes,     \* me.rcv_votes
          vote_reqs,     \* the VOTE_REQ messages sent, each to all servers
          votes          \* the VOTE_REPLY messages sent that grant a vote

vars == <<state, current_term, voted_for, voted_for_me, rcv_votes, vote_reqs, votes>>

Running == {"INIT_SERVER", "FOLLOWER", "CANDIDATE", "LEADER"}
State == Running \cup {"DOWN"}

TypeOK ==
    /\ state \in [Server -> State]
    /\ current_term \in [Server -> 0..MaxTerm]
    /\ voted_for \in [Server -> Server \cup {Nil}]
    /\ voted_for_me \in [Server -> SUBSET Voting]
    /\ rcv_votes \in [Server -> Nat]
    /\ vote_reqs \in SUBSET [src : Server, term : 0..MaxTerm]
    /\ votes \in SUBSET [src : Server, dst : Server, term : 0..MaxTerm]

\* One member, f, formed the cluster; it elected itself when it was alone, and leads.
\* The others joined under it: they have heard its term, and applied their own
\* ADD_MEMBER entry.
Init ==
    \E f \in Voting :
       /\ state = [s \in Server |-> IF s = f THEN "LEADER"
                                   ELSE IF s \in Voting THEN "FOLLOWER" ELSE "INIT_SERVER"]
       /\ current_term = [s \in Server |-> IF s \in Voting THEN 1 ELSE 0]
       /\ voted_for = [s \in Server |-> IF s = f THEN f ELSE Nil]
       /\ voted_for_me = [s \in Server |-> IF s = f THEN {f} ELSE {}]
       /\ rcv_votes = [s \in Server |-> IF s = f THEN 1 ELSE 0]
       /\ vote_reqs = {}
       /\ votes = {}

-----------------------------------------------------------------------------
\* (Mutant: half of the votes is enough.)
HasHalfOfVotes(n) == n >= Cardinality(Voting) \div 2

\* has_majority_of_votes
HasMajorityOfVotes(n) == n > Cardinality(Voting) \div 2

\* match_terms: a newer term is adopted, the vote of the old one forgotten, and
\* a leader or candidate steps down.  INIT_SERVER stays INIT_SERVER.
StateAfter(s, term) ==
    IF term > current_term[s] /\ state[s] \in {"LEADER", "CANDIDATE"}
    THEN "FOLLOWER" ELSE state[s]

\* (Mutants: an older term is adopted, too; the vote is forgotten within its term.)
TermAfterAny(s, term) == term
VoteAfterSame(s, term) == IF term >= current_term[s] THEN Nil ELSE voted_for[s]

TermAfter(s, term) == IF term > current_term[s] THEN term ELSE current_term[s]

VoteAfter(s, term) == IF term > current_term[s] THEN Nil ELSE voted_for[s]

-----------------------------------------------------------------------------
\* (Mutant: the votes of the last election are not forgotten.)
BecomeCandidateAgain(s) ==
    /\ state[s] \in {"FOLLOWER", "CANDIDATE"}
    /\ s \in Voting
    /\ current_term[s] < MaxTerm
    /\ current_term' = [current_term EXCEPT ![s] = @ + 1]
    /\ voted_for' = [voted_for EXCEPT ![s] = s]
    /\ voted_for_me' = [voted_for_me EXCEPT ![s] = {s}]
    /\ rcv_votes' = [rcv_votes EXCEPT ![s] = @ + 1]
    /\ IF HasMajorityOfVotes(1)
       THEN /\ state' = [state EXCEPT ![s] = "LEADER"]
            /\ UNCHANGED vote_reqs
       ELSE /\ state' = [state EXCEPT ![s] = "CANDIDATE"]
            /\ vote_reqs' = vote_reqs \cup {[src |-> s, term |-> current_term[s] + 1]}
    /\ UNCHANGED votes

\* become_candidate, one round of its loop: entered by a follower whose election
\* timeout is over, and taken again by a candidate whose wait timed out.  A
\* server that is not a voting member of its own configuration exits.
BecomeCandidate(s) ==
    /\ state[s] \in {"FOLLOWER", "CANDIDATE"}
    /\ s \in Voting
    /\ current_term[s] < MaxTerm
    /\ current_term' = [current_term EXCEPT ![s] = @ + 1]
    /\ voted_for' = [voted_for EXCEPT ![s] = s]
    /\ voted_for_me' = [voted_for_me EXCEPT ![s] = {s}]
    /\ rcv_votes' = [rcv_votes EXCEPT ![s] = 1]
    /\ IF HasMajorityOfVotes(1)
       THEN /\ state' = [state EXCEPT ![s] = "LEADER"]
            /\ UNCHANGED vote_reqs
       ELSE /\ state' = [state EXCEPT ![s] = "CANDIDATE"]
            /\ vote_reqs' = vote_reqs \cup {[src |-> s, term |-> current_term[s] + 1]}
    /\ UNCHANGED votes

\* handle_vote_request: a follower whose timed_out flag is not set refuses, an
\* outdated term is refused, otherwise the vote goes to the first candidate of
\* the term whose log is good enough.  The worker drops its own request.  (The
\* term of a refusal reaches the candidate through HandleOtherMessage.)
HandleVoteRequest(s, m, log_ok, timed_out) ==
    LET vote == IF log_ok /\ VoteAfter(s, m.term) = Nil
                THEN m.src ELSE VoteAfter(s, m.term)
        refuse == \/ ~timed_out /\ StateAfter(s, m.term) = "FOLLOWER"
                  \/ m.term < current_term[s]
        reply == [src |-> s, dst |-> m.src, term |-> TermAfter(s, m.term)]
    IN  /\ state[s] \in Running
        /\ s # m.src
        /\ state' = [state EXCEPT ![s] = StateAfter(s, m.term)]
        /\ current_term' = [current_term EXCEPT ![s] = TermAfter(s, m.term)]
        /\ voted_for' = [voted_for EXCEPT
                            ![s] = IF refuse THEN VoteAfter(s, m.term) ELSE vote]
        /\ votes' = IF ~refuse /\ vote = m.src THEN votes \cup {reply} ELSE votes
        /\ UNCHANGED <<voted_for_me, rcv_votes, vote_reqs>>

\* handle_vote_reply of a granted vote: counted in the current term of a candidate
\* and once per voting member; the majority makes the candidate leader.
HandleVoteReply(m) ==
    LET s == m.dst
        counted == /\ m.term = current_term[s]
                   /\ state[s] = "CANDIDATE"
                   /\ m.src \in Voting \ voted_for_me[s]
    IN  /\ state[s] \in Running
        /\ current_term' = [current_term EXCEPT ![s] = TermAfter(s, m.term)]
        /\ voted_for' = [voted_for EXCEPT ![s] = VoteAfter(s, m.term)]
        /\ IF counted
           THEN /\ voted_for_me' = [voted_for_me EXCEPT ![s] = @ \cup {m.src}]
                /\ rcv_votes' = [rcv_votes EXCEPT ![s] = @ + 1]
                /\ state' = [state EXCEPT
                                ![s] = IF HasMajorityOfVotes(rcv_votes[s] + 1)
                                       THEN "LEADER" ELSE @]
           ELSE /\ state' = [state EXCEPT ![s] = StateAfter(s, m.term)]
                /\ UNCHANGED <<voted_for_me, rcv_votes>>
        /\ UNCHANGED <<vote_reqs, votes>>

\* The other handlers reach the election state through match_terms, except that
\* a server that applies its own ADD_MEMBER entry becomes a follower.
HandleOtherMessage(s, term) ==
    /\ state[s] \in Running
    /\ state' \in {[state EXCEPT ![s] = x] : x \in {StateAfter(s, term), "FOLLOWER"}}
    /\ current_term' = [current_term EXCEPT ![s] = TermAfter(s, term)]
    /\ voted_for' = [voted_for EXCEPT ![s] = VoteAfter(s, term)]
    /\ UNCHANGED <<voted_for_me, rcv_votes, vote_reqs, votes>>

\* A process stops or exits on a fatal error, such as the one of become_candidate
\* in a server that is not a voting member of its own configuration.
Crash(s) ==
    /\ state[s] \in Running
    /\ state' = [state EXCEPT ![s] = "DOWN"]
    /\ UNCHANGED <<current_term, voted_for, voted_for_me, rcv_votes, vote_reqs, votes>>

Next ==
    \/ \E s \in Server : BecomeCandidate(s) \/ Crash(s)
    \/ \E s \in Server, term \in 0..MaxTerm : HandleOtherMessage(s, term)
    \/ \E s \in Server, m \in vote_reqs, log_ok, timed_out \in BOOLEAN :
          HandleVoteRequest(s, m, log_ok, timed_out)
    \/ \E m \in votes : HandleVoteReply(m)

Spec == Init /\ [][Next]_vars

-----------------------------------------------------------------------------
\* Election safety (become_leader): two servers are never LEADER in the same
\* term, whatever is lost, reordered or delivered twice.
ElectionSafety ==
    \A s, t \in Server :
       /\ state[s] = "LEADER" /\ state[t] = "LEADER"
       /\ current_term[s] = current_term[t]
       => s = t

\* The fatal exit of has_majority_of_votes ("received more votes than available
\* voting members", config.c) is never taken: rcv_votes, which is counted apart
\* from the voted_for_me flags, stays within the number of voting members.
VotesWithinConfig ==
    \A s \in Server :
       state[s] \in {"CANDIDATE", "LEADER"} => rcv_votes[s] <= Cardinality(Voting)

\* v's vote of the given term went to s: it is recorded in v (handle_vote_request),
\* travels in a reply, or is counted by s (handle_vote_reply).
Vote(v, s, term) ==
    \/ current_term[v] = term /\ voted_for[v] = s
    \/ [src |-> v, dst |-> s, term |-> term] \in votes
    \/ /\ state[s] \in {"CANDIDATE", "LEADER"}
       /\ current_term[s] = term
       /\ v \in voted_for_me[s]

\* One vote per term (handle_vote_request and match_terms): wherever the traces of
\* its votes are, a server has voted for one candidate of a term only.
OneVotePerTerm ==
    \A v, s, t \in Server, term \in 0..MaxTerm :
       Vote(v, s, term) /\ Vote(v, t, term) => s = t

-----------------------------------------------------------------------------
\* The conjuncts of the inductive invariant.

\* A reply is for a term its sender has reached, and agrees with voted_for while
\* the sender is still in that term.
VotesRecorded ==
    \A m \in votes :
       /\ m.term <= current_term[m.src]
       /\ m.term = current_term[m.src] => voted_for[m.src] = m.dst

\* No two replies of a server in a term grant different candidates.
VotesAgree ==
    \A m, n \in votes : m.src = n.src /\ m.term = n.term => m.dst = n.dst

\* The flags of a candidate or leader are its own vote and votes sent to it, its
\* counter agrees with them, and a leader has a majority, except the first one.
VotesCounted ==
    \A s \in Server : state[s] \in {"CANDIDATE", "LEADER"} =>
       /\ voted_for[s] = s
       /\ \A v \in voted_for_me[s] \ {s} :
             [src |-> v, dst |-> s, term |-> current_term[s]] \in votes
       /\ rcv_votes[s] = Cardinality(voted_for_me[s])
       /\ state[s] = "LEADER" => HasMajorityOfVotes(rcv_votes[s]) \/ current_term[s] = 1

\* The first term has the leader that formed the cluster; elections are for later ones.
FirstLeader ==
    /\ \A s \in Voting : current_term[s] >= 1
    /\ \A s \in Server : state[s] = "CANDIDATE" => current_term[s] >= 2
    /\ \A s, t \in Server : /\ state[s] = "LEADER" /\ current_term[s] = 1
                             /\ state[t] = "LEADER" /\ current_term[t] = 1
                             => s = t

\* The inductive invariant of the election.
Inv == TypeOK /\ VotesRecorded /\ VotesAgree /\ VotesCounted /\ FirstLeader

=============================================================================
