--------------------------- MODULE ElectionProofs ---------------------------
(***************************************************************************)
(* Election safety for any number of servers and terms: Inv is inductive,  *)
(* and implies that no two servers lead in the same term, because two      *)
(* majorities of Voting share a member and that member voted once.  The    *)
(* first term is the one of the server that formed the cluster: nobody is  *)
(* elected in it any more.                                                 *)
(***************************************************************************)
EXTENDS Election, FiniteSetTheorems, TLAPS

\* Voting, and every set of votes, is finite.
LEMMA VotingFinite ==
    /\ IsFiniteSet(Voting)
    /\ Cardinality(Voting) \in Nat
    /\ \A S \in SUBSET Voting :
          /\ IsFiniteSet(S)
          /\ Cardinality(S) \in Nat
          /\ Cardinality(S) <= Cardinality(Voting)
<1>1. IsFiniteSet(Voting)
  BY VotingAssumption, FS_Subset
<1>2. Cardinality(Voting) \in Nat
  BY <1>1, FS_CardinalityType
<1>3. ASSUME NEW S \in SUBSET Voting
      PROVE  IsFiniteSet(S) /\ Cardinality(S) \in Nat /\ Cardinality(S) <= Cardinality(Voting)
  BY <1>1, FS_Subset, FS_CardinalityType
<1> QED
  BY <1>1, <1>2, <1>3

\* match_terms: the term never decreases, the vote is kept within the term, and a
\* server that stays candidate or leader stays in its term.
LEMMA MatchTerms ==
    ASSUME TypeOK, NEW s \in Server, NEW term \in 0..MaxTerm
    PROVE  /\ StateAfter(s, term) \in State
           /\ TermAfter(s, term) \in 0..MaxTerm
           /\ TermAfter(s, term) >= current_term[s]
           /\ TermAfter(s, term) >= term
           /\ VoteAfter(s, term) \in Server \cup {Nil}
           /\ TermAfter(s, term) = current_term[s] => VoteAfter(s, term) = voted_for[s]
           /\ StateAfter(s, term) \in {"CANDIDATE", "LEADER"} =>
                 /\ TermAfter(s, term) = current_term[s]
                 /\ StateAfter(s, term) = state[s]
  BY MaxTermAssumption DEF TypeOK, State, Running, StateAfter, TermAfter, VoteAfter

\* The first leader stays the only one of its term as long as servers come into office
\* in later terms only.
LEMMA FirstLeaderKept ==
    ASSUME TypeOK, FirstLeader, NEW s \in Server,
           \A t \in Server \ {s} : state'[t] = state[t] /\ current_term'[t] = current_term[t],
           current_term'[s] \in Nat, current_term'[s] >= current_term[s],
           state'[s] = "CANDIDATE" => current_term'[s] >= 2,
           state'[s] = "LEADER" => \/ state[s] = "LEADER" /\ current_term'[s] = current_term[s]
                                  \/ current_term'[s] >= 2
    PROVE  FirstLeader'
  BY VotingAssumption, MaxTermAssumption DEF TypeOK, FirstLeader

\* The initial states satisfy the invariant.
LEMMA InitInv == Init => Inv
<1> SUFFICES ASSUME Init PROVE Inv
  OBVIOUS
<1>1. PICK f \in Voting :
         /\ state = [s \in Server |-> IF s = f THEN "LEADER"
                                     ELSE IF s \in Voting THEN "FOLLOWER" ELSE "INIT_SERVER"]
         /\ current_term = [s \in Server |-> IF s \in Voting THEN 1 ELSE 0]
         /\ voted_for = [s \in Server |-> IF s = f THEN f ELSE Nil]
         /\ voted_for_me = [s \in Server |-> IF s = f THEN {f} ELSE {}]
         /\ rcv_votes = [s \in Server |-> IF s = f THEN 1 ELSE 0]
         /\ vote_reqs = {}
         /\ votes = {}
  BY DEF Init
<1>2. f \in Server
  BY VotingAssumption
<1>3. TypeOK
  BY <1>1, <1>2, MaxTermAssumption, VotingAssumption DEF TypeOK, State, Running
<1>4. VotesRecorded /\ VotesAgree
  BY <1>1 DEF VotesRecorded, VotesAgree
<1>5. VotesCounted
  <2>1. Cardinality({f}) = 1
    BY Zenon, FS_Singleton
  <2>2. \A s \in Server : state[s] \in {"CANDIDATE", "LEADER"} => s = f
    BY <1>1
  <2>3. voted_for[f] = f /\ voted_for_me[f] = {f} /\ rcv_votes[f] = 1 /\ current_term[f] = 1
    BY <1>1, <1>2
  <2> QED
    BY <2>1, <2>2, <2>3 DEF VotesCounted
<1>6. FirstLeader
  BY <1>1, VotingAssumption DEF FirstLeader
<1> QED
  BY <1>3, <1>4, <1>5, <1>6 DEF Inv

\* A step of become_candidate preserves the invariant.
LEMMA BecomeCandidateInv ==
    ASSUME Inv, NEW s \in Server, BecomeCandidate(s)
    PROVE  Inv'
<1> USE DEF Inv
<1>1. TypeOK'
  BY MaxTermAssumption, VotingAssumption DEF TypeOK, BecomeCandidate, State, Running
<1>2. VotesRecorded'
  BY MaxTermAssumption DEF TypeOK, BecomeCandidate, VotesRecorded
<1>3. VotesAgree'
  BY DEF BecomeCandidate, VotesAgree
<1>4. VotesCounted'
  <2> SUFFICES ASSUME NEW t \in Server, state'[t] \in {"CANDIDATE", "LEADER"}
               PROVE  /\ voted_for'[t] = t
                      /\ \A v \in voted_for_me'[t] \ {t} :
                            [src |-> v, dst |-> t, term |-> current_term'[t]] \in votes'
                      /\ rcv_votes'[t] = Cardinality(voted_for_me'[t])
                      /\ state'[t] = "LEADER" =>
                            HasMajorityOfVotes(rcv_votes'[t]) \/ current_term'[t] = 1
    BY DEF VotesCounted, HasMajorityOfVotes
  <2>1. CASE t = s
    <3>1. Cardinality({s}) = 1
      BY Zenon, FS_Singleton
    <3> QED
      BY <2>1, <3>1 DEF TypeOK, BecomeCandidate
  <2>2. CASE t # s
    BY <2>2 DEF TypeOK, BecomeCandidate, VotesCounted
  <2> QED
    BY <2>1, <2>2
<1>5. FirstLeader'
  <2>1. /\ current_term[s] \in Nat /\ current_term[s] >= 1 /\ current_term'[s] = current_term[s] + 1
        /\ \A t \in Server \ {s} : state'[t] = state[t] /\ current_term'[t] = current_term[t]
    BY MaxTermAssumption DEF TypeOK, BecomeCandidate, FirstLeader
  <2> QED
    BY <2>1, FirstLeaderKept
<1> QED
  BY <1>1, <1>2, <1>3, <1>4, <1>5

\* A step of handle_vote_request preserves the invariant: the reply agrees with the
\* vote just recorded, and that vote was free or already the candidate's.
LEMMA HandleVoteRequestInv ==
    ASSUME Inv, NEW s \in Server, NEW m \in vote_reqs,
           NEW log_ok \in BOOLEAN, NEW timed_out \in BOOLEAN,
           HandleVoteRequest(s, m, log_ok, timed_out)
    PROVE  Inv'
<1> USE DEF Inv
<1> DEFINE vote == IF log_ok /\ VoteAfter(s, m.term) = Nil
                   THEN m.src ELSE VoteAfter(s, m.term)
           refuse == \/ ~timed_out /\ StateAfter(s, m.term) = "FOLLOWER"
                     \/ m.term < current_term[s]
           reply == [src |-> s, dst |-> m.src, term |-> TermAfter(s, m.term)]
           newvote == IF refuse THEN VoteAfter(s, m.term) ELSE vote
<1>1. m.src \in Server /\ m.term \in 0..MaxTerm
  BY DEF TypeOK
<1>2. /\ state' = [state EXCEPT ![s] = StateAfter(s, m.term)]
      /\ current_term' = [current_term EXCEPT ![s] = TermAfter(s, m.term)]
      /\ voted_for' = [voted_for EXCEPT ![s] = newvote]
      /\ votes' = IF ~refuse /\ vote = m.src THEN votes \cup {reply} ELSE votes
      /\ UNCHANGED <<voted_for_me, rcv_votes, vote_reqs>>
  BY DEF HandleVoteRequest
<1>3. /\ StateAfter(s, m.term) \in State
      /\ TermAfter(s, m.term) \in 0..MaxTerm
      /\ TermAfter(s, m.term) >= current_term[s]
      /\ VoteAfter(s, m.term) \in Server \cup {Nil}
      /\ TermAfter(s, m.term) = current_term[s] => VoteAfter(s, m.term) = voted_for[s]
      /\ StateAfter(s, m.term) \in {"CANDIDATE", "LEADER"} =>
            TermAfter(s, m.term) = current_term[s] /\ StateAfter(s, m.term) = state[s]
  BY <1>1, MatchTerms
<1>4. newvote \in Server \cup {Nil}
  BY <1>1, <1>3
<1>5. TermAfter(s, m.term) = current_term[s] /\ voted_for[s] # Nil => newvote = voted_for[s]
  BY <1>3
<1>6. /\ voted_for'[s] = newvote
      /\ current_term'[s] = TermAfter(s, m.term)
      /\ state'[s] = StateAfter(s, m.term)
      /\ \A t \in Server \ {s} : /\ voted_for'[t] = voted_for[t]
                                 /\ current_term'[t] = current_term[t]
                                 /\ state'[t] = state[t]
  BY <1>2 DEF TypeOK
<1>7. votes \subseteq votes'
  BY <1>2
<1>8. ASSUME NEW n \in votes', n \notin votes
      PROVE  n = reply /\ newvote = m.src
  BY <1>2, <1>8
<1> HIDE DEF newvote, vote, refuse
<1>9. TypeOK'
  BY <1>1, <1>2, <1>3, <1>4 DEF TypeOK
<1>10. ASSUME NEW n \in votes'
       PROVE  /\ n.term <= current_term'[n.src]
              /\ n.term = current_term'[n.src] => voted_for'[n.src] = n.dst
  <2>1. CASE n \in votes
    <3>1. /\ n.term <= current_term[n.src]
          /\ n.term = current_term[n.src] => voted_for[n.src] = n.dst
          /\ n.src \in Server /\ n.dst \in Server
          /\ n.term \in 0..MaxTerm
      BY <2>1 DEF VotesRecorded, TypeOK
    <3> QED
      BY <3>1, <1>3, <1>5, <1>6, NilAssumption, MaxTermAssumption DEF TypeOK
  <2>2. CASE n \notin votes
    BY <2>2, <1>8, <1>6, <1>3, MaxTermAssumption
  <2> QED
    BY <2>1, <2>2
<1>11. VotesRecorded'
  BY <1>10 DEF VotesRecorded
<1>12. ASSUME NEW n \in votes', NEW k \in votes', n.src = k.src, n.term = k.term
       PROVE  n.dst = k.dst
  <2>1. CASE n \in votes /\ k \in votes
    BY <2>1, <1>12 DEF VotesAgree
  <2>2. CASE n \notin votes \/ k \notin votes
    BY <2>2, <1>12, <1>8, <1>10, <1>6
  <2> QED
    BY <2>1, <2>2
<1>13. VotesAgree'
  BY <1>12 DEF VotesAgree
<1>14. VotesCounted'
  <2> SUFFICES ASSUME NEW t \in Server, state'[t] \in {"CANDIDATE", "LEADER"}
               PROVE  /\ voted_for'[t] = t
                      /\ \A v \in voted_for_me'[t] \ {t} :
                            [src |-> v, dst |-> t, term |-> current_term'[t]] \in votes'
                      /\ rcv_votes'[t] = Cardinality(voted_for_me'[t])
                      /\ state'[t] = "LEADER" =>
                            HasMajorityOfVotes(rcv_votes'[t]) \/ current_term'[t] = 1
    BY DEF VotesCounted, HasMajorityOfVotes
  <2>1. state[t] = state'[t] /\ current_term'[t] = current_term[t]
    BY <1>3, <1>6
  <2>2. /\ voted_for[t] = t
        /\ \A v \in voted_for_me[t] \ {t} :
              [src |-> v, dst |-> t, term |-> current_term[t]] \in votes
        /\ rcv_votes[t] = Cardinality(voted_for_me[t])
        /\ state[t] = "LEADER" => HasMajorityOfVotes(rcv_votes[t]) \/ current_term[t] = 1
    BY <2>1 DEF VotesCounted
  <2>3. voted_for'[t] = t
    BY <2>1, <2>2, <1>5, <1>6, NilAssumption
  <2> QED
    BY <2>1, <2>2, <2>3, <1>2, <1>7
<1>15. FirstLeader'
  <2>1. current_term'[s] \in Nat /\ current_term'[s] >= current_term[s]
    BY <1>3, <1>6, MaxTermAssumption
  <2>2. state[s] = "CANDIDATE" => current_term[s] >= 2
    BY DEF FirstLeader
  <2> QED
    BY <1>3, <1>6, <2>1, <2>2, FirstLeaderKept
<1> QED
  BY <1>9, <1>11, <1>13, <1>14, <1>15

\* A step of handle_vote_reply preserves the invariant: a vote is counted together
\* with its flag, and only a vote that was sent.
LEMMA HandleVoteReplyInv ==
    ASSUME Inv, NEW m \in votes, HandleVoteReply(m)
    PROVE  Inv'
<1> USE DEF Inv
<1> DEFINE s == m.dst
           counted == /\ m.term = current_term[s]
                      /\ state[s] = "CANDIDATE"
                      /\ m.src \in Voting \ voted_for_me[s]
<1>1. /\ s \in Server /\ m.src \in Server /\ m.term \in 0..MaxTerm
      /\ m = [src |-> m.src, dst |-> s, term |-> m.term]
  BY DEF TypeOK
<1>2. /\ current_term' = [current_term EXCEPT ![s] = TermAfter(s, m.term)]
      /\ voted_for' = [voted_for EXCEPT ![s] = VoteAfter(s, m.term)]
      /\ UNCHANGED <<vote_reqs, votes>>
      /\ counted =>
            /\ voted_for_me' = [voted_for_me EXCEPT ![s] = @ \cup {m.src}]
            /\ rcv_votes' = [rcv_votes EXCEPT ![s] = @ + 1]
            /\ state' = [state EXCEPT ![s] = IF HasMajorityOfVotes(rcv_votes[s] + 1)
                                             THEN "LEADER" ELSE @]
      /\ ~counted =>
            /\ state' = [state EXCEPT ![s] = StateAfter(s, m.term)]
            /\ UNCHANGED <<voted_for_me, rcv_votes>>
  BY DEF HandleVoteReply
<1>3. /\ StateAfter(s, m.term) \in State
      /\ TermAfter(s, m.term) \in 0..MaxTerm
      /\ TermAfter(s, m.term) >= current_term[s]
      /\ VoteAfter(s, m.term) \in Server \cup {Nil}
      /\ TermAfter(s, m.term) = current_term[s] => VoteAfter(s, m.term) = voted_for[s]
      /\ StateAfter(s, m.term) \in {"CANDIDATE", "LEADER"} =>
            TermAfter(s, m.term) = current_term[s] /\ StateAfter(s, m.term) = state[s]
  BY <1>1, MatchTerms
<1>4. counted => TermAfter(s, m.term) = current_term[s]
  BY <1>1 DEF TermAfter, TypeOK
<1> HIDE DEF s
<1>5. TypeOK'
  <2>1. CASE counted
    BY <2>1, <1>1, <1>2, <1>3 DEF TypeOK, State, Running
  <2>2. CASE ~counted
    BY <2>2, <1>1, <1>2, <1>3 DEF TypeOK
  <2> QED
    BY <2>1, <2>2
<1>6. VotesRecorded'
  BY <1>1, <1>2, <1>3, MaxTermAssumption DEF VotesRecorded, TypeOK
<1>7. VotesAgree'
  BY <1>2 DEF VotesAgree
<1>8. VotesCounted'
  <2> SUFFICES ASSUME NEW t \in Server, state'[t] \in {"CANDIDATE", "LEADER"}
               PROVE  /\ voted_for'[t] = t
                      /\ \A v \in voted_for_me'[t] \ {t} :
                            [src |-> v, dst |-> t, term |-> current_term'[t]] \in votes'
                      /\ rcv_votes'[t] = Cardinality(voted_for_me'[t])
                      /\ state'[t] = "LEADER" =>
                            HasMajorityOfVotes(rcv_votes'[t]) \/ current_term'[t] = 1
    BY DEF VotesCounted, HasMajorityOfVotes
  <2>1. /\ state[t] \in {"CANDIDATE", "LEADER"}
        /\ current_term'[t] = current_term[t]
        /\ voted_for'[t] = voted_for[t]
    <3>1. CASE counted
      BY <3>1, <1>1, <1>2, <1>3, <1>4 DEF TypeOK
    <3>2. CASE ~counted
      BY <3>2, <1>1, <1>2, <1>3 DEF TypeOK
    <3> QED
      BY <3>1, <3>2
  <2>2. /\ voted_for[t] = t
        /\ \A v \in voted_for_me[t] \ {t} :
              [src |-> v, dst |-> t, term |-> current_term[t]] \in votes
        /\ rcv_votes[t] = Cardinality(voted_for_me[t])
        /\ state[t] = "LEADER" => HasMajorityOfVotes(rcv_votes[t]) \/ current_term[t] = 1
    BY <2>1 DEF VotesCounted
  <2>3. CASE counted /\ t = s
    <3>1. IsFiniteSet(voted_for_me[s])
      BY <1>1, VotingFinite DEF TypeOK
    <3>2. Cardinality(voted_for_me[s] \cup {m.src}) = Cardinality(voted_for_me[s]) + 1
      BY Zenon, <3>1, <2>3, FS_AddElement
    <3>3. /\ voted_for_me'[s] = voted_for_me[s] \cup {m.src}
          /\ rcv_votes'[s] = rcv_votes[s] + 1
          /\ state'[s] = IF HasMajorityOfVotes(rcv_votes[s] + 1)
                         THEN "LEADER" ELSE "CANDIDATE"
      BY <2>3, <1>1, <1>2 DEF TypeOK
    <3>4. [src |-> m.src, dst |-> s, term |-> current_term[s]] \in votes
      BY <2>3, <1>1
    <3> QED
      BY <2>1, <2>2, <2>3, <3>2, <3>3, <3>4, <1>2
  <2>4. CASE ~counted \/ t # s
    <3>1. /\ voted_for_me'[t] = voted_for_me[t]
          /\ rcv_votes'[t] = rcv_votes[t]
          /\ state'[t] = state[t]
      BY <2>4, <1>1, <1>2, <1>3 DEF TypeOK
    <3> QED
      BY <2>1, <2>2, <3>1, <1>2
  <2> QED
    BY <2>3, <2>4
<1>9. FirstLeader'
  <2>1. /\ current_term'[s] = TermAfter(s, m.term)
        /\ \A t \in Server \ {s} : state'[t] = state[t] /\ current_term'[t] = current_term[t]
        /\ state'[s] \in {StateAfter(s, m.term)} \/ counted
    BY <1>1, <1>2 DEF TypeOK
  <2>2. state[s] = "CANDIDATE" => current_term[s] >= 2
    BY <1>1 DEF FirstLeader
  <2>3. current_term'[s] \in Nat /\ current_term'[s] >= current_term[s]
    BY <1>3, <2>1, MaxTermAssumption
  <2>4. counted => current_term'[s] >= 2
    BY <1>4, <2>1, <2>2
  <2> HIDE DEF counted
  <2> QED
    BY <1>1, <1>3, <2>1, <2>2, <2>3, <2>4, FirstLeaderKept
<1> QED
  BY <1>5, <1>6, <1>7, <1>8, <1>9

\* The other handlers preserve the invariant, as does a stop.
LEMMA OtherInv ==
    ASSUME Inv, NEW s \in Server,
           (\E term \in 0..MaxTerm : HandleOtherMessage(s, term)) \/ Crash(s)
    PROVE  Inv'
<1> USE DEF Inv
<1>1. CASE Crash(s)
  <2>1. TypeOK'
    BY <1>1 DEF TypeOK, Crash, State
  <2>2. VotesRecorded' /\ VotesAgree'
    BY <1>1 DEF Crash, VotesRecorded, VotesAgree
  <2>3. VotesCounted'
    BY <1>1 DEF TypeOK, Crash, VotesCounted, HasMajorityOfVotes
  <2>4. FirstLeader'
    BY <1>1 DEF TypeOK, Crash, FirstLeader
  <2> QED
    BY <2>1, <2>2, <2>3, <2>4
<1>2. ASSUME NEW term \in 0..MaxTerm, HandleOtherMessage(s, term)
      PROVE  Inv'
  <2>1. PICK x \in {StateAfter(s, term), "FOLLOWER"} : state' = [state EXCEPT ![s] = x]
    BY <1>2 DEF HandleOtherMessage
  <2>2. /\ x \in State
        /\ TermAfter(s, term) \in 0..MaxTerm
        /\ TermAfter(s, term) >= current_term[s]
        /\ VoteAfter(s, term) \in Server \cup {Nil}
        /\ TermAfter(s, term) = current_term[s] => VoteAfter(s, term) = voted_for[s]
        /\ x \in {"CANDIDATE", "LEADER"} =>
              TermAfter(s, term) = current_term[s] /\ x = state[s]
    BY MatchTerms DEF State, Running
  <2>3. TypeOK'
    BY <1>2, <2>1, <2>2 DEF TypeOK, HandleOtherMessage
  <2>4. VotesRecorded'
    BY <1>2, <2>2, MaxTermAssumption DEF VotesRecorded, TypeOK, HandleOtherMessage
  <2>5. VotesAgree'
    BY <1>2 DEF VotesAgree, HandleOtherMessage
  <2>6. VotesCounted'
    BY <1>2, <2>1, <2>2 DEF VotesCounted, TypeOK, HandleOtherMessage, HasMajorityOfVotes
  <2>7. FirstLeader'
    <3>1. /\ current_term'[s] = TermAfter(s, term) /\ state'[s] = x
          /\ \A t \in Server \ {s} : state'[t] = state[t] /\ current_term'[t] = current_term[t]
      BY <1>2, <2>1 DEF TypeOK, HandleOtherMessage
    <3>2. state[s] = "CANDIDATE" => current_term[s] >= 2
      BY DEF FirstLeader
    <3>3. current_term'[s] \in Nat /\ current_term'[s] >= current_term[s]
      BY <2>2, <3>1, MaxTermAssumption
    <3> QED
      BY <2>2, <3>1, <3>2, <3>3, FirstLeaderKept
  <2> QED
    BY <2>3, <2>4, <2>5, <2>6, <2>7
<1> QED
  BY <1>1, <1>2

\* Inv is an invariant of every election.
THEOREM Invariance == Spec => []Inv
<1>1. Init => Inv
  BY InitInv
<1>2. Inv /\ [Next]_vars => Inv'
  <2> SUFFICES ASSUME Inv, [Next]_vars PROVE Inv'
    OBVIOUS
  <2>1. CASE UNCHANGED vars
    BY <2>1 DEF vars, Inv, TypeOK, VotesRecorded, VotesAgree, VotesCounted,
                HasMajorityOfVotes, FirstLeader
  <2>2. CASE \E s \in Server : BecomeCandidate(s) \/ Crash(s)
    BY <2>2, BecomeCandidateInv, OtherInv
  <2>3. CASE \E s \in Server, term \in 0..MaxTerm : HandleOtherMessage(s, term)
    BY <2>3, OtherInv
  <2>4. CASE \E s \in Server, m \in vote_reqs, log_ok, timed_out \in BOOLEAN :
                HandleVoteRequest(s, m, log_ok, timed_out)
    BY <2>4, HandleVoteRequestInv
  <2>5. CASE \E m \in votes : HandleVoteReply(m)
    BY <2>5, HandleVoteReplyInv
  <2> QED
    BY <2>1, <2>2, <2>3, <2>4, <2>5 DEF Next
<1> QED
  BY <1>1, <1>2, PTL DEF Spec

\* Under Inv a server voted for one candidate of a term, wherever the traces of the
\* vote are.
LEMMA InvOneVote == Inv => OneVotePerTerm
<1> SUFFICES ASSUME Inv,
                    NEW v \in Server, NEW s \in Server, NEW t \in Server,
                    NEW term \in 0..MaxTerm, Vote(v, s, term), Vote(v, t, term)
             PROVE  s = t
  BY DEF OneVotePerTerm
<1>1. ASSUME NEW c \in Server, Vote(v, c, term)
      PROVE  \/ current_term[v] = term /\ voted_for[v] = c
             \/ [src |-> v, dst |-> c, term |-> term] \in votes
  BY <1>1 DEF Vote, Inv, VotesCounted
<1>2. ASSUME NEW c \in Server, [src |-> v, dst |-> c, term |-> term] \in votes,
             term = current_term[v]
      PROVE  voted_for[v] = c
  BY <1>2 DEF Inv, VotesRecorded
<1>3. CASE current_term[v] = term
  BY Zenon, <1>1, <1>2, <1>3
<1>4. CASE current_term[v] # term
  BY Zenon, <1>1, <1>4 DEF Inv, VotesAgree
<1> QED
  BY <1>3, <1>4

\* One vote per term and server (handle_vote_request), for any number of servers.
THEOREM OneVote == Spec => []OneVotePerTerm
  BY Invariance, InvOneVote, PTL

\* At most one leader per term (become_leader), for any number of servers.
THEOREM Safety == Spec => []ElectionSafety
<1>1. Inv => ElectionSafety
  <2> SUFFICES ASSUME Inv, NEW s \in Server, NEW t \in Server,
                      state[s] = "LEADER", state[t] = "LEADER",
                      current_term[s] = current_term[t]
               PROVE  s = t
    BY DEF ElectionSafety
  <2>1. /\ voted_for_me[s] \subseteq Voting /\ voted_for_me[t] \subseteq Voting
        /\ current_term[s] \in 0..MaxTerm
    BY DEF Inv, TypeOK
  <2>a. CASE current_term[s] = 1
    BY <2>a DEF Inv, FirstLeader
  <2>b. SUFFICES ASSUME current_term[s] # 1 PROVE s = t
    BY <2>a
  <2>2. /\ Cardinality(voted_for_me[s]) > Cardinality(Voting) \div 2
        /\ Cardinality(voted_for_me[t]) > Cardinality(Voting) \div 2
    BY <2>b DEF Inv, VotesCounted, HasMajorityOfVotes
  <2>3. Cardinality(voted_for_me[s]) + Cardinality(voted_for_me[t]) > Cardinality(Voting)
    BY <2>1, <2>2, VotingFinite
  <2>4. PICK v : v \in voted_for_me[s] /\ v \in voted_for_me[t]
    BY <2>1, <2>3, VotingFinite, FS_MajoritiesIntersect
  <2>5. v \in Server
    BY <2>1, <2>4, VotingAssumption
  <2>6. Vote(v, s, current_term[s]) /\ Vote(v, t, current_term[s])
    BY <2>4 DEF Vote
  <2> QED
    BY <2>1, <2>5, <2>6, InvOneVote DEF OneVotePerTerm
<1> QED
  BY Invariance, <1>1, PTL

\* The fatal exit of has_majority_of_votes is never taken, for any number of servers.
THEOREM WithinConfig == Spec => []VotesWithinConfig
<1>1. Inv => VotesWithinConfig
  BY VotingFinite DEF Inv, TypeOK, VotesCounted, VotesWithinConfig
<1> QED
  BY Invariance, <1>1, PTL

=============================================================================
