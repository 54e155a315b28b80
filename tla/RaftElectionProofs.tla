------------------------ MODULE RaftElectionProofs ------------------------
(***************************************************************************)
(* A formed cluster whose membership does not change, for any number of    *)
(* servers and any bounds: its servers run the election of module          *)
(* Election, and so there is one leader per term.                          *)
(***************************************************************************)
EXTENDS RaftProofs, RaftRefinement

\* No server is suspected, found unreachable or restarted.
ConfigStable == Suspects = {} /\ Unreachable = {} /\ Restartable = {}

\* A server of the cluster: all servers are its voting members, the first K entries
\* of its log are committed and the rest is no command.  As a leader it sends no entry
\* up to K.
Member(n, K) ==
    /\ n.servers = Server /\ n.voting = Server
    /\ n.state \in {"FOLLOWER", "CANDIDATE", "LEADER", "DOWN"}
    /\ n.current_term <= MaxTerm
    /\ n.commit_index >= K
    /\ \A i \in K+1..Len(n.log) : n.log[i].command = "RAFT_NOOP"
    /\ n.state = "LEADER" => \A x \in Server \ {n.self_id} : n.next_index[x] > K

PlainReq == {m \in AppendReq : m.term <= MaxTerm /\ NoopsOnly(m.entries)}
PlainReply(K) == {m \in AppendReply : m.term <= MaxTerm /\ m.last_log_index >= K}

PlainMessages(K) ==
    /\ \A m \in vote_reqs \cup vote_replies : m.term <= MaxTerm
    /\ reqs \in [Server -> [Server -> Seq(PlainReq)]]
    /\ replies \in [Server -> [Server -> Seq(PlainReply(K))]]
    /\ joins = {}

\* The invariant of the stable cluster.
SInv(K) == (\A s \in Server : Member(node[s], K)) /\ PlainMessages(K)

-----------------------------------------------------------------------------
(* The functions of RaftNode in a stable cluster                           *)

LEMMA MemberKept ==
    ASSUME NEW K \in Nat, NEW n \in Node, Member(n, K), NEW m \in Node,
           m.servers = n.servers, m.voting = n.voting, m.self_id = n.self_id,
           m.log = n.log, m.commit_index >= n.commit_index, m.current_term <= MaxTerm,
           m.state \in {"FOLLOWER", "CANDIDATE", "LEADER", "DOWN"},
           m.state = "LEADER" => n.state = "LEADER" /\ m.next_index = n.next_index
    PROVE  Member(m, K)
<1>1. m.commit_index >= K
  BY DEF Member, Node
<1> QED
  BY Zenon, <1>1 DEF Member

\* For the election n becomes m by a message with the given term.
Hears(n, m, term) ==
    /\ m.state \in {MatchTerms(n, term).state, "FOLLOWER"}
    /\ m.current_term = MatchTerms(n, term).current_term
    /\ m.voted_for = MatchTerms(n, term).voted_for
    /\ m.voted_for_me = n.voted_for_me /\ m.rcv_votes = n.rcv_votes

LEMMA MatchTermsMember ==
    ASSUME NEW K \in Nat, NEW n \in Node, Member(n, K), NEW term \in Nat, term <= MaxTerm
    PROVE  Member(MatchTerms(n, term), K) /\ Hears(n, MatchTerms(n, term), term)
<1> DEFINE m == MatchTerms(n, term)
<1>1. /\ m \in Node
      /\ m.current_term = IF term > n.current_term THEN term ELSE n.current_term
      /\ m.state = IF term > n.current_term /\ n.state \in {"LEADER", "CANDIDATE"}
                   THEN "FOLLOWER" ELSE n.state
      /\ m.log = n.log /\ m.servers = n.servers /\ m.voting = n.voting
      /\ m.next_index = n.next_index /\ m.self_id = n.self_id
      /\ m.commit_index = n.commit_index
      /\ m.voted_for_me = n.voted_for_me /\ m.rcv_votes = n.rcv_votes
  BY Zenon, MatchTermsIs
<1>2. Hears(n, m, term)
  BY Zenon, <1>1 DEF Hears
<1> HIDE DEF m
<1>3. /\ m.current_term <= MaxTerm /\ m.commit_index >= n.commit_index
      /\ m.state \in {"FOLLOWER", "CANDIDATE", "LEADER", "DOWN"}
      /\ m.state = "LEADER" => n.state = "LEADER"
  BY <1>1 DEF Member, Node
<1>4. Member(m, K)
  BY Zenon, <1>1, <1>3, MemberKept
<1> QED
  BY <1>2, <1>4 DEF m

\* A message of the present term.
LEMMA SameTerm ==
    ASSUME NEW n \in Node
    PROVE  n.current_term \in Nat /\ MatchTerms(n, n.current_term) = n
BY DEF MatchTerms, Node

LEMMA HearsOn ==
    ASSUME NEW n, NEW m, NEW term, Hears(n, m, term), NEW k,
           k.state = m.state \/ k.state = "FOLLOWER",
           k.current_term = m.current_term, k.voted_for = m.voted_for,
           k.voted_for_me = m.voted_for_me, k.rcv_votes = m.rcv_votes
    PROVE  Hears(n, k, term)
BY Zenon DEF Hears

\* become_leader appends a NOOP, and will send what comes after it.
LEMMA BecomeLeaderMember ==
    ASSUME NEW K \in Nat, NEW n \in Node, n.commit_index <= Len(n.log), Member(n, K)
    PROVE  Member(BecomeLeader(n), K)
<1> DEFINE m == BecomeLeader(n)
<1>1. /\ m \in Node
      /\ m.state = "LEADER"
      /\ m.log = Append(n.log, Noop(n.current_term))
      /\ m.next_index = [x \in Server |-> IF x \in n.servers THEN Len(n.log) + 2 ELSE 1]
      /\ m.servers = n.servers /\ m.voting = n.voting
      /\ m.current_term = n.current_term /\ m.commit_index = n.commit_index
  BY Zenon, BecomeLeaderIs
<1> HIDE DEF m
<1>2. /\ n.log \in Seq(Entry) /\ Len(n.log) \in Nat /\ n.commit_index \in Nat
      /\ n.commit_index >= K /\ Noop(n.current_term).command = "RAFT_NOOP"
  BY DEF Member, Node, Noop
<1>3. \A i \in K+1..Len(m.log) : m.log[i].command = "RAFT_NOOP"
  BY <1>1, <1>2 DEF Member
<1>4. \A x \in Server : m.next_index[x] > K
  BY <1>1, <1>2 DEF Member
<1> QED
  BY Zenon, <1>1, <1>3, <1>4 DEF Member, m

\* check_raft_log_consistency removes NOOPs only.
LEMMA RemoveEntriesMember ==
    ASSUME NEW K \in Nat, NEW n \in Node, Member(n, K),
           NEW kept \in n.commit_index .. Len(n.log)
    PROVE  LET m == RemoveEntries(n, kept) IN
           /\ m \in Node /\ Member(m, K)
           /\ m.state = n.state /\ m.current_term = n.current_term
           /\ m.voted_for = n.voted_for /\ m.voted_for_me = n.voted_for_me
           /\ m.rcv_votes = n.rcv_votes
           /\ m.commit_index = n.commit_index /\ m.log = SubSeq(n.log, 1, kept)
<1> DEFINE m == RemoveEntries(n, kept)
           X == Back(n, kept) \cup Gone(n, kept)
<1>0. /\ n.log \in Seq(Entry) /\ Len(n.log) \in Nat /\ n.commit_index \in Nat
      /\ n.commit_index >= K
  BY DEF Member, Node
<1>1. kept \in 0..Len(n.log) /\ kept >= K
  BY <1>0
<1>2. Back(n, kept) = {} /\ Gone(n, kept) = {}
  <2>1. NoopsOnly(Cut(n, kept))
    <3>1. ASSUME NEW i \in DOMAIN Cut(n, kept) PROVE Cut(n, kept)[i].command = "RAFT_NOOP"
      <4>1. i \in Nat /\ kept + i \in kept+1..Len(n.log) /\ Cut(n, kept)[i] = n.log[kept + i]
        BY <1>0, <1>1, <3>1 DEF Cut
      <4>2. kept + i \in K+1..Len(n.log)
        BY <1>0, <1>1, <4>1
      <4> QED
        BY <4>1, <4>2 DEF Member
    <3> QED
      BY <3>1 DEF NoopsOnly
  <2> QED
    BY <2>1 DEF Back, Gone, FirstIs, NoopsOnly
<1>3. /\ m \in Node
      /\ m.log = SubSeq(n.log, 1, kept)
      /\ m.servers = (n.servers \ X) \cup Back(n, kept)
      /\ m.voting = (n.voting \ X) \cup Back(n, kept)
      /\ m.next_index = [x \in Server |-> IF x \in X THEN 1 ELSE n.next_index[x]]
      /\ m.voted_for_me = n.voted_for_me \ X
      /\ m.self_id = n.self_id /\ m.state = n.state
      /\ m.current_term = n.current_term /\ m.voted_for = n.voted_for
      /\ m.rcv_votes = n.rcv_votes /\ m.commit_index = n.commit_index
  BY Zenon, <1>1, RemoveEntriesIs
<1> HIDE DEF m
<1>4. /\ m.servers = n.servers /\ m.voting = n.voting /\ m.voted_for_me = n.voted_for_me
      /\ \A x \in Server : m.next_index[x] = n.next_index[x]
  BY <1>2, <1>3
<1>5. \A i \in K+1..Len(m.log) : m.log[i].command = "RAFT_NOOP"
  BY <1>0, <1>1, <1>3 DEF Member
<1>6. Member(m, K)
  BY Zenon, <1>3, <1>4, <1>5 DEF Member
<1> QED
  BY Zenon, <1>3, <1>4, <1>6 DEF m

LEMMA AppendEntriesMember ==
    ASSUME NEW K \in Nat, NEW n \in Node, Member(n, K), n.commit_index <= Len(n.log),
           NEW es \in Seq(Entry), NoopsOnly(es)
    PROVE  LET m == AppendEntries(n, es) IN
           /\ m \in Node /\ Member(m, K) /\ m.commit_index <= Len(m.log)
           /\ m.state = n.state /\ m.current_term = n.current_term
           /\ m.voted_for = n.voted_for /\ m.voted_for_me = n.voted_for_me
           /\ m.rcv_votes = n.rcv_votes
<1> DEFINE m == AppendEntries(n, es)
<1>1. /\ m \in Node
      /\ m.log = n.log \o es
      /\ m.servers = n.servers /\ m.voting = n.voting
      /\ m.next_index = n.next_index /\ m.voted_for_me = n.voted_for_me
      /\ m.self_id = n.self_id /\ m.state = n.state
      /\ m.current_term = n.current_term /\ m.voted_for = n.voted_for
      /\ m.rcv_votes = n.rcv_votes /\ m.commit_index = n.commit_index
  BY Zenon, NoopsAppended
<1> HIDE DEF m
<1>2. n.log \in Seq(Entry) /\ Len(n.log) \in Nat /\ n.commit_index \in Nat
  BY DEF Node
<1>3. m.commit_index <= Len(m.log)
  BY <1>1, <1>2
<1>4. ASSUME NEW i \in K+1..Len(m.log) PROVE m.log[i].command = "RAFT_NOOP"
  <2>1. CASE i <= Len(n.log)
    BY <1>1, <1>2, <1>4, <2>1 DEF Member
  <2>2. CASE ~(i <= Len(n.log))
    <3>1. i - Len(n.log) \in DOMAIN es /\ m.log[i] = es[i - Len(n.log)]
      BY <1>1, <1>2, <1>4, <2>2
    <3> QED
      BY <3>1 DEF NoopsOnly
  <2> QED
    BY <2>1, <2>2
<1>5. Member(m, K)
  BY Zenon, <1>1, <1>4 DEF Member
<1> QED
  BY Zenon, <1>1, <1>3, <1>5 DEF m

LEMMA CommitLogEntriesMember ==
    ASSUME NEW K \in Nat, NEW n \in Node, Member(n, K), n.commit_index <= Len(n.log),
           NEW new \in Nat
    PROVE  LET m == CommitLogEntries(n, new) IN
           /\ m \in Node /\ Member(m, K) /\ m.commit_index <= Len(m.log)
           /\ m.state = n.state \/ m.state = "FOLLOWER"
           /\ m.current_term = n.current_term
           /\ m.voted_for = n.voted_for /\ m.voted_for_me = n.voted_for_me
           /\ m.rcv_votes = n.rcv_votes
<1> DEFINE m == CommitLogEntries(n, new)
           index == NewCommitIndex(n, new)
<1>1. /\ m \in Node
      /\ m.commit_index >= n.commit_index /\ m.commit_index <= Len(n.log)
      /\ m.state = IF index > n.commit_index /\ Joins(n, index)
                   THEN "FOLLOWER" ELSE n.state
      /\ m.log = n.log /\ m.servers = n.servers /\ m.voting = n.voting
      /\ m.next_index = n.next_index /\ m.voted_for_me = n.voted_for_me
      /\ m.self_id = n.self_id
      /\ m.current_term = n.current_term /\ m.voted_for = n.voted_for
      /\ m.rcv_votes = n.rcv_votes
  BY Zenon, CommitLogEntriesIs
<1> HIDE DEF m, index
<1>2. /\ m.state = n.state \/ m.state = "FOLLOWER"
      /\ m.state \in {"FOLLOWER", "CANDIDATE", "LEADER", "DOWN"}
      /\ m.state = "LEADER" => n.state = "LEADER"
      /\ m.current_term <= MaxTerm
  BY <1>1 DEF Member
<1>3. Member(m, K)
  BY Zenon, <1>1, <1>2, MemberKept
<1> QED
  BY Zenon, <1>1, <1>2, <1>3 DEF m

\* A leader that counts a reply.
LEMMA CountedMember ==
    ASSUME NEW K \in Nat, NEW n \in Node, Member(n, K), NEW t \in Server,
           NEW last \in Nat, last >= K, NEW match \in Nat
    PROVE  LET m == Counted(n, t, last, match) IN
           /\ m \in Node /\ Member(m, K)
           /\ m.state = n.state /\ m.current_term = n.current_term
           /\ m.voted_for = n.voted_for /\ m.voted_for_me = n.voted_for_me
           /\ m.rcv_votes = n.rcv_votes
           /\ m.log = n.log /\ m.commit_index = n.commit_index
<1> DEFINE m == Counted(n, t, last, match)
<1>1. /\ m \in Node
      /\ m.voted_for = n.voted_for
      /\ m.voted_for_me = n.voted_for_me /\ m.rcv_votes = n.rcv_votes
      /\ m.state = n.state /\ m.current_term = n.current_term
      /\ m.log = n.log /\ m.commit_index = n.commit_index /\ m.self_id = n.self_id
      /\ m.servers = n.servers /\ m.voting = n.voting
  BY CountedIs
<1>2. \A x \in Server : m.next_index[x] = IF x = t THEN last + 1 ELSE n.next_index[x]
  BY CountedIndexes
<1> HIDE DEF m
<1>3. n.state = "LEADER" => \A x \in Server \ {n.self_id} : m.next_index[x] > K
  BY <1>2 DEF Member
<1>4. Member(m, K)
  BY Zenon, <1>1, <1>3 DEF Member
<1> QED
  BY Zenon, <1>1, <1>4 DEF m

-----------------------------------------------------------------------------
(* The steps of the servers as steps of the election                       *)

LEMMA Views ==
    ASSUME NodesSane, NEW s \in Server, NEW m, node' = [node EXCEPT ![s] = m]
    PROVE  /\ Roles' = [Roles EXCEPT ![s] = m.state]
           /\ Terms' = [Terms EXCEPT ![s] = m.current_term]
           /\ VotesGiven' = [VotesGiven EXCEPT ![s] = m.voted_for]
           /\ VotesTaken' = [VotesTaken EXCEPT ![s] = m.voted_for_me]
           /\ VoteCounts' = [VoteCounts EXCEPT ![s] = m.rcv_votes]
BY Zenon DEF Roles, Terms, VotesGiven, VotesTaken, VoteCounts, NodesSane

LEMMA ViewOf ==
    ASSUME NEW s \in Server
    PROVE  /\ Roles[s] = node[s].state /\ Terms[s] = node[s].current_term
           /\ VotesGiven[s] = node[s].voted_for /\ VotesTaken[s] = node[s].voted_for_me
           /\ VoteCounts[s] = node[s].rcv_votes
BY DEF Roles, Terms, VotesGiven, VotesTaken, VoteCounts

LEMMA ViewTypes ==
    /\ Roles = [s \in Server |-> Roles[s]] /\ Terms = [s \in Server |-> Terms[s]]
    /\ VotesGiven = [s \in Server |-> VotesGiven[s]]
    /\ VotesTaken = [s \in Server |-> VotesTaken[s]]
    /\ VoteCounts = [s \in Server |-> VoteCounts[s]]
BY DEF Roles, Terms, VotesGiven, VotesTaken, VoteCounts

\* match_terms is the election's: what it makes of n is what the election says.
LEMMA MatchTermsView ==
    ASSUME NodesSane, NEW s \in Server, NEW term \in Nat
    PROVE  LET m == MatchTerms(node[s], term) IN
           /\ m.state = E!StateAfter(s, term)
           /\ m.current_term = E!TermAfter(s, term)
           /\ m.voted_for = E!VoteAfter(s, term)
<1> DEFINE n == node[s]
           m == MatchTerms(n, term)
<1>1. n \in Node
  BY DEF NodesSane
<1>2. /\ m.current_term = IF term > n.current_term THEN term ELSE n.current_term
      /\ m.voted_for = IF term > n.current_term THEN Nil ELSE n.voted_for
      /\ m.state = IF term > n.current_term /\ n.state \in {"LEADER", "CANDIDATE"}
                   THEN "FOLLOWER" ELSE n.state
  BY Zenon, <1>1, MatchTermsIs
<1>3. Roles[s] = n.state /\ Terms[s] = n.current_term /\ VotesGiven[s] = n.voted_for
  BY Zenon, ViewOf
<1> HIDE DEF n, m
<1> QED
  BY Zenon, <1>2, <1>3 DEF E!StateAfter, E!TermAfter, E!VoteAfter, n, m

\* A server that hears of a term.
LEMMA HearsStep ==
    ASSUME NodesSane, NEW s \in Server, IsRunning(s), NEW m,
           node' = [node EXCEPT ![s] = m], NEW term \in Nat, term <= MaxTerm,
           Hears(node[s], m, term), Asked' = Asked, Granted' = Granted
    PROVE  E!Next
<1>1. /\ Roles' = [Roles EXCEPT ![s] = m.state]
      /\ Terms' = [Terms EXCEPT ![s] = m.current_term]
      /\ VotesGiven' = [VotesGiven EXCEPT ![s] = m.voted_for]
      /\ VotesTaken' = [VotesTaken EXCEPT ![s] = m.voted_for_me]
      /\ VoteCounts' = [VoteCounts EXCEPT ![s] = m.rcv_votes]
  BY Zenon, Views
<1>2. /\ m.state \in {E!StateAfter(s, term), "FOLLOWER"}
      /\ m.current_term = E!TermAfter(s, term) /\ m.voted_for = E!VoteAfter(s, term)
      /\ m.voted_for_me = VotesTaken[s] /\ m.rcv_votes = VoteCounts[s]
  BY Zenon, MatchTermsView, ViewOf DEF Hears
<1>3. VotesTaken' = VotesTaken /\ VoteCounts' = VoteCounts
  BY Zenon, <1>1, <1>2, ViewTypes
<1>4. Roles[s] \in E!Running
  BY ViewOf DEF IsRunning, Running, E!Running
<1>5. Roles' \in {[Roles EXCEPT ![s] = x] : x \in {E!StateAfter(s, term), "FOLLOWER"}}
  BY Zenon, <1>1, <1>2
<1>6. E!HandleOtherMessage(s, term)
  BY Zenon, <1>1, <1>2, <1>3, <1>4, <1>5 DEF E!HandleOtherMessage
<1>7. term \in 0..MaxTerm
  BY BoundAssumption
<1> QED
  BY Zenon, <1>6, <1>7 DEF E!Next

\* A server that stops.
LEMMA ExitEStep ==
    ASSUME NodesSane, NEW s \in Server, IsRunning(s), Exit(s)
    PROVE  E!Next
<1> DEFINE m == [node[s] EXCEPT !.state = "DOWN"]
<1>1. node' = [node EXCEPT ![s] = m] /\ UNCHANGED votes_vars
  BY DEF Exit, NodesSane
<1>2. /\ m.state = "DOWN" /\ m.current_term = Terms[s] /\ m.voted_for = VotesGiven[s]
      /\ m.voted_for_me = VotesTaken[s] /\ m.rcv_votes = VoteCounts[s]
  BY ViewOf DEF NodesSane, Node
<1> HIDE DEF m
<1>3. /\ Roles' = [Roles EXCEPT ![s] = m.state]
      /\ Terms' = [Terms EXCEPT ![s] = m.current_term]
      /\ VotesGiven' = [VotesGiven EXCEPT ![s] = m.voted_for]
      /\ VotesTaken' = [VotesTaken EXCEPT ![s] = m.voted_for_me]
      /\ VoteCounts' = [VoteCounts EXCEPT ![s] = m.rcv_votes]
  BY Zenon, <1>1, Views
<1>4. /\ Roles' = [Roles EXCEPT ![s] = "DOWN"] /\ Terms' = Terms
      /\ VotesGiven' = VotesGiven /\ VotesTaken' = VotesTaken /\ VoteCounts' = VoteCounts
  BY Zenon, <1>2, <1>3, ViewTypes
<1>5. Asked' = Asked /\ Granted' = Granted
  BY <1>1 DEF Asked, Granted, votes_vars
<1>6. Roles[s] \in E!Running
  BY ViewOf DEF IsRunning, Running, E!Running
<1>7. E!Crash(s)
  BY Zenon, <1>4, <1>5, <1>6 DEF E!Crash
<1> QED
  BY Zenon, <1>7 DEF E!Next

LEMMA SizeIs == E!Cardinality(Server) = Cardinality(Server)
BY Zenon DEF Cardinality, E!Cardinality

LEMMA MajorityIs ==
    ASSUME NEW n, n.voting = Server
    PROVE  HasMajorityOfVotes(n) <=> E!HasMajorityOfVotes(n.rcv_votes)
BY SizeIs DEF HasMajorityOfVotes, E!HasMajorityOfVotes

-----------------------------------------------------------------------------
(* Every step keeps the invariant, and is one of the election's            *)

StableStep(K) == E!Next /\ SInv(K)'

LEMMA MembersKept ==
    ASSUME NEW K \in Nat, NodesSane, \A x \in Server : Member(node[x], K),
           NEW s \in Server, NEW m, Member(m, K), node' = [node EXCEPT ![s] = m]
    PROVE  \A x \in Server : Member(node'[x], K)
<1>1. \A x \in Server : node'[x] = IF x = s THEN m ELSE node[x]
  BY DEF NodesSane
<1> QED
  BY Zenon, <1>1

LEMMA MessagesKept ==
    ASSUME NEW K \in Nat, PlainMessages(K), UNCHANGED <<votes_vars, append_vars, join_vars>>
    PROVE  PlainMessages(K)' /\ Asked' = Asked /\ Granted' = Granted
BY DEF PlainMessages, votes_vars, append_vars, join_vars, Asked, Granted

LEMMA ExitStable ==
    ASSUME NEW K \in Nat, IInv, SInv(K), NEW s \in Server, IsRunning(s), Exit(s)
    PROVE  StableStep(K)
<1> DEFINE n == node[s]
           m == [n EXCEPT !.state = "DOWN"]
<1>1. n \in Node /\ Member(n, K)
  BY DEF IInv, NodesSane, SInv
<1>2. node' = [node EXCEPT ![s] = m]
  BY DEF Exit, IInv, NodesSane
<1>3. /\ m.state = "DOWN" /\ m.servers = n.servers /\ m.voting = n.voting
      /\ m.current_term = n.current_term /\ m.commit_index = n.commit_index /\ m.log = n.log
  BY <1>1 DEF Node
<1> HIDE DEF n, m
<1>4. Member(m, K)
  BY <1>1, <1>3 DEF Member
<1>5. \A x \in Server : Member(node'[x], K)
  BY Zenon, <1>2, <1>4, MembersKept DEF IInv, SInv
<1>6. /\ reqs \in [Server -> [Server -> Seq(PlainReq)]]
      /\ replies \in [Server -> [Server -> Seq(PlainReply(K))]]
      /\ \A x \in vote_reqs \cup vote_replies : x.term <= MaxTerm
      /\ joins = {}
  BY Zenon DEF SInv, PlainMessages
<1>7. reqs' \in [Server -> [Server -> Seq(PlainReq)]]
  BY <1>6 DEF Exit, LoseMessagesTo
<1>8. replies' \in [Server -> [Server -> Seq(PlainReply(K))]]
  BY <1>6 DEF Exit, LoseMessagesTo
<1>9. PlainMessages(K)'
  <2>1. joins' = {} /\ vote_reqs' = vote_reqs /\ vote_replies' = vote_replies
    BY <1>6 DEF Exit, LoseMessagesTo, votes_vars
  <2>2. \A x \in vote_reqs' \cup vote_replies' : x.term <= MaxTerm
    BY Zenon, <1>6, <2>1
  <2> QED
    BY Zenon, <1>7, <1>8, <2>1, <2>2 DEF PlainMessages
<1>10. E!Next
  BY Zenon, ExitEStep DEF IInv
<1> QED
  BY Zenon, <1>5, <1>9, <1>10 DEF StableStep, SInv

\* A server that hears of a term, and no vote message is sent.
LEMMA HearsStable ==
    ASSUME NEW K \in Nat, IInv, SInv(K), NEW s \in Server, IsRunning(s), NEW m, Member(m, K),
           node' = [node EXCEPT ![s] = m], NEW term \in Nat, term <= MaxTerm,
           Hears(node[s], m, term), Asked' = Asked, Granted' = Granted, PlainMessages(K)'
    PROVE  StableStep(K)
<1>1. \A x \in Server : Member(node'[x], K)
  BY Zenon, MembersKept DEF IInv, SInv
<1>2. E!Next
  BY Zenon, HearsStep DEF IInv
<1> QED
  BY Zenon, <1>1, <1>2 DEF StableStep, SInv

LEMMA BecomeCandidateStable ==
    ASSUME NEW K \in Nat, IInv, SInv(K), NEW s \in Server, BecomeCandidate(s)
    PROVE  StableStep(K)
<1> DEFINE n == [node[s] EXCEPT !.state = "CANDIDATE", !.current_term = @ + 1,
                                !.voted_for = s, !.rcv_votes = 1, !.voted_for_me = {s}]
           req == [src |-> s, term |-> n.current_term, last_log_index |-> Len(n.log),
                   last_log_term |-> LastLogTerm(n)]
<1>1. /\ node[s] \in Node /\ Sane(node[s]) /\ Member(node[s], K)
      /\ node[s].voting = Server /\ node[s].current_term \in Nat
  BY SaneTypes DEF IInv, NodesSane, SInv, Member
<1>2. /\ n \in Node
      /\ n.state = "CANDIDATE" /\ n.current_term = node[s].current_term + 1
      /\ n.voted_for = s /\ n.rcv_votes = 1 /\ n.voted_for_me = {s}
      /\ n.log = node[s].log /\ n.commit_index = node[s].commit_index
      /\ n.self_id = node[s].self_id /\ n.servers = node[s].servers
      /\ n.voting = node[s].voting
  <2>1. /\ n \in Node /\ n.log = node[s].log /\ n.commit_index = node[s].commit_index
        /\ n.self_id = node[s].self_id /\ n.servers = node[s].servers
        /\ n.voting = node[s].voting
    BY Zenon, <1>1, CandidateIs
  <2>2. /\ n.state = "CANDIDATE" /\ n.current_term = node[s].current_term + 1
        /\ n.voted_for = s /\ n.rcv_votes = 1 /\ n.voted_for_me = {s}
    BY <1>1 DEF Node
  <2> QED
    BY Zenon, <2>1, <2>2
<1>3. /\ IF HasMajorityOfVotes(n)
         THEN node' = [node EXCEPT ![s] = BecomeLeader(n)] /\ UNCHANGED vote_reqs
         ELSE node' = [node EXCEPT ![s] = n] /\ vote_reqs' = vote_reqs \cup {req}
      /\ UNCHANGED <<vote_replies, append_vars, join_vars>>
  BY Zenon, <1>1 DEF BecomeCandidate
<1> HIDE DEF n
<1>4. n.current_term <= MaxTerm /\ n.commit_index <= Len(n.log)
      /\ n.commit_index >= node[s].commit_index
  <2>1. node[s].current_term < MaxTerm
    BY DEF BecomeCandidate
  <2>2. node[s].commit_index <= Len(node[s].log) /\ node[s].commit_index \in Nat
    BY <1>1 DEF Sane, Node
  <2> QED
    BY <1>1, <1>2, <2>1, <2>2, BoundAssumption
<1>5. Member(n, K)
  BY <1>1, <1>2, <1>4, MemberKept
<1> DEFINE l == BecomeLeader(n)
<1>6. Member(l, K)
  BY Zenon, <1>2, <1>4, <1>5, BecomeLeaderMember
<1>7. /\ l.state = "LEADER" /\ l.voted_for_me = n.voted_for_me
      /\ l.current_term = n.current_term /\ l.voted_for = n.voted_for
      /\ l.rcv_votes = n.rcv_votes
  BY Zenon, <1>2, BecomeLeaderIs
<1> HIDE DEF l
<1> DEFINE m == IF HasMajorityOfVotes(n) THEN l ELSE n
<1>8. node' = [node EXCEPT ![s] = m] /\ Member(m, K)
  BY Zenon, <1>3, <1>5, <1>6 DEF l
<1>9. /\ m.state = IF E!HasMajorityOfVotes(1) THEN "LEADER" ELSE "CANDIDATE"
      /\ m.current_term = node[s].current_term + 1 /\ m.voted_for = s
      /\ m.voted_for_me = {s} /\ m.rcv_votes = 1
  <2>1. HasMajorityOfVotes(n) <=> E!HasMajorityOfVotes(1)
    BY <1>1, <1>2, MajorityIs
  <2> QED
    BY Zenon, <1>2, <1>7, <2>1
<1> HIDE DEF m
<1>10. \A x \in Server : Member(node'[x], K)
  BY Zenon, <1>8, MembersKept DEF IInv, SInv
<1>11. PlainMessages(K)'
  <2>1. req.term <= MaxTerm
    BY Zenon, <1>4
  <2>2. vote_reqs' \subseteq vote_reqs \cup {req}
    BY Zenon, <1>3
  <2> HIDE DEF req
  <2>3. \A x \in vote_reqs' \cup vote_replies' : x.term <= MaxTerm
    BY <1>3, <2>1, <2>2 DEF SInv, PlainMessages
  <2> QED
    BY Zenon, <1>3, <2>3 DEF SInv, PlainMessages, append_vars, join_vars
<1>12. E!Next
  <2>1. /\ Roles' = [Roles EXCEPT ![s] = m.state]
        /\ Terms' = [Terms EXCEPT ![s] = m.current_term]
        /\ VotesGiven' = [VotesGiven EXCEPT ![s] = m.voted_for]
        /\ VotesTaken' = [VotesTaken EXCEPT ![s] = m.voted_for_me]
        /\ VoteCounts' = [VoteCounts EXCEPT ![s] = m.rcv_votes]
    BY Zenon, <1>8, Views DEF IInv
  <2>2. Roles[s] = node[s].state /\ Terms[s] = node[s].current_term
    BY Zenon, ViewOf
  <2>3. Granted' = Granted
    BY <1>3 DEF Granted
  <2>4. IF E!HasMajorityOfVotes(1) THEN Asked' = Asked
        ELSE Asked' = Asked \cup {[src |-> s, term |-> Terms[s] + 1]}
    <3>1. HasMajorityOfVotes(n) <=> E!HasMajorityOfVotes(1)
      BY <1>1, <1>2, MajorityIs
    <3>2. CASE E!HasMajorityOfVotes(1)
      BY <1>3, <3>1, <3>2 DEF Asked
    <3>3. CASE ~E!HasMajorityOfVotes(1)
      <4>1. vote_reqs' = vote_reqs \cup {req}
        BY Zenon, <1>3, <3>1, <3>3
      <4>2. req.src = s /\ req.term = Terms[s] + 1
        BY Zenon, <1>2, <2>2
      <4> HIDE DEF req
      <4> QED
        BY <3>3, <4>1, <4>2 DEF Asked
    <3> QED
      BY <3>2, <3>3
  <2>5. Roles[s] \in {"FOLLOWER", "CANDIDATE"} /\ Terms[s] < MaxTerm
    BY Zenon, <2>2 DEF BecomeCandidate
  <2>6. /\ Terms' = [Terms EXCEPT ![s] = Terms[s] + 1]
        /\ VotesGiven' = [VotesGiven EXCEPT ![s] = s]
        /\ VotesTaken' = [VotesTaken EXCEPT ![s] = {s}]
        /\ VoteCounts' = [VoteCounts EXCEPT ![s] = 1]
        /\ E!HasMajorityOfVotes(1) => Roles' = [Roles EXCEPT ![s] = "LEADER"]
        /\ ~E!HasMajorityOfVotes(1) => Roles' = [Roles EXCEPT ![s] = "CANDIDATE"]
    BY Zenon, <1>9, <2>1, <2>2
  <2>7. E!BecomeCandidate(s)
    BY Zenon, <2>3, <2>4, <2>5, <2>6 DEF E!BecomeCandidate
  <2> QED
    BY Zenon, <2>7 DEF E!Next
<1> QED
  BY Zenon, <1>10, <1>11, <1>12 DEF StableStep, SInv

LEMMA HandleVoteRequestStable ==
    ASSUME NEW K \in Nat, IInv, SInv(K), NEW t \in Server, NEW m \in vote_reqs,
           NEW timed_out \in BOOLEAN, HandleVoteRequest(t, m, timed_out)
    PROVE  StableStep(K)
<1> DEFINE n == MatchTerms(node[t], m.term)
           refused == \/ ~timed_out /\ n.state = "FOLLOWER"
                      \/ m.term < n.current_term
           log_ok == LogOk(n, m)
           vote == IF log_ok /\ n.voted_for = Nil THEN m.src ELSE n.voted_for
           reply(granted) == [src |-> t, dst |-> m.src, term |-> n.current_term,
                              granted |-> granted]
           k == [n EXCEPT !.voted_for = vote]
<1>1. m.src \in Server /\ m.term \in Nat /\ m.term <= MaxTerm
  BY Zenon DEF IInv, ChannelsTyped, VoteReq, SInv, PlainMessages
<1>2. node[t] \in Node /\ Sane(node[t]) /\ Member(node[t], K)
  BY SaneTypes DEF IInv, NodesSane, SInv
<1>3. /\ \/ /\ refused
            /\ node' = [node EXCEPT ![t] = n]
            /\ vote_replies' \in {vote_replies, vote_replies \cup {reply(FALSE)}}
         \/ ~refused /\ n.log = << >>
         \/ /\ ~refused
            /\ node' = [node EXCEPT ![t] = k]
            /\ vote_replies' = IF vote = m.src
                               THEN vote_replies \cup {reply(TRUE)} ELSE vote_replies
      /\ UNCHANGED <<vote_reqs, append_vars, join_vars>>
      /\ IsRunning(t) /\ t # m.src
  BY Zenon DEF HandleVoteRequest
<1>4. /\ n \in Node /\ n.voted_for_me = node[t].voted_for_me
      /\ n.rcv_votes = node[t].rcv_votes /\ n.log = node[t].log
  BY Zenon, <1>1, <1>2, MatchTermsIs
<1>5. /\ n.state = E!StateAfter(t, m.term) /\ n.current_term = E!TermAfter(t, m.term)
      /\ n.voted_for = E!VoteAfter(t, m.term)
  BY Zenon, <1>1, MatchTermsView DEF IInv
<1>6. Member(n, K) /\ Hears(node[t], n, m.term)
  BY Zenon, <1>1, <1>2, MatchTermsMember
<1> HIDE DEF n
<1>7. node[t].log # << >>
  <2>1. node[t].commit_index > 0
    BY <1>2, <1>3 DEF Sane, Member, IsRunning, Running
  <2> QED
    BY <1>2, <2>1 DEF Sane, Node
<1>8. vote \in Server \cup {Nil}
  BY <1>1, <1>4 DEF Node
<1> HIDE DEF log_ok, vote
<1>9. /\ k \in Node /\ k.voted_for = vote
      /\ k.voted_for_me = n.voted_for_me /\ k.rcv_votes = n.rcv_votes
      /\ k.state = n.state /\ k.current_term = n.current_term
      /\ k.log = n.log /\ k.commit_index = n.commit_index /\ k.self_id = n.self_id
      /\ k.servers = n.servers /\ k.voting = n.voting
      /\ k.next_index = n.next_index
  BY Zenon, <1>4, <1>8, VoteGivenIs
<1> HIDE DEF k
<1>10. Member(k, K)
  BY Zenon, <1>6, <1>9 DEF Member
<1>11. PlainMessages(K)'
  <2>1. reply(TRUE).term <= MaxTerm /\ reply(FALSE).term <= MaxTerm
    BY Zenon, <1>6 DEF Member
  <2>2. vote_replies' \subseteq vote_replies \cup {reply(TRUE), reply(FALSE)}
    BY <1>3, <1>4, <1>7
  <2> HIDE DEF reply
  <2>3. \A x \in vote_reqs' \cup vote_replies' : x.term <= MaxTerm
    BY Zenon, <1>3, <2>1, <2>2 DEF SInv, PlainMessages
  <2> QED
    BY Zenon, <1>3, <2>3 DEF SInv, PlainMessages, append_vars, join_vars
<1>12. Asked' = Asked
  BY <1>3 DEF Asked
<1>13. CASE refused
  <2>1. Granted' = Granted
    <3>1. vote_replies' \in {vote_replies, vote_replies \cup {reply(FALSE)}}
      BY Zenon, <1>3, <1>13
    <3>2. reply(FALSE).granted = FALSE
      BY Zenon
    <3> HIDE DEF reply
    <3>3. {x \in vote_replies' : x.granted} = {x \in vote_replies : x.granted}
      BY Zenon, <3>1, <3>2
    <3> QED
      BY Zenon, <3>3 DEF Granted
  <2>2. node' = [node EXCEPT ![t] = n]
    BY Zenon, <1>3, <1>13
  <2> QED
    BY Zenon, <1>1, <1>3, <1>6, <1>11, <1>12, <2>1, <2>2, HearsStable
<1>14. CASE ~refused
  <2>1. node' = [node EXCEPT ![t] = k]
    BY Zenon, <1>3, <1>4, <1>7, <1>14
  <2>2. \A x \in Server : Member(node'[x], K)
    BY Zenon, <1>10, <2>1, MembersKept DEF IInv, SInv
  <2> DEFINE granted == [src |-> t, dst |-> m.src, term |-> E!TermAfter(t, m.term)]
  <2>3. Granted' = IF vote = m.src THEN Granted \cup {granted} ELSE Granted
    <3>1. vote_replies' = IF vote = m.src
                          THEN vote_replies \cup {reply(TRUE)} ELSE vote_replies
      BY Zenon, <1>3, <1>4, <1>7, <1>14
    <3>2. /\ reply(TRUE).granted = TRUE /\ reply(TRUE).src = t /\ reply(TRUE).dst = m.src
          /\ reply(TRUE).term = E!TermAfter(t, m.term)
      BY Zenon, <1>5
    <3> HIDE DEF reply
    <3>3. CASE vote # m.src
      BY <3>1, <3>3 DEF Granted
    <3>4. CASE vote = m.src
      <4>1. {x \in vote_replies' : x.granted} =
               {x \in vote_replies : x.granted} \cup {reply(TRUE)}
        BY Zenon, <3>1, <3>2, <3>4
      <4> DEFINE G == {x \in vote_replies : x.granted}
      <4>2. Granted = {[src |-> x.src, dst |-> x.dst, term |-> x.term] : x \in G}
        BY Zenon DEF Granted
      <4>3. Granted' = {[src |-> x.src, dst |-> x.dst, term |-> x.term] :
                           x \in G \cup {reply(TRUE)}}
        BY Zenon, <4>1 DEF Granted
      <4> HIDE DEF G
      <4> QED
        BY Zenon, <3>2, <3>4, <4>2, <4>3
    <3> QED
      BY <3>3, <3>4
  <2>4. /\ Roles' = [Roles EXCEPT ![t] = k.state]
        /\ Terms' = [Terms EXCEPT ![t] = k.current_term]
        /\ VotesGiven' = [VotesGiven EXCEPT ![t] = k.voted_for]
        /\ VotesTaken' = [VotesTaken EXCEPT ![t] = k.voted_for_me]
        /\ VoteCounts' = [VoteCounts EXCEPT ![t] = k.rcv_votes]
    BY Zenon, <2>1, Views DEF IInv
  <2>5. VotesTaken' = VotesTaken /\ VoteCounts' = VoteCounts
    <3>1. k.voted_for_me = VotesTaken[t] /\ k.rcv_votes = VoteCounts[t]
      BY Zenon, <1>4, <1>9, ViewOf
    <3> QED
      BY Zenon, <2>4, <3>1, ViewTypes
  <2> DEFINE q == [src |-> m.src, term |-> m.term]
  <2>6. q \in Asked /\ q.src = m.src /\ q.term = m.term
    BY Zenon DEF Asked
  <2>7. vote = IF log_ok /\ E!VoteAfter(t, q.term) = Nil
               THEN q.src ELSE E!VoteAfter(t, q.term)
    BY Zenon, <1>5, <2>6 DEF vote
  <2>8. ~(\/ ~timed_out /\ E!StateAfter(t, q.term) = "FOLLOWER"
          \/ q.term < Terms[t])
    <3>1. ~(~timed_out /\ E!StateAfter(t, q.term) = "FOLLOWER")
      BY Zenon, <1>5, <1>14, <2>6
    <3>2. ~(m.term < Terms[t])
      BY <1>1, <1>2, <1>5, <1>14, ViewOf DEF E!TermAfter, Node
    <3> QED
      BY Zenon, <2>6, <3>1, <3>2
  <2>9. Roles[t] \in E!Running /\ log_ok \in BOOLEAN
    BY <1>3, ViewOf DEF IsRunning, Running, E!Running, log_ok, LogOk
  <2>10. /\ Roles' = [Roles EXCEPT ![t] = E!StateAfter(t, q.term)]
         /\ Terms' = [Terms EXCEPT ![t] = E!TermAfter(t, q.term)]
         /\ VotesGiven' = [VotesGiven EXCEPT ![t] = vote]
         /\ Granted' = IF vote = q.src
                       THEN Granted \cup {[src |-> t, dst |-> q.src,
                                           term |-> E!TermAfter(t, q.term)]}
                       ELSE Granted
    BY Zenon, <1>5, <1>9, <2>3, <2>4, <2>6
  <2>11. t # q.src
    BY Zenon, <1>3, <2>6
  <2> HIDE DEF q
  <2>12. E!HandleVoteRequest(t, q, log_ok, timed_out)
    BY Zenon, <1>12, <2>5, <2>7, <2>8, <2>9, <2>10, <2>11 DEF E!HandleVoteRequest
  <2>13. E!Next
    BY Zenon, <2>6, <2>9, <2>12 DEF E!Next
  <2> QED
    BY Zenon, <1>11, <2>2, <2>13 DEF StableStep, SInv
<1> QED
  BY <1>13, <1>14

LEMMA HandleVoteReplyStable ==
    ASSUME NEW K \in Nat, IInv, SInv(K), NEW m \in vote_replies, HandleVoteReply(m)
    PROVE  StableStep(K)
<1> DEFINE s == m.dst
           n == node[s]
           counted == /\ m.term = n.current_term
                      /\ n.state = "CANDIDATE"
                      /\ m.granted
                      /\ IsNewVote(n, m.src)
           voted == [n EXCEPT !.voted_for_me = @ \cup {m.src}, !.rcv_votes = @ + 1]
           l == BecomeLeader(voted)
<1>1. /\ s \in Server /\ m.src \in Server /\ m.term \in Nat /\ m.term <= MaxTerm
  BY Zenon DEF IInv, ChannelsTyped, VoteReply, SInv, PlainMessages
<1>2. n \in Node /\ Sane(n) /\ Member(n, K)
  BY <1>1, SaneTypes DEF IInv, NodesSane, SInv
<1>3. /\ IsRunning(s)
      /\ \/ Exit(s)
         \/ /\ ~counted
            /\ node' = [node EXCEPT ![s] = MatchTerms(n, m.term)]
            /\ UNCHANGED <<votes_vars, append_vars, join_vars>>
         \/ /\ counted
            /\ node' = [node EXCEPT ![s] = IF HasMajorityOfVotes(voted) THEN l ELSE voted]
            /\ UNCHANGED <<votes_vars, append_vars, join_vars>>
  <2>1. /\ IsRunning(s)
        /\ IF counted /\ voted.rcv_votes > Cardinality(voted.voting) THEN Exit(s)
           ELSE /\ node' = [node EXCEPT ![s] =
                               IF ~counted THEN MatchTerms(n, m.term)
                               ELSE IF HasMajorityOfVotes(voted) THEN l
                               ELSE voted]
                /\ UNCHANGED <<votes_vars, append_vars, join_vars>>
    BY Zenon DEF HandleVoteReply
  <2> HIDE DEF s, n, counted, voted, l
  <2> QED
    BY Zenon, <2>1
<1> HIDE DEF s
<1>4. CASE Exit(s)
  BY Zenon, <1>1, <1>3, <1>4, ExitStable
<1>5. CASE /\ ~counted
           /\ node' = [node EXCEPT ![s] = MatchTerms(n, m.term)]
           /\ UNCHANGED <<votes_vars, append_vars, join_vars>>
  <2>1. Member(MatchTerms(n, m.term), K) /\ Hears(n, MatchTerms(n, m.term), m.term)
    BY Zenon, <1>1, <1>2, MatchTermsMember
  <2>2. PlainMessages(K)' /\ Asked' = Asked /\ Granted' = Granted
    BY Zenon, <1>5, MessagesKept DEF SInv
  <2> QED
    BY Zenon, <1>1, <1>3, <1>5, <2>1, <2>2, HearsStable
<1>6. CASE /\ counted
           /\ node' = [node EXCEPT ![s] = IF HasMajorityOfVotes(voted) THEN l ELSE voted]
           /\ UNCHANGED <<votes_vars, append_vars, join_vars>>
  <2>1. /\ voted \in Node
        /\ voted.state = n.state /\ voted.current_term = n.current_term
        /\ voted.voted_for = n.voted_for
        /\ voted.log = n.log /\ voted.commit_index = n.commit_index
        /\ voted.self_id = n.self_id
        /\ voted.servers = n.servers /\ voted.voting = n.voting
        /\ voted.next_index = n.next_index
    BY Zenon, <1>1, <1>2, VotedIs
  <2>2. voted.voted_for_me = n.voted_for_me \cup {m.src} /\ voted.rcv_votes = n.rcv_votes + 1
    BY <1>2 DEF Node
  <2>3. /\ n.voting = Server /\ n.commit_index <= Len(n.log)
        /\ n.state = "CANDIDATE" /\ m.term = n.current_term /\ m.granted
        /\ m.src \in Server \ n.voted_for_me
    BY <1>2, <1>6 DEF Member, Sane, IsNewVote
  <2> HIDE DEF voted
  <2>4. Member(voted, K)
    BY Zenon, <1>2, <2>1 DEF Member
  <2>5. voted.commit_index <= Len(voted.log)
    BY Zenon, <2>1, <2>3
  <2>6. Member(l, K)
    BY Zenon, <2>1, <2>4, <2>5, BecomeLeaderMember
  <2>7. /\ l.state = "LEADER" /\ l.voted_for_me = voted.voted_for_me
        /\ l.current_term = voted.current_term /\ l.voted_for = voted.voted_for
        /\ l.rcv_votes = voted.rcv_votes
    BY Zenon, <2>1, BecomeLeaderIs
  <2> HIDE DEF l
  <2> DEFINE k == IF HasMajorityOfVotes(voted) THEN l ELSE voted
  <2>8. node' = [node EXCEPT ![s] = k] /\ Member(k, K)
    BY Zenon, <1>6, <2>4, <2>6
  <2>9. HasMajorityOfVotes(voted) <=> E!HasMajorityOfVotes(n.rcv_votes + 1)
    BY <2>1, <2>2, <2>3, MajorityIs
  <2>10. /\ k.state = IF E!HasMajorityOfVotes(n.rcv_votes + 1) THEN "LEADER" ELSE n.state
         /\ k.voted_for_me = n.voted_for_me \cup {m.src}
         /\ k.current_term = n.current_term /\ k.voted_for = n.voted_for
         /\ k.rcv_votes = n.rcv_votes + 1
    <3>1. CASE HasMajorityOfVotes(voted)
      <4>1. k = l
        BY Zenon, <3>1
      <4> HIDE DEF k
      <4> QED
        BY <2>1, <2>2, <2>7, <2>9, <3>1, <4>1
    <3>2. CASE ~HasMajorityOfVotes(voted)
      <4>1. k = voted
        BY Zenon, <3>2
      <4> HIDE DEF k
      <4> QED
        BY <2>1, <2>2, <2>7, <2>9, <3>2, <4>1
    <3> QED
      BY <3>1, <3>2
  <2> HIDE DEF k
  <2>11. PlainMessages(K)' /\ Asked' = Asked /\ Granted' = Granted
    BY Zenon, <1>6, MessagesKept DEF SInv
  <2>12. \A x \in Server : Member(node'[x], K)
    BY Zenon, <1>1, <2>8, MembersKept DEF IInv, SInv
  <2> DEFINE q == [src |-> m.src, dst |-> m.dst, term |-> m.term]
  <2>13. q \in Granted /\ q.dst = s /\ q.src = m.src /\ q.term = m.term
    BY Zenon, <2>3 DEF Granted, s
  <2>14. /\ Roles' = [Roles EXCEPT ![s] = k.state]
         /\ Terms' = [Terms EXCEPT ![s] = k.current_term]
         /\ VotesGiven' = [VotesGiven EXCEPT ![s] = k.voted_for]
         /\ VotesTaken' = [VotesTaken EXCEPT ![s] = k.voted_for_me]
         /\ VoteCounts' = [VoteCounts EXCEPT ![s] = k.rcv_votes]
    BY Zenon, <1>1, <2>8, Views DEF IInv
  <2>15. /\ Roles[s] = n.state /\ Terms[s] = n.current_term /\ VotesGiven[s] = n.voted_for
         /\ VotesTaken[s] = n.voted_for_me /\ VoteCounts[s] = n.rcv_votes
    BY Zenon, <1>1, ViewOf
  <2> HIDE DEF q
  <2>16. E!TermAfter(s, q.term) = n.current_term /\ E!VoteAfter(s, q.term) = n.voted_for
    BY <1>2, <2>3, <2>13, <2>15 DEF E!TermAfter, E!VoteAfter, Node
  <2>17. /\ Terms' = [Terms EXCEPT ![s] = E!TermAfter(s, q.term)]
         /\ VotesGiven' = [VotesGiven EXCEPT ![s] = E!VoteAfter(s, q.term)]
         /\ VotesTaken' = [VotesTaken EXCEPT ![s] = VotesTaken[s] \cup {q.src}]
         /\ VoteCounts' = [VoteCounts EXCEPT ![s] = VoteCounts[s] + 1]
         /\ Roles' = [Roles EXCEPT ![s] = IF E!HasMajorityOfVotes(VoteCounts[s] + 1)
                                          THEN "LEADER" ELSE Roles[s]]
    BY Zenon, <2>10, <2>13, <2>14, <2>15, <2>16
  <2>18. /\ q.term = Terms[s] /\ Roles[s] = "CANDIDATE"
         /\ q.src \in Server \ VotesTaken[s]
    BY Zenon, <2>3, <2>13, <2>15
  <2>19. Roles[s] \in E!Running
    BY Zenon, <2>18 DEF E!Running
  <2>20. E!HandleVoteReply(q)
    BY Zenon, <2>11, <2>13, <2>17, <2>18, <2>19 DEF E!HandleVoteReply
  <2>21. E!Next
    BY Zenon, <2>13, <2>20 DEF E!Next
  <2> QED
    BY Zenon, <2>11, <2>12, <2>21 DEF StableStep, SInv
<1> QED
  BY Zenon, <1>3, <1>4, <1>5, <1>6

LEMMA SendAppendEntriesStable ==
    ASSUME NEW K \in Nat, IInv, SInv(K), NEW s \in Server, NEW t \in Server,
           SendAppendEntries(s, t)
    PROVE  StableStep(K)
<1> DEFINE n == node[s]
           prev == n.next_index[t] - 1
           match == n.match_index[t] = prev
           entries == IF match THEN EntriesAfter(n.log, prev) ELSE << >>
           req == AppendRequest(n, prev, entries)
           X == IF match /\ t \notin n.voting THEN n.logs_match \cup {t}
                ELSE n.logs_match \ {t}
<1>1. Sane(n) /\ n \in Node /\ Member(n, K) /\ n.self_id = s
  BY SaneTypes DEF IInv, NodesSane, SInv
<1>2. /\ n.log \in Seq(Entry) /\ Len(n.log) \in Nat /\ n.current_term \in Nat
      /\ prev \in Nat /\ X \in SUBSET Server
  BY <1>1, SaneTypes DEF Sane
<1>3. /\ IsLeader(s) /\ t # s
      /\ \/ Exit(s)
         \/ /\ ~(match /\ prev > Len(n.log))
            /\ node' = [node EXCEPT ![s] = [n EXCEPT !.logs_match = X]]
            /\ reqs' \in {reqs, [reqs EXCEPT ![s][t] = Append(@, req)]}
            /\ UNCHANGED <<votes_vars, replies, join_vars>>
  BY DEF SendAppendEntries, IInv, NodesSane
<1>4. IsRunning(s) /\ prev >= K
  BY <1>1, <1>2, <1>3 DEF IsLeader, IsRunning, Running, Member, Node
<1> HIDE DEF n, X
<1>5. CASE Exit(s)
  BY Zenon, <1>4, <1>5, ExitStable
<1>6. CASE /\ ~(match /\ prev > Len(n.log))
           /\ node' = [node EXCEPT ![s] = [n EXCEPT !.logs_match = X]]
           /\ reqs' \in {reqs, [reqs EXCEPT ![s][t] = Append(@, req)]}
           /\ UNCHANGED <<votes_vars, replies, join_vars>>
  <2> DEFINE k == [n EXCEPT !.logs_match = X]
  <2>1. /\ k \in Node /\ k.log = n.log /\ k.commit_index = n.commit_index
        /\ k.self_id = n.self_id /\ k.servers = n.servers /\ k.voting = n.voting
        /\ k.next_index = n.next_index /\ k.state = n.state
        /\ k.current_term = n.current_term /\ k.voted_for = n.voted_for
        /\ k.voted_for_me = n.voted_for_me /\ k.rcv_votes = n.rcv_votes
    BY Zenon, <1>1, <1>2, LogsMatchIs
  <2>2. node' = [node EXCEPT ![s] = k]
    BY Zenon, <1>6
  <2> HIDE DEF k
  <2>3. Member(k, K)
    BY Zenon, <1>1, <2>1 DEF Member
  <2>4. /\ MatchTerms(n, n.current_term) = n /\ n.current_term <= MaxTerm
        /\ n.current_term \in Nat
    BY <1>1, SameTerm DEF Member
  <2>5. Hears(n, k, n.current_term)
    BY Zenon, <2>1, <2>4 DEF Hears
  <2>6. entries \in Seq(Entry) /\ NoopsOnly(entries)
    <3>1. CASE ~match
      BY <3>1 DEF NoopsOnly
    <3>2. CASE match
      <4>1. prev <= Len(n.log)
        BY <1>2, <1>6, <3>2
      <4> DEFINE es == EntriesAfter(n.log, prev)
      <4>2. /\ es \in Seq(Entry) /\ prev + Len(es) <= Len(n.log)
            /\ \A i \in 1..Len(es) : es[i] = n.log[prev + i]
        BY <1>2, <4>1, EntriesAfterIs
      <4>3. entries = es
        BY Zenon, <3>2
      <4> HIDE DEF es, prev, entries
      <4>4. ASSUME NEW i \in DOMAIN es PROVE es[i].command = "RAFT_NOOP"
        <5>1. i \in 1..Len(es) /\ prev + i \in K+1..Len(n.log)
          BY <1>2, <1>4, <4>2, <4>4
        <5> QED
          BY <1>1, <4>2, <5>1 DEF Member
      <4> QED
        BY Zenon, <4>2, <4>3, <4>4 DEF NoopsOnly
    <3> QED
      BY <3>1, <3>2
  <2> HIDE DEF entries
  <2>7. req \in PlainReq
    <3>1. req \in AppendReq
      BY <1>1, <1>2, <2>6, AppendRequestTyped
    <3>2. req.term = n.current_term /\ req.entries = entries
      BY Zenon DEF AppendRequest
    <3> HIDE DEF req
    <3> QED
      BY <2>4, <2>6, <3>1, <3>2 DEF PlainReq
  <2> HIDE DEF req
  <2>8. reqs' \in [Server -> [Server -> Seq(PlainReq)]]
    <3>1. reqs \in [Server -> [Server -> Seq(PlainReq)]]
      BY Zenon DEF SInv, PlainMessages
    <3>2. [reqs EXCEPT ![s][t] = Append(@, req)] \in [Server -> [Server -> Seq(PlainReq)]]
      BY <2>7, <3>1, WormholeAppend
    <3> QED
      BY Zenon, <1>6, <3>1, <3>2
  <2>9. PlainMessages(K)' /\ Asked' = Asked /\ Granted' = Granted
    BY <1>6, <2>8 DEF SInv, PlainMessages, votes_vars, join_vars, Asked, Granted
  <2> QED
    BY Zenon, <1>4, <2>2, <2>3, <2>4, <2>5, <2>9, HearsStable DEF n
<1> QED
  BY Zenon, <1>3, <1>5, <1>6

\* The worker of t is done with a request.
LEMMA ReplyStable ==
    ASSUME NEW K \in Nat, IInv, SInv(K), NEW s \in Server, NEW t \in Server, IsRunning(t),
           reqs[s][t] # << >>, NEW n \in Node, Member(n, K), n.commit_index <= Len(n.log),
           NEW term \in Nat, term <= MaxTerm, Hears(node[t], n, term),
           NEW success \in BOOLEAN, Reply(s, t, n, success)
    PROVE  StableStep(K)
<1> DEFINE reply == [term |-> n.current_term, success |-> success,
                     last_log_index |-> Len(n.log)]
<1>1. reply \in PlainReply(K)
  BY DEF PlainReply, AppendReply, Member, Node
<1>2. reqs' \in [Server -> [Server -> Seq(PlainReq)]]
  <2>1. reqs \in [Server -> [Server -> Seq(PlainReq)]]
    BY Zenon DEF SInv, PlainMessages
  <2>2. [reqs EXCEPT ![s][t] = Tail(@)] \in [Server -> [Server -> Seq(PlainReq)]]
    BY <2>1, WormholeTail
  <2> QED
    BY <2>2 DEF Reply
<1>3. replies' \in [Server -> [Server -> Seq(PlainReply(K))]]
  <2>1. replies \in [Server -> [Server -> Seq(PlainReply(K))]]
    BY Zenon DEF SInv, PlainMessages
  <2>2. replies' \in {replies, [replies EXCEPT ![t][s] = Append(@, reply)]}
    BY Zenon DEF Reply
  <2> HIDE DEF reply
  <2>3. [replies EXCEPT ![t][s] = Append(@, reply)] \in [Server -> [Server -> Seq(PlainReply(K))]]
    BY <1>1, <2>1, WormholeAppend
  <2> QED
    BY Zenon, <2>1, <2>2, <2>3
<1>4. /\ node' = [node EXCEPT ![t] = n] /\ UNCHANGED <<votes_vars, join_vars>>
  BY Zenon DEF Reply
<1>5. PlainMessages(K)' /\ Asked' = Asked /\ Granted' = Granted
  BY Zenon, <1>2, <1>3, <1>4 DEF SInv, PlainMessages, votes_vars, join_vars, Asked, Granted
<1> QED
  BY Zenon, <1>4, <1>5, HearsStable

LEMMA HandleAppendEntriesRequestStable ==
    ASSUME NEW K \in Nat, IInv, SInv(K), NEW s \in Server, NEW t \in Server,
           HandleAppendEntriesRequest(s, t)
    PROVE  StableStep(K)
<1> DEFINE m == Head(reqs[s][t])
           n == MatchTerms(node[t], m.term)
           led == SetLeader(n, s)
           cut == RemoveEntries(led, KeptIndex(n, m))
           grown == AppendEntries(cut, m.entries)
           committed == CommitLogEntries(grown, m.leader_commit)
           done == IF grown.commit_index < m.leader_commit THEN committed ELSE grown
<1>1. /\ IsRunning(t) /\ reqs[s][t] # << >>
      /\ reqs[s][t] \in Seq(PlainReq)
  BY DEF HandleAppendEntriesRequest, SInv, PlainMessages
<1>2. m \in PlainReq
  BY <1>1
<1>3. \/ Reply(s, t, n, FALSE)
      \/ Exit(t)
      \/ Reply(s, t, cut, FALSE)
      \/ Reply(s, t, done, TRUE)
  BY Zenon DEF HandleAppendEntriesRequest
<1> HIDE DEF m
<1>4. /\ m.term \in Nat /\ m.prev_log_index \in Nat /\ m.leader_commit \in Nat
      /\ m.entries \in Seq(Entry) /\ m.term <= MaxTerm /\ NoopsOnly(m.entries)
      /\ m \in AppendReq
  BY <1>2 DEF PlainReq, AppendReq
<1>5. Sane(node[t]) /\ node[t] \in Node /\ Member(node[t], K)
  BY SaneTypes DEF IInv, NodesSane, SInv
<1>6. /\ n \in Node /\ Sane(n) /\ n.commit_index <= Len(n.log)
      /\ Member(n, K) /\ Hears(node[t], n, m.term)
  BY Zenon, <1>4, <1>5, MatchTermsFollows, MatchTermsMember DEF Follows, Sane
<1> HIDE DEF n
<1>7. /\ led \in Node /\ led.log = n.log /\ led.servers = n.servers
      /\ led.voting = n.voting /\ led.next_index = n.next_index
      /\ led.voted_for_me = n.voted_for_me
      /\ led.self_id = n.self_id /\ led.state = n.state
      /\ led.current_term = n.current_term /\ led.voted_for = n.voted_for
      /\ led.rcv_votes = n.rcv_votes /\ led.commit_index = n.commit_index
  BY Zenon, <1>6, SetLeaderIs
<1> HIDE DEF led
<1>8. Member(led, K) /\ Hears(node[t], led, m.term)
  BY Zenon, <1>6, <1>7, HearsOn DEF Member
<1>9. KeptIndex(n, m) \in led.commit_index .. Len(led.log)
  BY <1>4, <1>6, <1>7, KeptIndexIs
<1>10. /\ cut \in Node /\ Member(cut, K)
       /\ cut.state = led.state /\ cut.current_term = led.current_term
       /\ cut.voted_for = led.voted_for /\ cut.voted_for_me = led.voted_for_me
       /\ cut.rcv_votes = led.rcv_votes
       /\ cut.commit_index = led.commit_index
       /\ cut.log = SubSeq(led.log, 1, KeptIndex(n, m))
  BY Zenon, <1>7, <1>8, <1>9, RemoveEntriesMember
<1> HIDE DEF cut
<1>11. cut.commit_index <= Len(cut.log)
  <2> DEFINE kept == KeptIndex(n, m)
  <2>1. led.log \in Seq(Entry) /\ Len(led.log) \in Nat /\ led.commit_index \in Nat
    BY <1>7 DEF Node
  <2>2. kept \in led.commit_index .. Len(led.log) /\ cut.log = SubSeq(led.log, 1, kept)
    BY Zenon, <1>9, <1>10
  <2> HIDE DEF kept
  <2>3. kept \in 0 .. Len(led.log) /\ led.commit_index <= kept
    BY <2>1, <2>2
  <2>4. Len(cut.log) = kept
    BY <2>1, <2>2, <2>3
  <2> QED
    BY Zenon, <1>10, <2>3, <2>4
<1>12. Hears(node[t], cut, m.term)
  BY Zenon, <1>8, <1>10, HearsOn
<1>13. /\ grown \in Node /\ Member(grown, K) /\ grown.commit_index <= Len(grown.log)
       /\ grown.state = cut.state /\ grown.current_term = cut.current_term
       /\ grown.voted_for = cut.voted_for /\ grown.voted_for_me = cut.voted_for_me
       /\ grown.rcv_votes = cut.rcv_votes
  BY Zenon, <1>4, <1>10, <1>11, AppendEntriesMember
<1> HIDE DEF grown
<1>14. Hears(node[t], grown, m.term)
  BY Zenon, <1>12, <1>13, HearsOn
<1>15. /\ committed \in Node /\ Member(committed, K)
       /\ committed.commit_index <= Len(committed.log)
       /\ committed.state = grown.state \/ committed.state = "FOLLOWER"
       /\ committed.current_term = grown.current_term
       /\ committed.voted_for = grown.voted_for
       /\ committed.voted_for_me = grown.voted_for_me
       /\ committed.rcv_votes = grown.rcv_votes
  BY Zenon, <1>4, <1>13, CommitLogEntriesMember
<1> HIDE DEF committed
<1>16. Hears(node[t], committed, m.term)
  BY Zenon, <1>14, <1>15, HearsOn
<1>17. /\ done \in Node /\ Member(done, K) /\ done.commit_index <= Len(done.log)
       /\ Hears(node[t], done, m.term)
  BY Zenon, <1>13, <1>14, <1>15, <1>16
<1> HIDE DEF done
<1> QED
  BY Zenon, <1>1, <1>3, <1>4, <1>6, <1>10, <1>11, <1>12, <1>17, ExitStable, ReplyStable

LEMMA HandleAppendEntriesReplyStable ==
    ASSUME NEW K \in Nat, IInv, SInv(K), NEW s \in Server, NEW t \in Server,
           HandleAppendEntriesReply(s, t)
    PROVE  StableStep(K)
<1> DEFINE m == Head(replies[t][s])
           match == IF m.success THEN m.last_log_index ELSE node[s].match_index[t]
           k == Counted(node[s], t, m.last_log_index, match)
           counts == /\ m.term = node[s].current_term
                     /\ IsLeader(s)
                     /\ t \in node[s].servers
           n == IF ~counts THEN MatchTerms(node[s], m.term) ELSE k
           committed == CommitLogEntries(n, m.last_log_index)
           done == IF counts /\ m.success /\ m.last_log_index > n.commit_index
                   THEN committed ELSE n
<1>1. /\ IsRunning(s) /\ replies[t][s] # << >>
      /\ replies \in [Server -> [Server -> Seq(PlainReply(K))]]
      /\ replies[t][s] \in Seq(PlainReply(K))
  BY DEF HandleAppendEntriesReply, SInv, PlainMessages
<1>2. m \in PlainReply(K)
  BY <1>1
<1>3. /\ node' = [node EXCEPT ![s] = done]
      /\ replies' = [replies EXCEPT ![t][s] = Tail(@)]
      /\ UNCHANGED <<votes_vars, reqs, join_vars>>
  BY Zenon DEF HandleAppendEntriesReply, Counted
<1> HIDE DEF m
<1>4. /\ m.term \in Nat /\ m.success \in BOOLEAN /\ m.last_log_index \in Nat
      /\ m.term <= MaxTerm /\ m.last_log_index >= K
  BY <1>2 DEF PlainReply, AppendReply
<1>5. /\ Sane(node[s]) /\ node[s] \in Node /\ Member(node[s], K)
      /\ node[s].commit_index <= Len(node[s].log)
  BY SaneTypes DEF IInv, NodesSane, SInv, Sane
<1>6. match \in Nat
  BY <1>4, <1>5 DEF Node
<1> HIDE DEF match
<1>7. /\ n \in Node /\ Member(n, K) /\ n.commit_index <= Len(n.log)
      /\ Hears(node[s], n, m.term)
  <2>1. CASE ~counts
    <3> DEFINE l == MatchTerms(node[s], m.term)
    <3>1. l \in Node /\ l.commit_index = node[s].commit_index /\ l.log = node[s].log
      BY Zenon, <1>4, <1>5, MatchTermsIs
    <3>2. Member(l, K) /\ Hears(node[s], l, m.term)
      BY Zenon, <1>4, <1>5, MatchTermsMember
    <3>3. n = l
      BY Zenon, <2>1
    <3> HIDE DEF l, n
    <3> QED
      BY Zenon, <1>5, <3>1, <3>2, <3>3
  <2>2. CASE counts
    <3>1. /\ k \in Node /\ Member(k, K)
          /\ k.state = node[s].state /\ k.current_term = node[s].current_term
          /\ k.voted_for = node[s].voted_for /\ k.voted_for_me = node[s].voted_for_me
          /\ k.rcv_votes = node[s].rcv_votes
          /\ k.log = node[s].log /\ k.commit_index = node[s].commit_index
      <4> DEFINE last == m.last_log_index
                 old == node[s]
                 new == Counted(old, t, last, match)
      <4>1. last \in Nat /\ last >= K /\ old \in Node /\ Member(old, K) /\ k = new
        BY Zenon, <1>4, <1>5
      <4> HIDE DEF last, k, old
      <4>2. /\ new \in Node /\ Member(new, K)
            /\ new.state = old.state /\ new.current_term = old.current_term
            /\ new.voted_for = old.voted_for /\ new.voted_for_me = old.voted_for_me
            /\ new.rcv_votes = old.rcv_votes
            /\ new.log = old.log /\ new.commit_index = old.commit_index
        BY <1>6, <4>1, CountedMember
      <4> HIDE DEF new
      <4> QED
        BY Zenon, <4>1, <4>2 DEF old
    <3>2. n = k
      BY Zenon, <2>2
    <3>3. MatchTerms(node[s], m.term) = node[s]
      BY Zenon, <1>5, <2>2, SameTerm
    <3> HIDE DEF k, n
    <3>4. Hears(node[s], k, m.term)
      BY Zenon, <3>1, <3>3 DEF Hears
    <3> QED
      BY Zenon, <1>5, <3>1, <3>2, <3>4
  <2> QED
    BY Zenon, <2>1, <2>2
<1> HIDE DEF k, n, counts
<1>8. /\ committed \in Node /\ Member(committed, K)
      /\ committed.state = n.state \/ committed.state = "FOLLOWER"
      /\ committed.current_term = n.current_term
      /\ committed.voted_for = n.voted_for
      /\ committed.voted_for_me = n.voted_for_me
      /\ committed.rcv_votes = n.rcv_votes
  BY Zenon, <1>4, <1>7, CommitLogEntriesMember
<1> HIDE DEF committed
<1>9. Hears(node[s], committed, m.term)
  BY Zenon, <1>7, <1>8, HearsOn
<1>10. Member(done, K) /\ Hears(node[s], done, m.term)
  BY Zenon, <1>7, <1>8, <1>9
<1> HIDE DEF done
<1>11. [replies EXCEPT ![t][s] = Tail(@)] \in [Server -> [Server -> Seq(PlainReply(K))]]
  BY <1>1, WormholeTail
<1>12. PlainMessages(K)' /\ Asked' = Asked /\ Granted' = Granted
  BY Zenon, <1>3, <1>11 DEF SInv, PlainMessages, votes_vars, join_vars, Asked, Granted
<1> QED
  BY Zenon, <1>1, <1>3, <1>4, <1>10, <1>12, HearsStable

LEMMA QuietStable ==
    ASSUME NEW K \in Nat, SInv(K), node' = node, PlainMessages(K)',
           Asked' = Asked, Granted' = Granted
    PROVE  UNCHANGED E!vars /\ SInv(K)'
<1>1. /\ Roles' = Roles /\ Terms' = Terms /\ VotesGiven' = VotesGiven
      /\ VotesTaken' = VotesTaken /\ VoteCounts' = VoteCounts
  BY Zenon DEF Roles, Terms, VotesGiven, VotesTaken, VoteCounts
<1>2. \A s \in Server : Member(node'[s], K)
  BY Zenon DEF SInv
<1> QED
  BY Zenon, <1>1, <1>2 DEF E!vars, SInv

LEMMA NextStable ==
    ASSUME ConfigStable, NEW K \in Nat, IInv, SInv(K), [Next]_vars
    PROVE  [E!Next]_(E!vars) /\ SInv(K)'
<1> DEFINE OK == [E!Next]_(E!vars) /\ SInv(K)'
<1>0. \A s \in Server : /\ node[s].state # "INIT_SERVER"
                        /\ node[s].servers \ node[s].voting = {}
  BY DEF SInv, Member
<1>2. ASSUME NEW s \in Server,
             Bootstrap(s) \/ SendMembershipRequest(s) \/ JoinTimeout(s)
      PROVE  OK
  BY Zenon, <1>0, <1>2 DEF Bootstrap, SendMembershipRequest, JoinTimeout
<1>3. ASSUME NEW s \in Server, Restart(s) PROVE OK
  BY <1>3 DEF Restart, ConfigStable
<1>4. ASSUME NEW s \in Server, NEW t \in Server,
             \/ CaughtUp(s, t) \/ RoundsOver(s, t) \/ HeartbeatTimeout(s, t) \/ GiveUp(s, t)
      PROVE  OK
  BY <1>0, <1>4 DEF CaughtUp, RoundsOver, HeartbeatTimeout, GiveUp, ConfigStable
<1>5. ASSUME NEW m \in joins, HandleMembershipRequest(m) PROVE OK
  BY <1>5 DEF SInv, PlainMessages
<1>6. ASSUME NEW s \in Server, SetKey(s) PROVE OK
  <2>1. PlainMessages(K)' /\ Asked' = Asked /\ Granted' = Granted /\ node' = node
    BY <1>6 DEF SetKey, SInv, PlainMessages, votes_vars, append_vars, Asked, Granted
  <2> QED
    BY Zenon, <2>1, QuietStable
<1>7. ASSUME NEW s \in Server, Crash(s) PROVE OK
  BY Zenon, <1>7, ExitStable DEF Crash, StableStep
<1>8. ASSUME NEW s \in Server, NEW t \in Server, DropRequest(s, t) PROVE OK
  <2>1. reqs' \in [Server -> [Server -> Seq(PlainReq)]]
    <3>1. reqs \in [Server -> [Server -> Seq(PlainReq)]]
      BY Zenon DEF SInv, PlainMessages
    <3>2. reqs[s][t] # << >> /\ reqs' = [reqs EXCEPT ![s][t] = Tail(@)]
      BY Zenon, <1>8 DEF DropRequest
    <3> QED
      BY <3>1, <3>2, WormholeTail
  <2>2. PlainMessages(K)' /\ Asked' = Asked /\ Granted' = Granted /\ node' = node
    BY <1>8, <2>1 DEF DropRequest, SInv, PlainMessages, votes_vars, join_vars, Asked, Granted
  <2> QED
    BY Zenon, <2>2, QuietStable
<1>9. ASSUME NEW s \in Server, NEW t \in Server, DropReply(s, t) PROVE OK
  <2>1. replies' \in [Server -> [Server -> Seq(PlainReply(K))]]
    <3>1. replies \in [Server -> [Server -> Seq(PlainReply(K))]]
      BY Zenon DEF SInv, PlainMessages
    <3>2. replies[s][t] # << >> /\ replies' = [replies EXCEPT ![s][t] = Tail(@)]
      BY Zenon, <1>9 DEF DropReply
    <3> QED
      BY <3>1, <3>2, WormholeTail
  <2>2. PlainMessages(K)' /\ Asked' = Asked /\ Granted' = Granted /\ node' = node
    BY <1>9, <2>1 DEF DropReply, SInv, PlainMessages, votes_vars, join_vars, Asked, Granted
  <2> QED
    BY Zenon, <2>2, QuietStable
<1>10. CASE UNCHANGED vars
  <2>1. PlainMessages(K)' /\ Asked' = Asked /\ Granted' = Granted /\ node' = node
    BY <1>10 DEF vars, SInv, PlainMessages, Asked, Granted
  <2> QED
    BY Zenon, <2>1, QuietStable
<1> DEFINE Stable == StableStep(K)
<1>11. /\ \A s \in Server : BecomeCandidate(s) => Stable
       /\ \A t \in Server, m \in vote_reqs, timed_out \in BOOLEAN :
             HandleVoteRequest(t, m, timed_out) => Stable
       /\ \A m \in vote_replies : HandleVoteReply(m) => Stable
       /\ \A s, t \in Server : /\ SendAppendEntries(s, t) => Stable
                               /\ HandleAppendEntriesRequest(s, t) => Stable
                               /\ HandleAppendEntriesReply(s, t) => Stable
  BY BecomeCandidateStable, HandleVoteRequestStable, HandleVoteReplyStable,
     SendAppendEntriesStable, HandleAppendEntriesRequestStable,
     HandleAppendEntriesReplyStable
<1>12. Stable => OK
  BY Zenon DEF StableStep
<1> HIDE DEF OK, Stable
<1>13. ASSUME Next PROVE OK
  BY Zenon, <1>2, <1>3, <1>4, <1>5, <1>6, <1>7, <1>8, <1>9, <1>11, <1>12, <1>13 DEF Next
<1> QED
  BY Zenon, <1>10, <1>13 DEF OK

-----------------------------------------------------------------------------
(* The formed cluster                                                      *)

\* What a server of a formed cluster knows.
IsJoined(n, f, log, s) ==
    /\ n \in Node
    /\ n.self_id = s
    /\ n.current_term = 1
    /\ n.commit_index = Len(log)
    /\ n.log = log
    /\ n.servers = Server
    /\ n.voting = Server
    /\ s = f => /\ n.state = "LEADER" /\ n.voted_for = f
                /\ n.rcv_votes = 1 /\ n.voted_for_me = {f}
    /\ s # f => /\ n.state = "FOLLOWER" /\ n.voted_for = Nil
                /\ n.rcv_votes = 0 /\ n.voted_for_me = {}
    /\ \A x \in Server : /\ n.next_index[x] > 0
                         /\ s = f /\ x # f => n.next_index[x] > Len(log)

LEMMA JoinedIs ==
    ASSUME NEW f \in Server, NEW log \in Seq(Entry), NEW s \in Server
    PROVE  IsJoined(Joined(Server, f, log, s), f, log, s)
<1> DEFINE st == IF s = f THEN "LEADER" ELSE "FOLLOWER"
           vote == IF s = f THEN f ELSE Nil
           count == IF s = f THEN 1 ELSE 0
           for_me == IF s = f THEN {f} ELSE {}
           next == [x \in Server |-> IF s # f \/ x \notin Server THEN 1
                                     ELSE IF x = f THEN 3 ELSE Len(log) + 1]
           match == [x \in Server |-> IF s = f /\ x \in Server \ {f} THEN Len(log) ELSE 0]
           m == [NewNode(s) EXCEPT
                    !.state = st, !.current_term = 1, !.voted_for = vote,
                    !.current_leader = f, !.rcv_votes = count, !.voted_for_me = for_me,
                    !.commit_index = Len(log), !.log = log, !.servers = Server,
                    !.voting = Server, !.next_index = next, !.match_index = match]
<1>1. Joined(Server, f, log, s) = m
  BY Zenon DEF Joined
<1>2. \A x \in Server : next[x] > 0 /\ (s = f /\ x # f => next[x] > Len(log))
  OBVIOUS
<1>3. /\ st \in State /\ vote \in Server \cup {Nil} /\ count \in Nat
      /\ for_me \in SUBSET Server
      /\ next \in [Server -> Nat] /\ match \in [Server -> Nat] /\ Len(log) \in Nat
  BY DEF State, Running
<1> HIDE DEF st, vote, count, for_me, next, match
<1>4. NewNode(s) \in Node /\ NewNode(s).self_id = s
  BY NewNodeSane DEF Sane
<1>5. m \in Node
  BY Zenon, <1>3, <1>4 DEF Node
<1>6. /\ m.self_id = s /\ m.state = st /\ m.current_term = 1 /\ m.commit_index = Len(log)
      /\ m.log = log /\ m.voted_for = vote /\ m.rcv_votes = count
      /\ m.voted_for_me = for_me /\ m.servers = Server /\ m.voting = Server
      /\ m.next_index = next
  BY <1>4 DEF Node
<1> HIDE DEF m
<1>7. s = f => st = "LEADER" /\ vote = f /\ count = 1 /\ for_me = {f}
  BY DEF st, vote, count, for_me
<1>8. s # f => st = "FOLLOWER" /\ vote = Nil /\ count = 0 /\ for_me = {}
  BY DEF st, vote, count, for_me
<1> QED
  BY Zenon, <1>1, <1>2, <1>5, <1>6, <1>7, <1>8 DEF IsJoined

LEMMA JoinedInitStable ==
    ASSUME NEW f \in Server, NEW log \in Seq(Entry), log # << >>, MaxTerm # 0,
           JoinedInit(Server, f, log)
    PROVE  IInv /\ SInv(Len(log)) /\ E!Init
<1> DEFINE K == Len(log)
<1>1. K \in Nat /\ K > 0 /\ 1 <= MaxTerm
  BY BoundAssumption
<1>2. ASSUME NEW s \in Server
      PROVE  /\ Sane(node[s]) /\ node[s].self_id = s /\ Member(node[s], K)
  <2> DEFINE n == node[s]
  <2>1. IsJoined(n, f, log, s)
    BY Zenon, JoinedIs DEF JoinedInit
  <2> HIDE DEF n
  <2>2. /\ n \in Node /\ n.self_id = s
        /\ n.current_term = 1 /\ n.commit_index = K /\ n.log = log
        /\ n.servers = Server /\ n.voting = Server
        /\ s = f => n.state = "LEADER"
        /\ s # f => n.state = "FOLLOWER"
        /\ \A x \in Server : /\ n.next_index[x] > 0
                             /\ s = f /\ x # f => n.next_index[x] > K
    BY Zenon, <2>1 DEF IsJoined
  <2> HIDE DEF K
  <2>3. \A x \in Server : /\ n.next_index[x] > 0
                          /\ n.state = "LEADER" /\ x # s => n.next_index[x] > K
    BY <2>2
  <2>4. \A i \in K+1..Len(n.log) : n.log[i].command = "RAFT_NOOP"
    BY <1>1, <2>2 DEF K
  <2>5. /\ n.commit_index <= Len(n.log) /\ n.commit_index >= K /\ n.commit_index > 0
        /\ n.current_term <= MaxTerm
        /\ n.state \in {"FOLLOWER", "CANDIDATE", "LEADER", "DOWN"}
    BY <1>1, <2>2 DEF K
  <2>6. Sane(n) /\ Member(n, K)
    BY Zenon, <2>2, <2>3, <2>4, <2>5 DEF Sane, Member
  <2> QED
    BY Zenon, <2>2, <2>6 DEF n
<1>3. node \in [Server -> Node]
  <2>1. \A s \in Server : node[s] \in Node
    BY Zenon, <1>2 DEF Sane
  <2> QED
    BY <2>1 DEF JoinedInit
<1>4. IInv
  BY <1>2, <1>3 DEF IInv, NodesSane, ChannelsTyped, JoinedInit, Empty
<1>5. SInv(K)
  BY <1>2 DEF SInv, PlainMessages, JoinedInit, Empty
<1>6. E!Init
  <2>1. ASSUME NEW s \in Server
        PROVE  /\ node[s].current_term = 1
               /\ s = f => /\ node[s].state = "LEADER" /\ node[s].voted_for = f
                           /\ node[s].rcv_votes = 1 /\ node[s].voted_for_me = {f}
               /\ s # f => /\ node[s].state = "FOLLOWER" /\ node[s].voted_for = Nil
                           /\ node[s].rcv_votes = 0 /\ node[s].voted_for_me = {}
    <3>1. IsJoined(node[s], f, log, s)
      BY Zenon, JoinedIs DEF JoinedInit
    <3> QED
      BY Zenon, <3>1 DEF IsJoined
  <2>2. /\ Roles = [s \in Server |-> IF s = f THEN "LEADER"
                                     ELSE IF s \in Server THEN "FOLLOWER" ELSE "INIT_SERVER"]
        /\ Terms = [s \in Server |-> IF s \in Server THEN 1 ELSE 0]
        /\ VotesGiven = [s \in Server |-> IF s = f THEN f ELSE Nil]
    BY <2>1 DEF Roles, Terms, VotesGiven
  <2>3. /\ VotesTaken = [s \in Server |-> IF s = f THEN {f} ELSE {}]
        /\ VoteCounts = [s \in Server |-> IF s = f THEN 1 ELSE 0]
    BY Zenon, <2>1 DEF VotesTaken, VoteCounts
  <2>4. Asked = {} /\ Granted = {}
    BY DEF Asked, Granted, JoinedInit
  <2> QED
    BY Zenon, <2>2, <2>3, <2>4 DEF E!Init
<1> QED
  BY <1>4, <1>5, <1>6

\* A formed cluster runs the election: in any behaviour of its servers, whatever is
\* lost, late or repeated and whoever stops, what become_candidate, handle_vote_request,
\* handle_vote_reply and match_terms make of the roles, the terms and the votes is a
\* behaviour of module Election.
THEOREM Refinement ==
    ASSUME NEW f \in Server, NEW log \in Seq(Entry), log # << >>, MaxTerm # 0, ConfigStable
    PROVE  JoinedSpec(Server, f, log) => ElectionImplemented
<1> DEFINE K == Len(log)
<1>1. K \in Nat
  OBVIOUS
<1>2. JoinedInit(Server, f, log) => IInv /\ SInv(K) /\ E!Init
  BY JoinedInitStable
<1> HIDE DEF K
<1>3. IInv /\ SInv(K) /\ [Next]_vars => [E!Next]_(E!vars) /\ IInv' /\ SInv(K)'
  BY <1>1, NextStable, NextStep, NodeStepSane DEF IInv
<1> QED
  BY <1>2, <1>3, PTL DEF JoinedSpec, ElectionImplemented, E!Spec

-----------------------------------------------------------------------------
\* What is proved of module Election, for the same view of the servers.
EP == INSTANCE ElectionProofs WITH
         Voting <- Server, state <- Roles, current_term <- Terms, voted_for <- VotesGiven,
         voted_for_me <- VotesTaken, rcv_votes <- VoteCounts, vote_reqs <- Asked,
         votes <- Granted

\* The two instances are of one specification: their helpers are the same.
LEMMA SameHelpers ==
    /\ \A n : E!HasMajorityOfVotes(n) <=> EP!HasMajorityOfVotes(n)
    /\ \A s, term : /\ E!StateAfter(s, term) = EP!StateAfter(s, term)
                    /\ E!TermAfter(s, term) = EP!TermAfter(s, term)
                    /\ E!VoteAfter(s, term) = EP!VoteAfter(s, term)
    /\ E!Running = EP!Running
    /\ E!vars = EP!vars
<1>1. E!Cardinality(Server) = EP!Cardinality(Server)
  BY Zenon DEF E!Cardinality, EP!Cardinality, E!IsFiniteSet, EP!IsFiniteSet
<1>2. \A n : E!HasMajorityOfVotes(n) <=> EP!HasMajorityOfVotes(n)
  BY Zenon, <1>1 DEF E!HasMajorityOfVotes, EP!HasMajorityOfVotes
<1>3. \A s, term : /\ E!StateAfter(s, term) = EP!StateAfter(s, term)
                   /\ E!TermAfter(s, term) = EP!TermAfter(s, term)
                   /\ E!VoteAfter(s, term) = EP!VoteAfter(s, term)
  BY Zenon DEF E!StateAfter, EP!StateAfter, E!TermAfter, EP!TermAfter, E!VoteAfter, EP!VoteAfter
<1>4. E!Running = EP!Running /\ E!vars = EP!vars
  BY Zenon DEF E!Running, EP!Running, E!vars, EP!vars
<1> QED
  BY Zenon, <1>2, <1>3, <1>4

\* And so are their steps.
LEMMA SameSteps == E!Next => EP!Next
<1> SUFFICES ASSUME E!Next PROVE EP!Next
  OBVIOUS
<1>1. CASE \E s \in Server : E!BecomeCandidate(s)
  <2>1. PICK s \in Server : E!BecomeCandidate(s)
    BY <1>1
  <2>2. EP!BecomeCandidate(s)
    BY Zenon, <2>1, SameHelpers DEF E!BecomeCandidate, EP!BecomeCandidate
  <2> QED
    BY Zenon, <2>2 DEF EP!Next
<1>2. CASE \E s \in Server : E!Crash(s)
  <2>1. PICK s \in Server : E!Crash(s)
    BY <1>2
  <2>2. EP!Crash(s)
    BY Zenon, <2>1, SameHelpers DEF E!Crash, EP!Crash
  <2> QED
    BY Zenon, <2>2 DEF EP!Next
<1>3. CASE \E s \in Server, term \in 0..MaxTerm : E!HandleOtherMessage(s, term)
  <2>1. PICK s \in Server, term \in 0..MaxTerm : E!HandleOtherMessage(s, term)
    BY <1>3
  <2>2. EP!HandleOtherMessage(s, term)
    BY Zenon, <2>1, SameHelpers DEF E!HandleOtherMessage, EP!HandleOtherMessage
  <2> QED
    BY Zenon, <2>2 DEF EP!Next
<1>4. CASE \E s \in Server, m \in Asked, log_ok, timed_out \in BOOLEAN :
              E!HandleVoteRequest(s, m, log_ok, timed_out)
  <2>1. PICK s \in Server, m \in Asked, log_ok \in BOOLEAN, timed_out \in BOOLEAN :
              E!HandleVoteRequest(s, m, log_ok, timed_out)
    BY <1>4
  <2>2. EP!HandleVoteRequest(s, m, log_ok, timed_out)
    BY Zenon, <2>1, SameHelpers DEF E!HandleVoteRequest, EP!HandleVoteRequest
  <2> QED
    BY Zenon, <2>2 DEF EP!Next
<1>5. CASE \E m \in Granted : E!HandleVoteReply(m)
  <2>1. PICK m \in Granted : E!HandleVoteReply(m)
    BY <1>5
  <2>2. EP!HandleVoteReply(m)
    BY Zenon, <2>1, SameHelpers DEF E!HandleVoteReply, EP!HandleVoteReply
  <2> QED
    BY Zenon, <2>2 DEF EP!Next
<1> QED
  BY Zenon, <1>1, <1>2, <1>3, <1>4, <1>5 DEF E!Next

\* One leader per term in the whole system (become_leader): while the configuration of a
\* formed cluster does not change, no two of its servers lead in one term, with the
\* logs, the messages, the timeouts and the fatal exits of the code around the election.
THEOREM OneLeaderPerTerm ==
    ASSUME NEW f \in Server, NEW log \in Seq(Entry), log # << >>, MaxTerm # 0, ConfigStable
    PROVE  JoinedSpec(Server, f, log) => []ElectionSafety
<1>1. EP!IsFiniteSet(Server)
  BY ServerAssumption DEF EP!IsFiniteSet, IsFiniteSet
<1>2. MaxTerm \in Nat \ {0}
  BY BoundAssumption
<1>3. EP!Spec => []EP!ElectionSafety
  BY EP!Safety, <1>1, <1>2, NilAssumption
<1>4. E!Init => EP!Init
  BY Zenon DEF E!Init, EP!Init
<1>5. [E!Next]_(E!vars) => [EP!Next]_(EP!vars)
  BY Zenon, SameSteps DEF E!vars, EP!vars
<1>6. EP!ElectionSafety => ElectionSafety
  BY Zenon DEF EP!ElectionSafety, ElectionSafety, IsLeader, Roles, Terms
<1>7. JoinedSpec(Server, f, log) => ElectionImplemented
  BY Refinement
<1> QED
  BY <1>3, <1>4, <1>5, <1>6, <1>7, PTL DEF ElectionImplemented, E!Spec, EP!Spec
=============================================================================
