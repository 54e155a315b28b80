----------------------------- MODULE RaftProofs -----------------------------
(***************************************************************************)
(* The cluster of raft servers for any number of servers and any bounds:   *)
(* types, and that no step takes back what a server has committed.         *)
(***************************************************************************)
EXTENDS Raft, TLAPS

-----------------------------------------------------------------------------
(* The functions of RaftNode, field by field                               *)

\* A server between two critical sections: members of its configuration, its
\* log and its indexes fit together, and it has committed its own ADD_MEMBER
\* once it is more than INIT_SERVER.
Sane(n) ==
    /\ n \in Node
    /\ n.voting \subseteq n.servers
    /\ n.commit_index <= Len(n.log)
    /\ \A x \in Server : n.next_index[x] > 0
    /\ n.state \in {"FOLLOWER", "CANDIDATE", "LEADER"} => n.commit_index > 0

LEMMA NewNodeSane ==
    ASSUME NEW s \in Server
    PROVE  Sane(NewNode(s)) /\ NewNode(s).self_id = s
BY DEF NewNode, Sane, Node, State, Running

LEMMA AddServerIs ==
    ASSUME NEW n \in Node, NEW x \in Server, NEW last \in Nat
    PROVE  LET m == AddServer(n, x, last) IN
           /\ m \in Node
           /\ m.servers = n.servers \cup {x}
           /\ m.match_index = [n.match_index EXCEPT ![x] = last]
           /\ m.next_index = [n.next_index EXCEPT ![x] = last + 1]
           /\ m.voted_for_me \subseteq n.voted_for_me
           /\ m.self_id = n.self_id /\ m.state = n.state
           /\ m.current_term = n.current_term /\ m.voted_for = n.voted_for
           /\ m.current_leader = n.current_leader /\ m.rcv_votes = n.rcv_votes
           /\ m.commit_index = n.commit_index /\ m.log = n.log
           /\ m.voting = n.voting /\ m.is_changing = n.is_changing
           /\ m.logs_match = n.logs_match
<1> DEFINE votes == IF x \in n.servers THEN n.voted_for_me
                    ELSE n.voted_for_me \ {x}
           m == [n EXCEPT !.servers = n.servers \cup {x},
                          !.match_index = [n.match_index EXCEPT ![x] = last],
                          !.next_index = [n.next_index EXCEPT ![x] = last + 1],
                          !.voted_for_me = votes]
<1>1. AddServer(n, x, last) = m
  BY DEF AddServer, Node
<1>2. /\ n.servers \cup {x} \in SUBSET Server
      /\ [n.match_index EXCEPT ![x] = last] \in [Server -> Nat]
      /\ [n.next_index EXCEPT ![x] = last + 1] \in [Server -> Nat]
      /\ votes \in SUBSET Server /\ votes \subseteq n.voted_for_me
  BY DEF Node
<1> HIDE DEF votes
<1>3. m \in Node
  BY Zenon, <1>2 DEF Node
<1>4. /\ m.servers = n.servers \cup {x}
      /\ m.match_index = [n.match_index EXCEPT ![x] = last]
      /\ m.next_index = [n.next_index EXCEPT ![x] = last + 1]
      /\ m.voted_for_me = votes
      /\ m.self_id = n.self_id /\ m.state = n.state
      /\ m.current_term = n.current_term /\ m.voted_for = n.voted_for
      /\ m.current_leader = n.current_leader /\ m.rcv_votes = n.rcv_votes
      /\ m.commit_index = n.commit_index /\ m.log = n.log
      /\ m.voting = n.voting /\ m.is_changing = n.is_changing
      /\ m.logs_match = n.logs_match
  BY DEF Node
<1> QED
  BY Zenon, <1>1, <1>2, <1>3, <1>4

LEMMA RemoveServersIs ==
    ASSUME NEW n \in Node, NEW X \in SUBSET Server
    PROVE  LET m == RemoveServers(n, X) IN
           /\ m \in Node
           /\ m.servers = n.servers \ X
           /\ m.voting = n.voting \ X
           /\ m.match_index = [x \in Server |-> IF x \in X THEN 0 ELSE n.match_index[x]]
           /\ m.next_index = [x \in Server |-> IF x \in X THEN 1 ELSE n.next_index[x]]
           /\ m.voted_for_me = n.voted_for_me \ X
           /\ m.self_id = n.self_id /\ m.state = n.state
           /\ m.current_term = n.current_term /\ m.voted_for = n.voted_for
           /\ m.current_leader = n.current_leader /\ m.rcv_votes = n.rcv_votes
           /\ m.commit_index = n.commit_index /\ m.log = n.log
           /\ m.is_changing = n.is_changing
           /\ m.logs_match = n.logs_match \ X
BY Zenon DEF RemoveServers, Node

\* The servers whose last command in es adds (removes) them, and those that get
\* a new server_t.
Added(es) == {x \in Server : LastIs(es, "ADD_MEMBER", x)}
Deleted(es) == {x \in Server : LastIs(es, "DEL_MEMBER", x)}
Anew(n, es) ==
    {x \in Added(es) : \/ x \notin n.servers
                       \/ \E i \in DOMAIN es : /\ es[i].command = "DEL_MEMBER"
                                               /\ es[i].server = x}

LEMMA AppendEntriesIs ==
    ASSUME NEW n \in Node, NEW es \in Seq(Entry)
    PROVE  LET m == AppendEntries(n, es)
               X == Deleted(es) \cup Anew(n, es) IN
           /\ m \in Node
           /\ m.log = n.log \o es
           /\ m.servers = (n.servers \ X) \cup Added(es)
           /\ m.voting = (n.voting \ X) \cup Added(es)
           /\ m.match_index = [x \in Server |-> IF x \in X THEN 0 ELSE n.match_index[x]]
           /\ m.next_index = [x \in Server |-> IF x \in X THEN 1 ELSE n.next_index[x]]
           /\ m.voted_for_me = n.voted_for_me \ X
           /\ m.self_id = n.self_id /\ m.state = n.state
           /\ m.current_term = n.current_term /\ m.voted_for = n.voted_for
           /\ m.current_leader = n.current_leader /\ m.rcv_votes = n.rcv_votes
           /\ m.commit_index = n.commit_index /\ m.is_changing = n.is_changing
           /\ m.logs_match = n.logs_match \ X
<1> DEFINE X == Deleted(es) \cup Anew(n, es)
           r == RemoveServers(n, X)
           m == [r EXCEPT !.log = @ \o es,
                          !.servers = @ \cup Added(es),
                          !.voting = @ \cup Added(es)]
<1>1. X \in SUBSET Server /\ Added(es) \in SUBSET Server
  BY DEF Added, Deleted, Anew
<1>2. AppendEntries(n, es) = m
  BY Zenon DEF AppendEntries, Added, Deleted, Anew
<1>3. r \in Node
  BY Zenon, <1>1, RemoveServersIs
<1>4. m \in Node
  <2> HIDE DEF r
  <2>1. r.log \in Seq(Entry) /\ r.servers \in SUBSET Server /\ r.voting \in SUBSET Server
    BY Zenon, <1>3 DEF Node
  <2>2. r.log \o es \in Seq(Entry)
    BY <2>1
  <2> QED
    BY Zenon, <1>1, <1>3, <2>1, <2>2 DEF Node
<1>5. /\ m.log = r.log \o es /\ m.servers = r.servers \cup Added(es)
      /\ m.voting = r.voting \cup Added(es)
      /\ m.match_index = r.match_index /\ m.next_index = r.next_index
      /\ m.voted_for_me = r.voted_for_me
      /\ m.self_id = r.self_id /\ m.state = r.state
      /\ m.current_term = r.current_term /\ m.voted_for = r.voted_for
      /\ m.current_leader = r.current_leader /\ m.rcv_votes = r.rcv_votes
      /\ m.commit_index = r.commit_index /\ m.is_changing = r.is_changing
      /\ m.logs_match = r.logs_match
  <2> HIDE DEF r
  <2> QED
    BY Zenon, <1>3 DEF Node
<1> HIDE DEF m, r, X
<1>6. /\ r.log = n.log /\ r.servers = n.servers \ X /\ r.voting = n.voting \ X
      /\ r.match_index = [x \in Server |-> IF x \in X THEN 0 ELSE n.match_index[x]]
      /\ r.next_index = [x \in Server |-> IF x \in X THEN 1 ELSE n.next_index[x]]
      /\ r.voted_for_me = n.voted_for_me \ X
      /\ r.self_id = n.self_id /\ r.state = n.state
      /\ r.current_term = n.current_term /\ r.voted_for = n.voted_for
      /\ r.current_leader = n.current_leader /\ r.rcv_votes = n.rcv_votes
      /\ r.commit_index = n.commit_index /\ r.is_changing = n.is_changing
      /\ r.logs_match = n.logs_match \ X
  BY <1>1, RemoveServersIs DEF r
<1> QED
  BY Zenon, <1>2, <1>4, <1>5, <1>6 DEF X

\* The entries that RemoveEntries(n, kept) removes, and the servers it adds back
\* or takes out.
Cut(n, kept) == SubSeq(n.log, kept + 1, Len(n.log))
Back(n, kept) == {x \in Server : FirstIs(Cut(n, kept), "DEL_MEMBER", x)}
Gone(n, kept) == {x \in Server : FirstIs(Cut(n, kept), "ADD_MEMBER", x)}

LEMMA RemoveEntriesIs ==
    ASSUME NEW n \in Node, NEW kept \in 0 .. Len(n.log)
    PROVE  LET m == RemoveEntries(n, kept)
               X == Back(n, kept) \cup Gone(n, kept) IN
           /\ m \in Node
           /\ m.log = SubSeq(n.log, 1, kept)
           /\ m.servers = (n.servers \ X) \cup Back(n, kept)
           /\ m.voting = (n.voting \ X) \cup Back(n, kept)
           /\ m.match_index = [x \in Server |-> IF x \in X THEN 0 ELSE n.match_index[x]]
           /\ m.next_index = [x \in Server |-> IF x \in X THEN 1 ELSE n.next_index[x]]
           /\ m.voted_for_me = n.voted_for_me \ X
           /\ m.self_id = n.self_id /\ m.state = n.state
           /\ m.current_term = n.current_term /\ m.voted_for = n.voted_for
           /\ m.current_leader = n.current_leader /\ m.rcv_votes = n.rcv_votes
           /\ m.commit_index = n.commit_index /\ m.is_changing = n.is_changing
           /\ m.logs_match = n.logs_match \ X
<1> DEFINE X == Back(n, kept) \cup Gone(n, kept)
           r == RemoveServers(n, X)
           m == [r EXCEPT !.log = SubSeq(@, 1, kept),
                          !.servers = @ \cup Back(n, kept),
                          !.voting = @ \cup Back(n, kept)]
<1>1. X \in SUBSET Server /\ Back(n, kept) \in SUBSET Server
  BY DEF Back, Gone
<1>2. RemoveEntries(n, kept) = m
  BY Zenon DEF RemoveEntries, Back, Gone, Cut
<1>3. r \in Node
  BY Zenon, <1>1, RemoveServersIs
<1>4. r.log = n.log
  BY Zenon, <1>1, RemoveServersIs
<1>5. m \in Node
  <2> HIDE DEF r
  <2>1. r.log \in Seq(Entry) /\ r.servers \in SUBSET Server /\ r.voting \in SUBSET Server
    BY Zenon, <1>3 DEF Node
  <2>2. SubSeq(r.log, 1, kept) \in Seq(Entry)
    BY <1>4, <2>1
  <2> QED
    BY Zenon, <1>1, <1>3, <2>1, <2>2 DEF Node
<1>6. /\ m.log = SubSeq(r.log, 1, kept) /\ m.servers = r.servers \cup Back(n, kept)
      /\ m.voting = r.voting \cup Back(n, kept)
      /\ m.match_index = r.match_index /\ m.next_index = r.next_index
      /\ m.voted_for_me = r.voted_for_me
      /\ m.self_id = r.self_id /\ m.state = r.state
      /\ m.current_term = r.current_term /\ m.voted_for = r.voted_for
      /\ m.current_leader = r.current_leader /\ m.rcv_votes = r.rcv_votes
      /\ m.commit_index = r.commit_index /\ m.is_changing = r.is_changing
      /\ m.logs_match = r.logs_match
  <2> HIDE DEF r
  <2> QED
    BY Zenon, <1>3 DEF Node
<1> HIDE DEF m, r, X
<1>7. /\ r.servers = n.servers \ X /\ r.voting = n.voting \ X
      /\ r.match_index = [x \in Server |-> IF x \in X THEN 0 ELSE n.match_index[x]]
      /\ r.next_index = [x \in Server |-> IF x \in X THEN 1 ELSE n.next_index[x]]
      /\ r.voted_for_me = n.voted_for_me \ X
      /\ r.self_id = n.self_id /\ r.state = n.state
      /\ r.current_term = n.current_term /\ r.voted_for = n.voted_for
      /\ r.current_leader = n.current_leader /\ r.rcv_votes = n.rcv_votes
      /\ r.commit_index = n.commit_index /\ r.is_changing = n.is_changing
      /\ r.logs_match = n.logs_match \ X
  BY <1>1, RemoveServersIs DEF r
<1> QED
  BY Zenon, <1>2, <1>4, <1>5, <1>6, <1>7 DEF X

LEMMA MatchTermsIs ==
    ASSUME NEW n \in Node, NEW term \in Nat
    PROVE  LET m == MatchTerms(n, term) IN
           /\ m \in Node
           /\ m.current_term = IF term > n.current_term THEN term ELSE n.current_term
           /\ m.voted_for = IF term > n.current_term THEN Nil ELSE n.voted_for
           /\ m.state = IF term > n.current_term /\ n.state \in {"LEADER", "CANDIDATE"}
                        THEN "FOLLOWER" ELSE n.state
           /\ m.log = n.log /\ m.servers = n.servers /\ m.voting = n.voting
           /\ m.match_index = n.match_index /\ m.next_index = n.next_index
           /\ m.voted_for_me = n.voted_for_me
           /\ m.self_id = n.self_id /\ m.rcv_votes = n.rcv_votes
           /\ m.commit_index = n.commit_index /\ m.is_changing = n.is_changing
           /\ m.logs_match = n.logs_match
<1>1. n.current_term \in Nat
  BY DEF Node
<1>2. CASE term <= n.current_term
  <2>1. MatchTerms(n, term) = n /\ ~(term > n.current_term)
    BY <1>1, <1>2 DEF MatchTerms
  <2> QED
    BY <2>1
<1>3. CASE ~(term <= n.current_term)
  <2> DEFINE st == IF n.state \in {"LEADER", "CANDIDATE"} THEN "FOLLOWER" ELSE n.state
             m == [n EXCEPT !.current_term = term, !.voted_for = Nil,
                            !.current_leader = Nil, !.state = st]
  <2>1. MatchTerms(n, term) = m /\ term > n.current_term
    BY <1>1, <1>3 DEF MatchTerms, Node
  <2>2. st \in State
    BY DEF Node, State, Running
  <2>3. m \in Node
    <3> HIDE DEF st
    <3> QED
      BY Zenon, <2>2 DEF Node
  <2>4. /\ m.current_term = term /\ m.voted_for = Nil /\ m.state = st
        /\ m.log = n.log /\ m.servers = n.servers /\ m.voting = n.voting
        /\ m.match_index = n.match_index /\ m.next_index = n.next_index
        /\ m.voted_for_me = n.voted_for_me
        /\ m.self_id = n.self_id /\ m.rcv_votes = n.rcv_votes
        /\ m.commit_index = n.commit_index /\ m.is_changing = n.is_changing
        /\ m.logs_match = n.logs_match
    <3> HIDE DEF st
    <3> QED
      BY DEF Node
  <2> QED
    BY Zenon, <2>1, <2>3, <2>4
<1> QED
  BY <1>2, <1>3

LEMMA SetLeaderIs ==
    ASSUME NEW n \in Node, NEW s \in Server
    PROVE  LET m == SetLeader(n, s) IN
           /\ m \in Node
           /\ m.log = n.log /\ m.servers = n.servers /\ m.voting = n.voting
           /\ m.match_index = n.match_index /\ m.next_index = n.next_index
           /\ m.voted_for_me = n.voted_for_me
           /\ m.self_id = n.self_id /\ m.state = n.state
           /\ m.current_term = n.current_term /\ m.voted_for = n.voted_for
           /\ m.rcv_votes = n.rcv_votes
           /\ m.commit_index = n.commit_index /\ m.is_changing = n.is_changing
           /\ m.logs_match = n.logs_match
BY Zenon DEF SetLeader, Node

\* No entry of es is about the configuration.
NoopsOnly(es) == \A i \in DOMAIN es : es[i].command = "RAFT_NOOP"

LEMMA NoopsAppended ==
    ASSUME NEW n \in Node, NEW es \in Seq(Entry), NoopsOnly(es)
    PROVE  LET m == AppendEntries(n, es) IN
           /\ m \in Node
           /\ m.log = n.log \o es
           /\ m.servers = n.servers /\ m.voting = n.voting
           /\ m.match_index = n.match_index /\ m.next_index = n.next_index
           /\ m.voted_for_me = n.voted_for_me
           /\ m.self_id = n.self_id /\ m.state = n.state
           /\ m.current_term = n.current_term /\ m.voted_for = n.voted_for
           /\ m.current_leader = n.current_leader /\ m.rcv_votes = n.rcv_votes
           /\ m.commit_index = n.commit_index /\ m.is_changing = n.is_changing
           /\ m.logs_match = n.logs_match
<1> DEFINE m == AppendEntries(n, es)
<1> DEFINE X == Deleted(es) \cup Anew(n, es)
<1>1. Added(es) = {} /\ X = {}
  BY DEF NoopsOnly, Added, Deleted, Anew, LastIs
<1>2. /\ m \in Node
      /\ m.log = n.log \o es
      /\ m.servers = (n.servers \ X) \cup Added(es)
      /\ m.voting = (n.voting \ X) \cup Added(es)
      /\ m.match_index = [x \in Server |-> IF x \in X THEN 0 ELSE n.match_index[x]]
      /\ m.next_index = [x \in Server |-> IF x \in X THEN 1 ELSE n.next_index[x]]
      /\ m.voted_for_me = n.voted_for_me \ X
      /\ m.self_id = n.self_id /\ m.state = n.state
      /\ m.current_term = n.current_term /\ m.voted_for = n.voted_for
      /\ m.current_leader = n.current_leader /\ m.rcv_votes = n.rcv_votes
      /\ m.commit_index = n.commit_index /\ m.is_changing = n.is_changing
      /\ m.logs_match = n.logs_match \ X
  BY Zenon, AppendEntriesIs
<1> HIDE DEF m, X
<1>3. m.match_index = n.match_index /\ m.next_index = n.next_index
  BY <1>1, <1>2 DEF Node
<1>4. /\ m.servers = n.servers /\ m.voting = n.voting
      /\ m.voted_for_me = n.voted_for_me /\ m.logs_match = n.logs_match
  BY <1>1, <1>2
<1> QED
  BY Zenon, <1>2, <1>3, <1>4 DEF m

LEMMA BecomeLeaderIs ==
    ASSUME NEW n \in Node
    PROVE  LET m == BecomeLeader(n) IN
           /\ m \in Node
           /\ m.state = "LEADER"
           /\ m.log = Append(n.log, Noop(n.current_term))
           /\ m.next_index = [x \in Server |-> IF x \in n.servers
                                               THEN Len(n.log) + 2 ELSE 1]
           /\ m.match_index = [x \in Server |-> 0]
           /\ m.servers = n.servers /\ m.voting = n.voting
           /\ m.voted_for_me = n.voted_for_me
           /\ m.self_id = n.self_id
           /\ m.current_term = n.current_term /\ m.voted_for = n.voted_for
           /\ m.rcv_votes = n.rcv_votes
           /\ m.commit_index = n.commit_index /\ m.is_changing = n.is_changing
           /\ m.logs_match = n.logs_match
<1> DEFINE es == <<Noop(n.current_term)>>
           r == AppendEntries(n, es)
           next == [x \in Server |-> IF x \in r.servers THEN Len(r.log) + 1 ELSE 1]
           m == [r EXCEPT !.state = "LEADER",
                          !.current_leader = n.self_id,
                          !.next_index = next,
                          !.match_index = [x \in Server |-> 0]]
<1>1. BecomeLeader(n) = m
  BY Zenon DEF BecomeLeader
<1>2. Noop(n.current_term) \in Entry /\ n.self_id \in Server /\ n.log \in Seq(Entry)
  BY DEF Node, Noop, Entry
<1>3. es \in Seq(Entry) /\ NoopsOnly(es)
  BY <1>2 DEF NoopsOnly, Noop
<1> HIDE DEF es
<1>4. /\ r \in Node
      /\ r.log = n.log \o es
      /\ r.servers = n.servers /\ r.voting = n.voting
      /\ r.voted_for_me = n.voted_for_me
      /\ r.self_id = n.self_id
      /\ r.current_term = n.current_term /\ r.voted_for = n.voted_for
      /\ r.rcv_votes = n.rcv_votes
      /\ r.commit_index = n.commit_index /\ r.is_changing = n.is_changing
      /\ r.logs_match = n.logs_match
  BY Zenon, <1>3, NoopsAppended
<1>5. n.log \o es = Append(n.log, Noop(n.current_term)) /\ Len(n.log \o es) = Len(n.log) + 1
  BY <1>2 DEF es
<1> HIDE DEF r
<1>6. next = [x \in Server |-> IF x \in n.servers THEN Len(n.log) + 2 ELSE 1]
  BY <1>2, <1>4, <1>5
<1>7. next \in [Server -> Nat]
  BY <1>2, <1>6
<1> HIDE DEF next
<1>8. m \in Node
  BY Zenon, <1>2, <1>4, <1>7 DEF Node, State, Running
<1>9. /\ m.state = "LEADER" /\ m.log = r.log
      /\ m.next_index = next
      /\ m.match_index = [x \in Server |-> 0]
      /\ m.servers = r.servers /\ m.voting = r.voting
      /\ m.voted_for_me = r.voted_for_me
      /\ m.self_id = r.self_id
      /\ m.current_term = r.current_term /\ m.voted_for = r.voted_for
      /\ m.rcv_votes = r.rcv_votes
      /\ m.commit_index = r.commit_index /\ m.is_changing = r.is_changing
      /\ m.logs_match = r.logs_match
  BY Zenon, <1>4 DEF Node
<1> HIDE DEF m
<1> QED
  BY Zenon, <1>1, <1>4, <1>5, <1>6, <1>8, <1>9

\* A server that commits its own ADD_MEMBER.
Joins(n, index) ==
    /\ n.self_id \in n.servers
    /\ \E i \in n.commit_index + 1 .. index :
          n.log[i].command = "ADD_MEMBER" /\ n.log[i].server = n.self_id

\* raft_commit_log_entries raises commit_index to an index of the log, or does
\* nothing.
LEMMA NewCommitIndexIs ==
    ASSUME NEW n \in Node, n.commit_index <= Len(n.log), NEW new \in Nat
    PROVE  /\ NewCommitIndex(n, new) \in Nat
           /\ NewCommitIndex(n, new) <= Len(n.log)
           /\ n.state # "LEADER" => NewCommitIndex(n, new) <= new
<1> DEFINE found == {i \in n.commit_index + 1 .. new :
                       /\ IsSafeCommit(n, i, new)
                       /\ \A j \in i + 1 .. new : ~IsSafeCommit(n, j, new)}
<1>1. n.commit_index \in Nat /\ Len(n.log) \in Nat
  BY DEF Node
<1>2. ASSUME NEW i \in found PROVE i \in Nat /\ i <= Len(n.log)
  <2>1. i \in n.commit_index + 1 .. new /\ IsSafeCommit(n, i, new)
    OBVIOUS
  <2>2. Matches(n, i, n.current_term)
    BY <1>1, <2>1 DEF IsSafeCommit
  <2> QED
    BY <1>1, <2>2 DEF Matches
<1>3. NewCommitIndex(n, new) =
        IF n.state = "LEADER"
        THEN IF found = {} THEN n.commit_index ELSE CHOOSE i \in found : TRUE
        ELSE IF new < Len(n.log) THEN new ELSE Len(n.log)
  BY Zenon DEF NewCommitIndex
<1> HIDE DEF found
<1>4. found # {} => (CHOOSE i \in found : TRUE) \in found
  OBVIOUS
<1> QED
  BY <1>1, <1>2, <1>3, <1>4

LEMMA CommitLogEntriesIs ==
    ASSUME NEW n \in Node, n.commit_index <= Len(n.log), NEW new \in Nat
    PROVE  LET m == CommitLogEntries(n, new)
               index == NewCommitIndex(n, new) IN
           /\ m \in Node
           /\ m.commit_index = IF index <= n.commit_index THEN n.commit_index ELSE index
           /\ m.commit_index >= n.commit_index /\ m.commit_index <= Len(n.log)
           /\ m.state = IF index > n.commit_index /\ Joins(n, index)
                        THEN "FOLLOWER" ELSE n.state
           /\ m.is_changing =
                 IF /\ index > n.commit_index /\ n.state = "LEADER"
                    /\ \E i \in n.commit_index + 1 .. index : n.log[i].command # "RAFT_NOOP"
                 THEN FALSE ELSE n.is_changing
           /\ m.log = n.log /\ m.servers = n.servers /\ m.voting = n.voting
           /\ m.match_index = n.match_index /\ m.next_index = n.next_index
           /\ m.voted_for_me = n.voted_for_me
           /\ m.self_id = n.self_id
           /\ m.current_term = n.current_term /\ m.voted_for = n.voted_for
           /\ m.current_leader = n.current_leader /\ m.rcv_votes = n.rcv_votes
           /\ m.logs_match = n.logs_match
<1> DEFINE index == NewCommitIndex(n, new)
           config == \E i \in n.commit_index + 1 .. index : n.log[i].command # "RAFT_NOOP"
           flag == IF n.state = "LEADER" /\ config THEN FALSE ELSE n.is_changing
           st == IF Joins(n, index) THEN "FOLLOWER" ELSE n.state
           m == [n EXCEPT !.is_changing = flag, !.commit_index = index, !.state = st]
<1>1. index \in Nat /\ index <= Len(n.log) /\ n.commit_index \in Nat
  BY Zenon, NewCommitIndexIs DEF Node
<1>2. CASE index <= n.commit_index
  <2>1. CommitLogEntries(n, new) = n /\ ~(index > n.commit_index)
    <3> HIDE DEF index
    <3>1. ~(index > n.commit_index)
      BY <1>1, <1>2
    <3> QED
      BY Zenon, <1>2, <3>1 DEF CommitLogEntries, index
  <2>2. n.commit_index >= n.commit_index
    BY <1>1
  <2> HIDE DEF index
  <2> QED
    BY Zenon, <1>2, <2>1, <2>2 DEF index
<1>3. CASE ~(index <= n.commit_index)
  <2> DEFINE r == [n EXCEPT !.is_changing = flag]
  <2>1. index > n.commit_index
    BY <1>1, <1>3
  <2>2. flag \in BOOLEAN /\ st \in State
    BY Zenon DEF Node, State, Running
  <2>3. /\ r.self_id = n.self_id /\ r.servers = n.servers /\ r.state = n.state
        /\ r.commit_index = n.commit_index /\ r.log = n.log
    <3> HIDE DEF flag
    <3> QED
      BY DEF Node
  <2>4. CommitLogEntries(n, new) = ApplyLogEntries(r, index)
    <3>1. [n EXCEPT !.is_changing = IF n.state = "LEADER" /\ config THEN FALSE ELSE @] = r
      <4> HIDE DEF config
      <4> QED
        BY DEF Node
    <3> HIDE DEF r
    <3> QED
      BY Zenon, <1>3, <3>1 DEF CommitLogEntries
  <2>5. ApplyLogEntries(r, index) = [r EXCEPT !.commit_index = index, !.state = st]
    <3> HIDE DEF r, index
    <3> QED
      BY Zenon, <2>3 DEF ApplyLogEntries, Joins
  <2> HIDE DEF index, st, flag
  <2>6. [r EXCEPT !.commit_index = index, !.state = st] = m
    BY DEF Node
  <2>7. m \in Node
    BY Zenon, <1>1, <2>2 DEF Node
  <2>8. /\ m.commit_index = index /\ m.state = st /\ m.is_changing = flag
        /\ m.log = n.log /\ m.servers = n.servers /\ m.voting = n.voting
        /\ m.match_index = n.match_index /\ m.next_index = n.next_index
        /\ m.voted_for_me = n.voted_for_me
        /\ m.self_id = n.self_id
        /\ m.current_term = n.current_term /\ m.voted_for = n.voted_for
        /\ m.current_leader = n.current_leader /\ m.rcv_votes = n.rcv_votes
        /\ m.logs_match = n.logs_match
    BY DEF Node
  <2>9. index >= n.commit_index
    BY <1>1, <2>1
  <2>10. CommitLogEntries(n, new) = m
    BY Zenon, <2>4, <2>5, <2>6
  <2> HIDE DEF m
  <2>11. m.commit_index = IF index <= n.commit_index THEN n.commit_index ELSE index
    BY Zenon, <1>3, <2>8
  <2>12. m.state = IF index > n.commit_index /\ Joins(n, index) THEN "FOLLOWER" ELSE n.state
    BY Zenon, <2>1, <2>8 DEF st
  <2>13. m.is_changing = IF /\ index > n.commit_index /\ n.state = "LEADER"
                            /\ \E i \in n.commit_index + 1 .. index : n.log[i].command # "RAFT_NOOP"
                         THEN FALSE ELSE n.is_changing
    BY Zenon, <2>1, <2>8 DEF flag
  <2>14. m.commit_index >= n.commit_index /\ m.commit_index <= Len(n.log)
    BY Zenon, <1>1, <2>8, <2>9
  <2> QED
    BY Zenon, <2>7, <2>8, <2>10, <2>11, <2>12, <2>13, <2>14 DEF index
<1> QED
  BY Zenon, <1>2, <1>3

-----------------------------------------------------------------------------
(* What is committed stays                                                 *)

\* m is the server n after some function: what n had committed is still there.
Kept(n, m) ==
    /\ n.commit_index <= m.commit_index
    /\ AgreeUpTo(n.log, m.log, n.commit_index)

Follows(n, m) == Sane(m) /\ m.self_id = n.self_id /\ Kept(n, m)

LEMMA SaneTypes ==
    ASSUME NEW n, Sane(n)
    PROVE  /\ n \in Node
           /\ n.commit_index \in Nat /\ n.current_term \in Nat /\ n.rcv_votes \in Nat
           /\ n.log \in Seq(Entry) /\ Len(n.log) \in Nat /\ n.commit_index <= Len(n.log)
           /\ n.next_index \in [Server -> Nat] /\ n.match_index \in [Server -> Nat]
           /\ n.voting \in SUBSET Server /\ n.servers \in SUBSET Server
           /\ n.voted_for_me \in SUBSET Server /\ n.logs_match \in SUBSET Server
<1>1. n \in Node /\ n.commit_index <= Len(n.log)
  BY Zenon DEF Sane
<1>2. /\ n.commit_index \in Nat /\ n.current_term \in Nat /\ n.rcv_votes \in Nat
      /\ n.log \in Seq(Entry)
      /\ n.next_index \in [Server -> Nat] /\ n.match_index \in [Server -> Nat]
      /\ n.voting \in SUBSET Server /\ n.servers \in SUBSET Server
      /\ n.voted_for_me \in SUBSET Server /\ n.logs_match \in SUBSET Server
  BY Zenon, <1>1 DEF Node
<1>3. Len(n.log) \in Nat
  BY <1>2
<1> QED
  BY Zenon, <1>1, <1>2, <1>3

LEMMA SameLogKept ==
    ASSUME NEW n, NEW m, Sane(n), Sane(m), m.log = n.log,
           n.commit_index <= m.commit_index
    PROVE  Kept(n, m)
<1>1. Len(n.log) \in Nat /\ n.commit_index \in Nat /\ n.commit_index <= Len(n.log)
  BY SaneTypes
<1> QED
  BY <1>1 DEF Kept, AgreeUpTo, Min2

LEMMA FollowsTransitive ==
    ASSUME NEW n, NEW m, NEW k, Sane(n), Follows(n, m), Follows(m, k)
    PROVE  Follows(n, k)
<1>1. /\ Len(n.log) \in Nat /\ n.commit_index \in Nat
      /\ Len(m.log) \in Nat /\ m.commit_index \in Nat
      /\ Len(k.log) \in Nat /\ k.commit_index \in Nat
  BY SaneTypes DEF Follows
<1> QED
  BY <1>1 DEF Follows, Kept, AgreeUpTo, Min2

LEMMA MatchTermsFollows ==
    ASSUME NEW n, Sane(n), NEW term \in Nat
    PROVE  Follows(n, MatchTerms(n, term))
<1> DEFINE m == MatchTerms(n, term)
<1>1. n \in Node /\ n.commit_index \in Nat
  BY SaneTypes
<1>2. /\ m \in Node /\ m.log = n.log /\ m.commit_index = n.commit_index
      /\ m.servers = n.servers /\ m.voting = n.voting /\ m.next_index = n.next_index
      /\ m.self_id = n.self_id
      /\ m.state \in {"FOLLOWER", "CANDIDATE", "LEADER"} =>
            n.state \in {"FOLLOWER", "CANDIDATE", "LEADER"}
  BY <1>1, MatchTermsIs
<1> HIDE DEF m
<1>3. Sane(m)
  BY Zenon, <1>2 DEF Sane
<1>4. Kept(n, m)
  BY <1>1, <1>2, <1>3, SameLogKept
<1> QED
  BY <1>2, <1>3, <1>4 DEF Follows, m

LEMMA SetLeaderFollows ==
    ASSUME NEW n, Sane(n), NEW s \in Server
    PROVE  Follows(n, SetLeader(n, s))
<1> DEFINE m == SetLeader(n, s)
<1>1. n \in Node /\ n.commit_index \in Nat
  BY SaneTypes
<1>2. /\ m \in Node /\ m.log = n.log /\ m.commit_index = n.commit_index
      /\ m.servers = n.servers /\ m.voting = n.voting /\ m.next_index = n.next_index
      /\ m.self_id = n.self_id /\ m.state = n.state
  BY Zenon, <1>1, SetLeaderIs
<1> HIDE DEF m
<1>3. Sane(m)
  BY Zenon, <1>2 DEF Sane
<1>4. Kept(n, m)
  BY <1>1, <1>2, <1>3, SameLogKept
<1> QED
  BY <1>2, <1>3, <1>4 DEF Follows, m

LEMMA AddServerFollows ==
    ASSUME NEW n, Sane(n), NEW x \in Server, NEW last \in Nat
    PROVE  Follows(n, AddServer(n, x, last))
<1> DEFINE m == AddServer(n, x, last)
<1>1. n \in Node /\ n.commit_index \in Nat
  BY SaneTypes
<1>2. /\ m \in Node /\ m.log = n.log /\ m.commit_index = n.commit_index
      /\ m.servers = n.servers \cup {x} /\ m.voting = n.voting
      /\ m.next_index = [n.next_index EXCEPT ![x] = last + 1]
      /\ m.self_id = n.self_id /\ m.state = n.state
  <2>1. m \in Node /\ m.log = n.log /\ m.commit_index = n.commit_index
    BY Zenon, <1>1, AddServerIs
  <2>2. m.servers = n.servers \cup {x} /\ m.voting = n.voting
    BY Zenon, <1>1, AddServerIs
  <2>3. m.next_index = [n.next_index EXCEPT ![x] = last + 1]
    BY Zenon, <1>1, AddServerIs
  <2>4. m.self_id = n.self_id /\ m.state = n.state
    BY Zenon, <1>1, AddServerIs
  <2> QED
    BY Zenon, <2>1, <2>2, <2>3, <2>4
<1> HIDE DEF m
<1>3. \A y \in Server : m.next_index[y] > 0
  BY <1>2, SaneTypes DEF Sane
<1>4. Sane(m)
  BY <1>2, <1>3 DEF Sane
<1>5. Kept(n, m)
  BY <1>1, <1>2, <1>4, SameLogKept
<1> QED
  BY <1>2, <1>4, <1>5 DEF Follows, m

LEMMA RemoveServersFollows ==
    ASSUME NEW n, Sane(n), NEW X \in SUBSET Server
    PROVE  Follows(n, RemoveServers(n, X))
<1> DEFINE m == RemoveServers(n, X)
<1>1. n \in Node /\ n.commit_index \in Nat
  BY SaneTypes
<1>2. /\ m \in Node /\ m.log = n.log /\ m.commit_index = n.commit_index
      /\ m.servers = n.servers \ X /\ m.voting = n.voting \ X
      /\ m.next_index = [x \in Server |-> IF x \in X THEN 1 ELSE n.next_index[x]]
      /\ m.self_id = n.self_id /\ m.state = n.state
  <2>1. m \in Node /\ m.log = n.log /\ m.commit_index = n.commit_index
    BY Zenon, <1>1, RemoveServersIs
  <2>2. m.servers = n.servers \ X /\ m.voting = n.voting \ X
    BY <1>1 DEF RemoveServers, Node
  <2>3. m.next_index = [x \in Server |-> IF x \in X THEN 1 ELSE n.next_index[x]]
    BY Zenon, <1>1, RemoveServersIs
  <2>4. m.self_id = n.self_id /\ m.state = n.state
    BY Zenon, <1>1, RemoveServersIs
  <2> QED
    BY Zenon, <2>1, <2>2, <2>3, <2>4
<1> HIDE DEF m
<1>3. \A y \in Server : m.next_index[y] > 0
  BY <1>2, SaneTypes DEF Sane
<1>4. Sane(m)
  BY <1>2, <1>3 DEF Sane
<1>5. Kept(n, m)
  BY <1>1, <1>2, <1>4, SameLogKept
<1> QED
  BY <1>2, <1>4, <1>5 DEF Follows, m

LEMMA AppendEntriesFollows ==
    ASSUME NEW n, Sane(n), NEW es \in Seq(Entry)
    PROVE  Follows(n, AppendEntries(n, es))
<1> DEFINE m == AppendEntries(n, es)
           X == Deleted(es) \cup Anew(n, es)
<1>1. n \in Node /\ n.commit_index \in Nat /\ n.log \in Seq(Entry)
  BY SaneTypes
<1>2. /\ m \in Node /\ m.log = n.log \o es /\ m.commit_index = n.commit_index
      /\ m.servers = (n.servers \ X) \cup Added(es)
      /\ m.voting = (n.voting \ X) \cup Added(es)
      /\ m.next_index = [x \in Server |-> IF x \in X THEN 1 ELSE n.next_index[x]]
      /\ m.self_id = n.self_id /\ m.state = n.state
  BY Zenon, <1>1, AppendEntriesIs
<1> HIDE DEF m, X
<1>3. \A y \in Server : m.next_index[y] > 0
  BY <1>2, SaneTypes DEF Sane
<1>4. /\ Len(n.log) <= Len(m.log) /\ Len(m.log) \in Nat /\ Len(n.log) \in Nat
      /\ \A i \in 1 .. Len(n.log) : m.log[i] = n.log[i]
  BY <1>1, <1>2
<1>5. n.commit_index <= Len(n.log)
  BY DEF Sane
<1>6. Sane(m)
  BY <1>1, <1>2, <1>3, <1>4, <1>5 DEF Sane
<1>7. Kept(n, m)
  BY <1>1, <1>2, <1>4, <1>5 DEF Kept, AgreeUpTo, Min2
<1> QED
  BY <1>2, <1>6, <1>7 DEF Follows, m

LEMMA RemoveEntriesFollows ==
    ASSUME NEW n, Sane(n), NEW kept \in n.commit_index .. Len(n.log)
    PROVE  Follows(n, RemoveEntries(n, kept))
<1> DEFINE m == RemoveEntries(n, kept)
           X == Back(n, kept) \cup Gone(n, kept)
<1>1. /\ n \in Node /\ n.commit_index \in Nat /\ n.log \in Seq(Entry)
      /\ Len(n.log) \in Nat /\ kept \in 0 .. Len(n.log) /\ n.commit_index <= kept
  BY SaneTypes
<1>2. /\ m \in Node /\ m.log = SubSeq(n.log, 1, kept) /\ m.commit_index = n.commit_index
      /\ m.servers = (n.servers \ X) \cup Back(n, kept)
      /\ m.voting = (n.voting \ X) \cup Back(n, kept)
      /\ m.next_index = [x \in Server |-> IF x \in X THEN 1 ELSE n.next_index[x]]
      /\ m.self_id = n.self_id /\ m.state = n.state
  BY Zenon, <1>1, RemoveEntriesIs
<1> HIDE DEF m, X
<1>3. \A y \in Server : m.next_index[y] > 0
  BY <1>2, SaneTypes DEF Sane
<1>4. /\ Len(m.log) = kept
      /\ \A i \in 1 .. kept : m.log[i] = n.log[i]
  BY <1>1, <1>2
<1>5. Sane(m)
  BY <1>1, <1>2, <1>3, <1>4 DEF Sane
<1>6. Kept(n, m)
  BY <1>1, <1>2, <1>4 DEF Kept, AgreeUpTo, Min2
<1> QED
  BY <1>2, <1>5, <1>6 DEF Follows, m

LEMMA BecomeLeaderFollows ==
    ASSUME NEW n, Sane(n), n.commit_index > 0
    PROVE  Follows(n, BecomeLeader(n))
<1> DEFINE m == BecomeLeader(n)
<1>1. n \in Node /\ n.commit_index \in Nat /\ n.log \in Seq(Entry) /\ Len(n.log) \in Nat
  BY SaneTypes
<1>2. /\ m \in Node /\ m.log = Append(n.log, Noop(n.current_term))
      /\ m.commit_index = n.commit_index
      /\ m.servers = n.servers /\ m.voting = n.voting
      /\ m.next_index = [x \in Server |-> IF x \in n.servers THEN Len(n.log) + 2 ELSE 1]
      /\ m.self_id = n.self_id
  BY Zenon, <1>1, BecomeLeaderIs
<1> HIDE DEF m
<1>3. \A y \in Server : m.next_index[y] > 0
  BY <1>1, <1>2
<1>4. Noop(n.current_term) \in Entry
  BY <1>1 DEF Node, Noop, Entry
<1>5. /\ Len(m.log) = Len(n.log) + 1
      /\ \A i \in 1 .. Len(n.log) : m.log[i] = n.log[i]
  BY <1>1, <1>2, <1>4
<1>6. Sane(m)
  BY <1>1, <1>2, <1>3, <1>5 DEF Sane
<1>7. Kept(n, m)
  BY <1>1, <1>2, <1>5 DEF Kept, AgreeUpTo, Min2, Sane
<1> QED
  BY <1>2, <1>6, <1>7 DEF Follows, m

LEMMA CommitLogEntriesFollows ==
    ASSUME NEW n, Sane(n), NEW new \in Nat
    PROVE  Follows(n, CommitLogEntries(n, new))
<1> DEFINE m == CommitLogEntries(n, new)
           index == NewCommitIndex(n, new)
<1>1. n \in Node /\ n.commit_index \in Nat /\ n.commit_index <= Len(n.log)
  BY SaneTypes
<1>2. /\ m \in Node /\ m.log = n.log
      /\ m.commit_index = IF index <= n.commit_index THEN n.commit_index ELSE index
      /\ m.commit_index >= n.commit_index /\ m.commit_index <= Len(n.log)
      /\ m.state = IF index > n.commit_index /\ Joins(n, index) THEN "FOLLOWER" ELSE n.state
      /\ m.servers = n.servers /\ m.voting = n.voting /\ m.next_index = n.next_index
      /\ m.self_id = n.self_id
  BY Zenon, <1>1, CommitLogEntriesIs
<1>3. index \in Nat
  BY <1>1, NewCommitIndexIs
<1> HIDE DEF m, index
<1>4. m.state \in {"FOLLOWER", "CANDIDATE", "LEADER"} => m.commit_index > 0
  BY <1>1, <1>2, <1>3 DEF Sane
<1>5. Sane(m)
  BY <1>1, <1>2, <1>4 DEF Sane
<1>6. Kept(n, m)
  BY <1>1, <1>2, <1>5, SameLogKept
<1> QED
  BY <1>2, <1>5, <1>6 DEF Follows, m

\* A step that leaves the log and the configuration alone.
LEMMA SameLogFollows ==
    ASSUME NEW n, Sane(n), NEW m \in Node,
           m.log = n.log, m.commit_index = n.commit_index, m.self_id = n.self_id,
           m.servers = n.servers, m.voting = n.voting,
           \A x \in Server : m.next_index[x] > 0,
           m.state \in {"FOLLOWER", "CANDIDATE", "LEADER"} => n.commit_index > 0
    PROVE  Follows(n, m)
<1>1. n.commit_index \in Nat
  BY SaneTypes
<1>2. Sane(m)
  BY Zenon DEF Sane
<1>3. Kept(n, m)
  BY <1>1, <1>2, SameLogKept
<1> QED
  BY <1>2, <1>3 DEF Follows

LEMMA ExitFollows ==
    ASSUME NEW n, Sane(n), NEW st \in {"DOWN", "HUNG"}
    PROVE  Follows(n, [n EXCEPT !.state = st])
<1> DEFINE m == [n EXCEPT !.state = st]
<1>1. n \in Node
  BY DEF Sane
<1>2. m \in Node
  BY Zenon, <1>1 DEF Node, State
<1>3. /\ m.log = n.log /\ m.commit_index = n.commit_index /\ m.self_id = n.self_id
      /\ m.servers = n.servers /\ m.voting = n.voting /\ m.next_index = n.next_index
      /\ m.state = st
  BY <1>1 DEF Node
<1> HIDE DEF m
<1>4. m.state \notin {"FOLLOWER", "CANDIDATE", "LEADER"}
  BY <1>3
<1>5. \A x \in Server : m.next_index[x] > 0
  BY Zenon, <1>3 DEF Sane
<1> QED
  BY Zenon, <1>2, <1>3, <1>4, <1>5, SameLogFollows DEF m

LEMMA CandidateIs ==
    ASSUME NEW n \in Node, NEW s \in Server
    PROVE  LET m == [n EXCEPT !.state = "CANDIDATE", !.current_term = @ + 1,
                              !.voted_for = s, !.rcv_votes = 1, !.voted_for_me = {s}] IN
           /\ m \in Node
           /\ m.state = "CANDIDATE" /\ m.current_term = n.current_term + 1
           /\ m.voted_for = s /\ m.rcv_votes = 1 /\ m.voted_for_me = {s}
           /\ m.log = n.log /\ m.commit_index = n.commit_index /\ m.self_id = n.self_id
           /\ m.servers = n.servers /\ m.voting = n.voting
           /\ m.next_index = n.next_index /\ m.match_index = n.match_index
           /\ m.is_changing = n.is_changing
<1> DEFINE m == [n EXCEPT !.state = "CANDIDATE", !.current_term = @ + 1,
                          !.voted_for = s, !.rcv_votes = 1, !.voted_for_me = {s}]
<1>1. n.current_term + 1 \in Nat /\ "CANDIDATE" \in State
  BY DEF Node, State, Running
<1>2. m \in Node
  BY Zenon, <1>1 DEF Node
<1>3. /\ m.state = "CANDIDATE" /\ m.current_term = n.current_term + 1
      /\ m.voted_for = s /\ m.rcv_votes = 1 /\ m.voted_for_me = {s}
      /\ m.log = n.log /\ m.commit_index = n.commit_index /\ m.self_id = n.self_id
      /\ m.servers = n.servers /\ m.voting = n.voting
      /\ m.next_index = n.next_index /\ m.match_index = n.match_index
      /\ m.is_changing = n.is_changing
  BY DEF Node
<1> HIDE DEF m
<1> QED
  BY Zenon, <1>2, <1>3 DEF m

\* voted, of handle_vote_reply.
LEMMA VotedIs ==
    ASSUME NEW n \in Node, NEW v \in Server
    PROVE  LET m == [n EXCEPT !.voted_for_me = @ \cup {v}, !.rcv_votes = @ + 1] IN
           /\ m \in Node
           /\ m.voted_for_me = n.voted_for_me \cup {v} /\ m.rcv_votes = n.rcv_votes + 1
           /\ m.state = n.state /\ m.current_term = n.current_term
           /\ m.voted_for = n.voted_for
           /\ m.log = n.log /\ m.commit_index = n.commit_index /\ m.self_id = n.self_id
           /\ m.servers = n.servers /\ m.voting = n.voting
           /\ m.next_index = n.next_index /\ m.match_index = n.match_index
           /\ m.is_changing = n.is_changing
<1> DEFINE m == [n EXCEPT !.voted_for_me = @ \cup {v}, !.rcv_votes = @ + 1]
<1>1. n.rcv_votes + 1 \in Nat /\ n.voted_for_me \cup {v} \in SUBSET Server
  BY DEF Node
<1>2. m \in Node
  BY Zenon, <1>1 DEF Node
<1>3. /\ m.voted_for_me = n.voted_for_me \cup {v} /\ m.rcv_votes = n.rcv_votes + 1
      /\ m.state = n.state /\ m.current_term = n.current_term
      /\ m.voted_for = n.voted_for
      /\ m.log = n.log /\ m.commit_index = n.commit_index /\ m.self_id = n.self_id
      /\ m.servers = n.servers /\ m.voting = n.voting
      /\ m.next_index = n.next_index /\ m.match_index = n.match_index
      /\ m.is_changing = n.is_changing
  BY DEF Node
<1> HIDE DEF m
<1> QED
  BY Zenon, <1>2, <1>3 DEF m

\* The server after a vote is given, a heartbeat is sent or a reply is counted.
LEMMA VoteGivenIs ==
    ASSUME NEW n \in Node, NEW v \in Server \cup {Nil}
    PROVE  LET m == [n EXCEPT !.voted_for = v] IN
           /\ m \in Node /\ m.voted_for = v
           /\ m.voted_for_me = n.voted_for_me /\ m.rcv_votes = n.rcv_votes
           /\ m.state = n.state /\ m.current_term = n.current_term
           /\ m.log = n.log /\ m.commit_index = n.commit_index /\ m.self_id = n.self_id
           /\ m.servers = n.servers /\ m.voting = n.voting
           /\ m.next_index = n.next_index /\ m.match_index = n.match_index
           /\ m.is_changing = n.is_changing
BY Zenon DEF Node

LEMMA LogsMatchIs ==
    ASSUME NEW n \in Node, NEW X \in SUBSET Server
    PROVE  LET m == [n EXCEPT !.logs_match = X] IN
           /\ m \in Node /\ m.logs_match = X /\ m.voted_for = n.voted_for
           /\ m.voted_for_me = n.voted_for_me /\ m.rcv_votes = n.rcv_votes
           /\ m.state = n.state /\ m.current_term = n.current_term
           /\ m.log = n.log /\ m.commit_index = n.commit_index /\ m.self_id = n.self_id
           /\ m.servers = n.servers /\ m.voting = n.voting
           /\ m.next_index = n.next_index /\ m.match_index = n.match_index
           /\ m.is_changing = n.is_changing
BY Zenon DEF Node

LEMMA FlaggedIs ==
    ASSUME NEW n \in Node
    PROVE  LET m == [n EXCEPT !.is_changing = TRUE] IN
           /\ m \in Node /\ m.is_changing = TRUE
           /\ m.logs_match = n.logs_match /\ m.voted_for = n.voted_for
           /\ m.voted_for_me = n.voted_for_me /\ m.rcv_votes = n.rcv_votes
           /\ m.state = n.state /\ m.current_term = n.current_term
           /\ m.log = n.log /\ m.commit_index = n.commit_index /\ m.self_id = n.self_id
           /\ m.servers = n.servers /\ m.voting = n.voting
           /\ m.next_index = n.next_index /\ m.match_index = n.match_index
BY Zenon DEF Node

\* The leader n after a reply from t (handle_append_entries_reply).
Counted(n, t, last, match) ==
    [n EXCEPT !.next_index[t] = last + 1, !.match_index[t] = match]

LEMMA CountedIndexes ==
    ASSUME NEW n \in Node, NEW t \in Server, NEW last \in Nat, NEW match \in Nat
    PROVE  LET m == Counted(n, t, last, match) IN
           \A x \in Server :
              /\ m.next_index[x] = IF x = t THEN last + 1 ELSE n.next_index[x]
              /\ m.match_index[x] = IF x = t THEN match ELSE n.match_index[x]
BY DEF Node, Counted

LEMMA CountedIs ==
    ASSUME NEW n \in Node, NEW t \in Server, NEW last \in Nat, NEW match \in Nat
    PROVE  LET m == Counted(n, t, last, match) IN
           /\ m \in Node
           /\ m.logs_match = n.logs_match /\ m.voted_for = n.voted_for
           /\ m.voted_for_me = n.voted_for_me /\ m.rcv_votes = n.rcv_votes
           /\ m.state = n.state /\ m.current_term = n.current_term
           /\ m.log = n.log /\ m.commit_index = n.commit_index /\ m.self_id = n.self_id
           /\ m.servers = n.servers /\ m.voting = n.voting
           /\ m.is_changing = n.is_changing
<1> DEFINE next == [n.next_index EXCEPT ![t] = last + 1]
           matches == [n.match_index EXCEPT ![t] = match]
           m == [n EXCEPT !.next_index = next, !.match_index = matches]
<1>1. Counted(n, t, last, match) = m
  BY DEF Node, Counted
<1>2. next \in [Server -> Nat] /\ matches \in [Server -> Nat]
  BY DEF Node
<1> HIDE DEF next, matches
<1>3. m \in Node
  BY Zenon, <1>2 DEF Node
<1>4. /\ m.next_index = next /\ m.match_index = matches
      /\ m.logs_match = n.logs_match /\ m.voted_for = n.voted_for
      /\ m.voted_for_me = n.voted_for_me /\ m.rcv_votes = n.rcv_votes
      /\ m.state = n.state /\ m.current_term = n.current_term
      /\ m.log = n.log /\ m.commit_index = n.commit_index /\ m.self_id = n.self_id
      /\ m.servers = n.servers /\ m.voting = n.voting
      /\ m.is_changing = n.is_changing
  BY DEF Node
<1> HIDE DEF m
<1> QED
  BY Zenon, <1>1, <1>3, <1>4 DEF next, matches

LEMMA CountedFollows ==
    ASSUME NEW n, Sane(n), NEW t \in Server, NEW last \in Nat, NEW match \in Nat
    PROVE  Follows(n, Counted(n, t, last, match))
<1> DEFINE k == Counted(n, t, last, match)
<1>1. n \in Node
  BY SaneTypes
<1>2. k \in Node /\ k.log = n.log /\ k.commit_index = n.commit_index
  BY <1>1, CountedIs
<1>3. /\ k.self_id = n.self_id /\ k.servers = n.servers
      /\ k.voting = n.voting /\ k.state = n.state
  BY <1>1, CountedIs
<1>4. \A x \in Server : k.next_index[x] = IF x = t THEN last + 1 ELSE n.next_index[x]
  BY <1>1, CountedIndexes
<1> HIDE DEF k
<1>5. \A x \in Server : k.next_index[x] > 0
  <2>1. \A x \in Server : n.next_index[x] > 0 /\ last + 1 > 0
    BY DEF Sane
  <2> QED
    BY <1>4, <2>1
<1>6. k.state \in {"FOLLOWER", "CANDIDATE", "LEADER"} => n.commit_index > 0
  BY Zenon, <1>3 DEF Sane
<1>7. Sane(k)
  BY Zenon, <1>2, <1>3, <1>5, <1>6 DEF Sane
<1>8. Kept(n, k)
  BY <1>1, <1>2, <1>7, SameLogKept, SaneTypes
<1> QED
  BY Zenon, <1>3, <1>7, <1>8 DEF Follows, k

-----------------------------------------------------------------------------
(* The steps of the cluster                                                *)

NodesSane ==
    /\ node \in [Server -> Node]
    /\ \A s \in Server : Sane(node[s]) /\ node[s].self_id = s

ChannelsTyped ==
    /\ vote_reqs \in SUBSET VoteReq
    /\ vote_replies \in SUBSET VoteReply
    /\ reqs \in [Server -> [Server -> Seq(AppendReq)]]
    /\ replies \in [Server -> [Server -> Seq(AppendReply)]]
    /\ joins \in SUBSET MembershipReq
    /\ redis_key \in Server \cup {Nil}

\* TypeOK, and FOLLOWERs, CANDIDATEs and LEADERs have committed an entry: a
\* candidate has a last entry, whose term its VOTE_REQ carries.
IInv == NodesSane /\ ChannelsTyped

\* Every server keeps what it has committed, or starts anew.
NodeStep ==
    /\ node' \in [Server -> Node]
    /\ \A s \in Server : Follows(node[s], node'[s]) \/ node'[s] = NewNode(s)

LEMMA UnchangedFollows ==
    ASSUME NodesSane, NEW s \in Server
    PROVE  Follows(node[s], node[s])
<1>1. Sane(node[s]) /\ node[s].commit_index \in Nat
  BY SaneTypes DEF NodesSane
<1> QED
  BY <1>1, SameLogKept DEF Follows

LEMMA OneNodeStep ==
    ASSUME NodesSane, NEW s \in Server, NEW n, Follows(node[s], n),
           node' = [node EXCEPT ![s] = n]
    PROVE  NodeStep
<1>1. n \in Node
  BY DEF Follows, Sane
<1>2. node' \in [Server -> Node]
  BY <1>1 DEF NodesSane
<1>3. ASSUME NEW t \in Server PROVE Follows(node[t], node'[t])
  <2>1. node'[t] = IF t = s THEN n ELSE node[t]
    BY DEF NodesSane
  <2> QED
    BY <2>1, UnchangedFollows
<1> QED
  BY <1>2, <1>3 DEF NodeStep

LEMMA SameNodeStep ==
    ASSUME NodesSane, node' = node
    PROVE  NodeStep
BY UnchangedFollows DEF NodeStep, NodesSane

LEMMA NodeStepSane ==
    ASSUME NodesSane, NodeStep
    PROVE  NodesSane'
<1> SUFFICES ASSUME NEW s \in Server PROVE Sane(node'[s]) /\ node'[s].self_id = s
  BY DEF NodesSane, NodeStep
<1>1. CASE Follows(node[s], node'[s])
  BY <1>1 DEF Follows, NodesSane
<1>2. CASE node'[s] = NewNode(s)
  BY <1>2, NewNodeSane
<1> QED
  BY <1>1, <1>2 DEF NodeStep

\* The messages to and from a server that stops.
LEMMA ExitStep ==
    ASSUME IInv, NEW s \in Server, Exit(s)
    PROVE  NodeStep /\ ChannelsTyped'
<1>1. NodeStep
  <2>1. Follows(node[s], [node[s] EXCEPT !.state = "DOWN"])
    BY Zenon, ExitFollows DEF IInv, NodesSane
  <2>2. node' = [node EXCEPT ![s] = [node[s] EXCEPT !.state = "DOWN"]]
    BY DEF Exit, IInv, NodesSane
  <2> QED
    BY Zenon, <2>1, <2>2, OneNodeStep DEF IInv
<1>2. ChannelsTyped'
  <2>1. reqs' \in [Server -> [Server -> Seq(AppendReq)]]
    BY DEF Exit, LoseMessagesTo, IInv, ChannelsTyped
  <2>2. replies' \in [Server -> [Server -> Seq(AppendReply)]]
    BY DEF Exit, LoseMessagesTo, IInv, ChannelsTyped
  <2> QED
    BY <2>1, <2>2 DEF Exit, LoseMessagesTo, IInv, ChannelsTyped, votes_vars
<1> QED
  BY <1>1, <1>2

LEMMA BootstrapStep ==
    ASSUME IInv, NEW s \in Server, Bootstrap(s)
    PROVE  NodeStep /\ ChannelsTyped'
<1> DEFINE es == <<Config(1, "ADD_MEMBER", s)>>
           n == AppendEntries(AddServer(node[s], s, 0), es)
<1>1. es \in Seq(Entry)
  BY DEF Config, Entry
<1> HIDE DEF es
<1>2. Sane(node[s])
  BY DEF IInv, NodesSane
<1>3. Follows(node[s], AddServer(node[s], s, 0))
  BY <1>2, AddServerFollows
<1>4. Follows(AddServer(node[s], s, 0), n)
  BY <1>1, <1>3, AppendEntriesFollows DEF Follows
<1>5. Follows(node[s], n)
  BY <1>2, <1>3, <1>4, FollowsTransitive
<1> HIDE DEF n
<1>6. Follows(n, CommitLogEntries(n, 1))
  BY <1>5, CommitLogEntriesFollows DEF Follows
<1>7. Follows(node[s], CommitLogEntries(n, 1))
  BY <1>2, <1>5, <1>6, FollowsTransitive
<1>8. node' = [node EXCEPT ![s] = CommitLogEntries(n, 1)]
  BY Zenon DEF Bootstrap, n, es
<1>9. NodeStep
  BY Zenon, <1>7, <1>8, OneNodeStep DEF IInv
<1>10. ChannelsTyped'
  BY DEF Bootstrap, IInv, ChannelsTyped, votes_vars, append_vars
<1> QED
  BY <1>9, <1>10

LEMMA BecomeCandidateStep ==
    ASSUME IInv, NEW s \in Server, BecomeCandidate(s)
    PROVE  NodeStep /\ ChannelsTyped'
<1>1. Sane(node[s]) /\ node[s] \in Node
  BY SaneTypes DEF IInv, NodesSane
<1>2. CASE s \notin node[s].voting
  BY <1>2, ExitStep DEF BecomeCandidate
<1>3. CASE s \in node[s].voting
  <2> DEFINE n == [node[s] EXCEPT !.state = "CANDIDATE", !.current_term = @ + 1,
                                  !.voted_for = s, !.rcv_votes = 1,
                                  !.voted_for_me = {s}]
             req == [src |-> s, term |-> n.current_term, last_log_index |-> Len(n.log),
                     last_log_term |-> LastLogTerm(n)]
  <2>1. /\ n \in Node /\ n.log = node[s].log /\ n.commit_index = node[s].commit_index
        /\ n.self_id = node[s].self_id /\ n.servers = node[s].servers
        /\ n.voting = node[s].voting /\ n.next_index = node[s].next_index
    BY Zenon, <1>1, CandidateIs
  <2>2. /\ IF HasMajorityOfVotes(n)
           THEN node' = [node EXCEPT ![s] = BecomeLeader(n)] /\ UNCHANGED vote_reqs
           ELSE node' = [node EXCEPT ![s] = n] /\ vote_reqs' = vote_reqs \cup {req}
        /\ UNCHANGED <<vote_replies, append_vars, join_vars>>
    BY Zenon, <1>3 DEF BecomeCandidate
  <2> HIDE DEF n
  <2>3. node[s].commit_index > 0
    BY <1>1 DEF BecomeCandidate, Sane
  <2>4. \A x \in Server : n.next_index[x] > 0
    BY Zenon, <1>1, <2>1 DEF Sane
  <2>5. Follows(node[s], n)
    BY Zenon, <1>1, <2>1, <2>3, <2>4, SameLogFollows
  <2>6. Follows(n, BecomeLeader(n))
    BY <2>1, <2>3, <2>5, BecomeLeaderFollows DEF Follows
  <2>7. Follows(node[s], BecomeLeader(n))
    BY <1>1, <2>5, <2>6, FollowsTransitive
  <2>8. NodeStep
    BY <2>2, <2>5, <2>7, OneNodeStep DEF IInv
  <2>9. req \in VoteReq
    <3>1. Sane(n)
      BY <2>5 DEF Follows
    <3>2. n.log \in Seq(Entry) /\ Len(n.log) \in 1 .. Len(n.log) /\ n.current_term \in Nat
      BY <2>1, <2>3, <3>1, SaneTypes
    <3>3. n.log[Len(n.log)] \in Entry
      BY <3>2
    <3>4. LastLogTerm(n) \in Nat
      BY <3>3 DEF LastLogTerm, Entry
    <3> QED
      BY <3>2, <3>4 DEF VoteReq
  <2>10. ChannelsTyped'
    <3> HIDE DEF req
    <3> QED
      BY <2>2, <2>9 DEF IInv, ChannelsTyped, append_vars, join_vars
  <2> QED
    BY <2>8, <2>10
<1> QED
  BY <1>2, <1>3

LEMMA HandleVoteRequestStep ==
    ASSUME IInv, NEW t \in Server, NEW m \in vote_reqs, NEW timed_out \in BOOLEAN,
           HandleVoteRequest(t, m, timed_out)
    PROVE  NodeStep /\ ChannelsTyped'
<1> DEFINE n == MatchTerms(node[t], m.term)
           vote == IF LogOk(n, m) /\ n.voted_for = Nil THEN m.src ELSE n.voted_for
           reply(granted) == [src |-> t, dst |-> m.src, term |-> n.current_term,
                              granted |-> granted]
<1>1. m.src \in Server /\ m.term \in Nat
  BY Zenon DEF IInv, ChannelsTyped, VoteReq
<1>2. Follows(node[t], n)
  BY <1>1, MatchTermsFollows DEF IInv, NodesSane
<1>3. /\ \/ node' = [node EXCEPT ![t] = n]
         \/ node' = [node EXCEPT ![t] = [n EXCEPT !.state = "HUNG"]]
         \/ node' = [node EXCEPT ![t] = [n EXCEPT !.voted_for = vote]]
      /\ vote_replies' \in {vote_replies, vote_replies \cup {reply(TRUE)},
                            vote_replies \cup {reply(FALSE)}}
      /\ UNCHANGED <<vote_reqs, append_vars, join_vars>>
  BY DEF HandleVoteRequest
<1> HIDE DEF n
<1>4. Sane(n) /\ n \in Node /\ n.current_term \in Nat
  BY <1>2, SaneTypes DEF Follows
<1>5. vote \in Server \cup {Nil}
  BY <1>1, <1>4 DEF Node
<1> HIDE DEF vote
<1>6. Follows(n, [n EXCEPT !.state = "HUNG"])
  BY Zenon, <1>4, ExitFollows
<1>7. Follows(n, [n EXCEPT !.voted_for = vote])
  <2> DEFINE k == [n EXCEPT !.voted_for = vote]
  <2>1. /\ k \in Node /\ k.log = n.log /\ k.commit_index = n.commit_index
        /\ k.self_id = n.self_id /\ k.servers = n.servers /\ k.voting = n.voting
        /\ k.next_index = n.next_index /\ k.state = n.state
    BY Zenon, <1>4, <1>5, VoteGivenIs
  <2> HIDE DEF k
  <2>2. /\ \A x \in Server : k.next_index[x] > 0
        /\ k.state \in {"FOLLOWER", "CANDIDATE", "LEADER"} => n.commit_index > 0
    BY Zenon, <1>4, <2>1 DEF Sane
  <2>3. Follows(n, k)
    BY Zenon, <1>4, <2>1, <2>2, SameLogFollows
  <2> QED
    BY <2>3 DEF k
<1>8. Sane(node[t])
  BY DEF IInv, NodesSane
<1>9. NodeStep
  BY <1>2, <1>3, <1>6, <1>7, <1>8, FollowsTransitive, OneNodeStep DEF IInv
<1>10. reply(TRUE) \in VoteReply /\ reply(FALSE) \in VoteReply
  BY <1>1, <1>4 DEF VoteReply
<1> HIDE DEF reply
<1>11. ChannelsTyped'
  BY Zenon, <1>3, <1>10 DEF IInv, ChannelsTyped, append_vars, join_vars
<1> QED
  BY <1>9, <1>11

LEMMA HandleVoteReplyStep ==
    ASSUME IInv, NEW m \in vote_replies, HandleVoteReply(m)
    PROVE  NodeStep /\ ChannelsTyped'
<1> DEFINE s == m.dst
           n == node[s]
           counted == /\ m.term = n.current_term
                      /\ n.state = "CANDIDATE"
                      /\ m.granted
                      /\ IsNewVote(n, m.src)
           voted == [n EXCEPT !.voted_for_me = @ \cup {m.src}, !.rcv_votes = @ + 1]
<1>1. s \in Server /\ m.src \in Server /\ m.term \in Nat
  BY Zenon DEF IInv, ChannelsTyped, VoteReply
<1>2. Sane(n) /\ n \in Node
  BY <1>1, SaneTypes DEF IInv, NodesSane
<1>3. \/ counted /\ Exit(s)
      \/ /\ node' = [node EXCEPT ![s] =
                        IF ~counted THEN MatchTerms(n, m.term)
                        ELSE IF HasMajorityOfVotes(voted) THEN BecomeLeader(voted)
                        ELSE voted]
         /\ UNCHANGED <<votes_vars, append_vars, join_vars>>
  BY Zenon DEF HandleVoteReply
<1>4. CASE Exit(s)
  BY <1>1, <1>4, ExitStep
<1>5. CASE /\ node' = [node EXCEPT ![s] =
                        IF ~counted THEN MatchTerms(n, m.term)
                        ELSE IF HasMajorityOfVotes(voted) THEN BecomeLeader(voted)
                        ELSE voted]
           /\ UNCHANGED <<votes_vars, append_vars, join_vars>>
  <2>1. Follows(n, MatchTerms(n, m.term))
    BY <1>1, <1>2, MatchTermsFollows
  <2>2. ASSUME counted PROVE Follows(n, voted) /\ Follows(n, BecomeLeader(voted))
    <3>1. /\ voted \in Node /\ voted.log = n.log /\ voted.commit_index = n.commit_index
          /\ voted.self_id = n.self_id /\ voted.servers = n.servers
          /\ voted.voting = n.voting /\ voted.next_index = n.next_index
      BY Zenon, <1>1, <1>2, VotedIs
    <3>2. n.commit_index > 0
      BY <1>2, <2>2 DEF Sane
    <3> HIDE DEF voted
    <3>3. \A x \in Server : voted.next_index[x] > 0
      BY Zenon, <1>2, <3>1 DEF Sane
    <3>4. Follows(n, voted)
      BY Zenon, <1>2, <3>1, <3>2, <3>3, SameLogFollows
    <3>5. Follows(voted, BecomeLeader(voted))
      BY <3>1, <3>2, <3>4, BecomeLeaderFollows DEF Follows
    <3> QED
      BY <1>2, <3>4, <3>5, FollowsTransitive
  <2> HIDE DEF counted, voted
  <2>3. NodeStep
    <3> DEFINE k == IF ~counted THEN MatchTerms(n, m.term)
                    ELSE IF HasMajorityOfVotes(voted) THEN BecomeLeader(voted)
                    ELSE voted
    <3>1. Follows(node[s], k)
      BY <2>1, <2>2
    <3>2. node' = [node EXCEPT ![s] = k]
      BY <1>5
    <3> HIDE DEF k
    <3> QED
      BY Zenon, <1>1, <3>1, <3>2, OneNodeStep DEF IInv
  <2>4. ChannelsTyped'
    BY <1>5 DEF IInv, ChannelsTyped, votes_vars, append_vars, join_vars
  <2> QED
    BY <2>3, <2>4
<1> QED
  BY <1>3, <1>4, <1>5

LEMMA HandleMembershipRequestStep ==
    ASSUME IInv, NEW m \in joins, HandleMembershipRequest(m)
    PROVE  NodeStep /\ ChannelsTyped'
<1>1. m.src \in Server /\ m.dst \in Server /\ m.last_log_index \in Nat
  BY Zenon DEF IInv, ChannelsTyped, MembershipReq
<1>2. Follows(node[m.dst], AddServer(node[m.dst], m.src, m.last_log_index))
  BY <1>1, AddServerFollows DEF IInv, NodesSane
<1>3. \/ node' = [node EXCEPT ![m.dst] = AddServer(node[m.dst], m.src, m.last_log_index)]
      \/ node' = node
  BY Zenon DEF HandleMembershipRequest
<1>4. NodeStep
  BY <1>1, <1>2, <1>3, OneNodeStep, SameNodeStep DEF IInv
<1>5. ChannelsTyped'
  BY DEF HandleMembershipRequest, IInv, ChannelsTyped, votes_vars, append_vars
<1> QED
  BY <1>4, <1>5

\* One wormhole of a channel changes.
LEMMA WormholeAppend ==
    ASSUME NEW M, NEW channel \in [Server -> [Server -> Seq(M)]],
           NEW s \in Server, NEW t \in Server, NEW msg \in M
    PROVE  LET after == [channel EXCEPT ![s][t] = Append(@, msg)] IN
           /\ after \in [Server -> [Server -> Seq(M)]]
           /\ \A x, y \in Server :
                 after[x][y] = IF x = s /\ y = t THEN Append(channel[x][y], msg)
                               ELSE channel[x][y]
<1>1. channel[s][t] \in Seq(M)
  OBVIOUS
<1>2. Append(channel[s][t], msg) \in Seq(M)
  BY <1>1
<1> DEFINE q == Append(channel[s][t], msg)
           after == [channel EXCEPT ![s][t] = q]
<1>3. [channel EXCEPT ![s][t] = Append(@, msg)] = after
  BY Zenon
<1>4. q \in Seq(M)
  BY <1>2
<1> HIDE DEF q
<1>5. /\ after \in [Server -> [Server -> Seq(M)]]
      /\ \A x, y \in Server :
            after[x][y] = IF x = s /\ y = t THEN q ELSE channel[x][y]
  BY <1>4
<1> HIDE DEF after
<1>6. \A x, y \in Server :
         after[x][y] = IF x = s /\ y = t THEN Append(channel[x][y], msg)
                       ELSE channel[x][y]
  BY Zenon, <1>5 DEF q
<1> QED
  BY Zenon, <1>3, <1>5, <1>6

LEMMA WormholeTail ==
    ASSUME NEW M, NEW channel \in [Server -> [Server -> Seq(M)]],
           NEW s \in Server, NEW t \in Server, channel[s][t] # << >>
    PROVE  LET after == [channel EXCEPT ![s][t] = Tail(@)] IN
           /\ after \in [Server -> [Server -> Seq(M)]]
           /\ \A x, y \in Server :
                 after[x][y] = IF x = s /\ y = t THEN Tail(channel[x][y])
                               ELSE channel[x][y]
<1>1. channel[s][t] \in Seq(M)
  OBVIOUS
<1>2. Tail(channel[s][t]) \in Seq(M)
  BY <1>1
<1> DEFINE q == Tail(channel[s][t])
           after == [channel EXCEPT ![s][t] = q]
<1>3. [channel EXCEPT ![s][t] = Tail(@)] = after
  BY Zenon
<1>4. q \in Seq(M)
  BY <1>2
<1> HIDE DEF q
<1>5. /\ after \in [Server -> [Server -> Seq(M)]]
      /\ \A x, y \in Server :
            after[x][y] = IF x = s /\ y = t THEN q ELSE channel[x][y]
  BY <1>4
<1> HIDE DEF after
<1>6. \A x, y \in Server :
         after[x][y] = IF x = s /\ y = t THEN Tail(channel[x][y])
                       ELSE channel[x][y]
  BY Zenon, <1>5 DEF q
<1> QED
  BY Zenon, <1>3, <1>5, <1>6

\* The entries of a request, and the request.
LEMMA EntriesAfterIs ==
    ASSUME NEW log \in Seq(Entry), NEW prev \in Nat, prev <= Len(log)
    PROVE  /\ EntriesAfter(log, prev) \in Seq(Entry)
           /\ prev + Len(EntriesAfter(log, prev)) <= Len(log)
           /\ \A k \in 1..Len(EntriesAfter(log, prev)) :
                 EntriesAfter(log, prev)[k] = log[prev + k]
BY MaxEntriesAssumption DEF EntriesAfter

LEMMA AppendRequestTyped ==
    ASSUME NEW n, Sane(n), NEW prev \in Nat, NEW entries \in Seq(Entry)
    PROVE  AppendRequest(n, prev, entries) \in AppendReq
<1>1. ASSUME prev \in 1 .. Len(n.log) PROVE n.log[prev].term \in Nat
  <2>1. n.log[prev] \in Entry
    BY <1>1, SaneTypes
  <2> QED
    BY <2>1 DEF Entry
<1>2. n.current_term \in Nat /\ n.commit_index \in Nat
  BY SaneTypes
<1> QED
  BY <1>1, <1>2 DEF AppendRequest, AppendReq

LEMMA SendAppendEntriesStep ==
    ASSUME IInv, NEW s \in Server, NEW t \in Server, SendAppendEntries(s, t)
    PROVE  NodeStep /\ ChannelsTyped'
<1> DEFINE n == node[s]
           prev == n.next_index[t] - 1
           match == n.match_index[t] = prev
           entries == IF match THEN EntriesAfter(n.log, prev) ELSE << >>
           req == AppendRequest(n, prev, entries)
           X == IF match /\ t \notin n.voting THEN n.logs_match \cup {t}
                ELSE n.logs_match \ {t}
<1>1. Sane(n) /\ n \in Node
  BY SaneTypes DEF IInv, NodesSane
<1>2. /\ n.log \in Seq(Entry) /\ Len(n.log) \in Nat /\ n.current_term \in Nat
      /\ n.commit_index \in Nat /\ prev \in Nat /\ X \in SUBSET Server
  BY <1>1, SaneTypes DEF Sane
<1>3. \/ Exit(s)
      \/ /\ node' = [node EXCEPT ![s] = [n EXCEPT !.logs_match = X]]
         /\ reqs' \in {reqs, [reqs EXCEPT ![s][t] = Append(@, req)]}
         /\ UNCHANGED <<votes_vars, replies, join_vars>>
  BY DEF SendAppendEntries, IInv, NodesSane
<1> HIDE DEF n, X
<1>4. CASE Exit(s)
  BY <1>4, ExitStep
<1>5. CASE /\ node' = [node EXCEPT ![s] = [n EXCEPT !.logs_match = X]]
           /\ reqs' \in {reqs, [reqs EXCEPT ![s][t] = Append(@, req)]}
           /\ UNCHANGED <<votes_vars, replies, join_vars>>
  <2> DEFINE k == [n EXCEPT !.logs_match = X]
  <2>1. /\ k \in Node /\ k.log = n.log /\ k.commit_index = n.commit_index
        /\ k.self_id = n.self_id /\ k.servers = n.servers /\ k.voting = n.voting
        /\ k.next_index = n.next_index /\ k.state = n.state
    BY Zenon, <1>1, <1>2, LogsMatchIs
  <2> HIDE DEF k
  <2>2. /\ \A x \in Server : k.next_index[x] > 0
        /\ k.state \in {"FOLLOWER", "CANDIDATE", "LEADER"} => n.commit_index > 0
    BY Zenon, <1>1, <2>1 DEF Sane
  <2>3. Follows(n, k)
    BY Zenon, <1>1, <2>1, <2>2, SameLogFollows
  <2>4. NodeStep
    BY Zenon, <1>5, <2>3, OneNodeStep DEF IInv, k, n
  <2>5. entries \in Seq(Entry)
    <3>1. EntriesAfter(n.log, prev) \in Seq(Entry)
      BY <1>2, MaxEntriesAssumption DEF EntriesAfter
    <3> QED
      BY <3>1
  <2> HIDE DEF entries
  <2>6. req \in AppendReq
    BY <1>1, <1>2, <2>5, AppendRequestTyped
  <2> HIDE DEF req
  <2>7. reqs' \in [Server -> [Server -> Seq(AppendReq)]]
    <3>1. reqs \in [Server -> [Server -> Seq(AppendReq)]]
      BY DEF IInv, ChannelsTyped
    <3>2. [reqs EXCEPT ![s][t] = Append(@, req)] \in [Server -> [Server -> Seq(AppendReq)]]
      BY <2>6, <3>1, WormholeAppend
    <3> QED
      BY Zenon, <1>5, <3>1, <3>2
  <2>8. ChannelsTyped'
    BY Zenon, <1>5, <2>7 DEF IInv, ChannelsTyped, votes_vars, join_vars
  <2> QED
    BY <2>4, <2>8
<1> QED
  BY <1>3, <1>4, <1>5

LEMMA ReplyStep ==
    ASSUME IInv, NEW s \in Server, NEW t \in Server, NEW n, NEW success \in BOOLEAN,
           reqs[s][t] # << >>, Follows(node[t], n), Reply(s, t, n, success)
    PROVE  NodeStep /\ ChannelsTyped'
<1>1. NodeStep
  BY Zenon, OneNodeStep DEF Reply, IInv
<1> DEFINE reply == [term |-> n.current_term, success |-> success,
                     last_log_index |-> Len(n.log)]
<1>2. reply \in AppendReply
  BY SaneTypes DEF AppendReply, Follows
<1>3. reqs' \in [Server -> [Server -> Seq(AppendReq)]]
  <2>1. reqs \in [Server -> [Server -> Seq(AppendReq)]]
    BY DEF IInv, ChannelsTyped
  <2>2. [reqs EXCEPT ![s][t] = Tail(@)] \in [Server -> [Server -> Seq(AppendReq)]]
    BY <2>1, WormholeTail
  <2> QED
    BY <2>2 DEF Reply
<1>4. replies' \in [Server -> [Server -> Seq(AppendReply)]]
  <2>1. replies \in [Server -> [Server -> Seq(AppendReply)]]
    BY DEF IInv, ChannelsTyped
  <2>2. replies' \in {replies, [replies EXCEPT ![t][s] = Append(@, reply)]}
    BY Zenon DEF Reply
  <2> HIDE DEF reply
  <2>3. [replies EXCEPT ![t][s] = Append(@, reply)] \in [Server -> [Server -> Seq(AppendReply)]]
    BY <1>2, <2>1, WormholeAppend
  <2> QED
    BY Zenon, <2>1, <2>2, <2>3
<1>5. ChannelsTyped'
  BY Zenon, <1>3, <1>4 DEF Reply, IInv, ChannelsTyped, votes_vars, join_vars
<1> QED
  BY <1>1, <1>5

\* What is kept of the log (check_raft_log_consistency) reaches from commit_index
\* to the end of the log.
LEMMA KeptIndexIs ==
    ASSUME NEW n, Sane(n), NEW m \in AppendReq
    PROVE  KeptIndex(n, m) \in n.commit_index .. Len(n.log)
BY SaneTypes DEF KeptIndex, Matches, AppendReq

\* handle_append_entries_request, with the server after every one of its phases.
LEMMA HandleAppendEntriesRequestStep ==
    ASSUME IInv, NEW s \in Server, NEW t \in Server, HandleAppendEntriesRequest(s, t)
    PROVE  NodeStep /\ ChannelsTyped'
<1> DEFINE m == Head(reqs[s][t])
           n == MatchTerms(node[t], m.term)
           cut == RemoveEntries(SetLeader(n, s), KeptIndex(n, m))
           grown == AppendEntries(cut, m.entries)
           done == IF grown.commit_index < m.leader_commit
                   THEN CommitLogEntries(grown, m.leader_commit) ELSE grown
<1>1. reqs[s][t] # << >> /\ reqs[s][t] \in Seq(AppendReq)
  BY DEF HandleAppendEntriesRequest, IInv, ChannelsTyped
<1>2. m \in AppendReq
  BY <1>1
<1>3. \/ Reply(s, t, n, FALSE)
      \/ Exit(t)
      \/ Reply(s, t, cut, FALSE)
      \/ Reply(s, t, done, TRUE)
  BY Zenon DEF HandleAppendEntriesRequest
<1> HIDE DEF m
<1>4. /\ m.term \in Nat /\ m.prev_log_index \in Nat /\ m.leader_commit \in Nat
      /\ m.entries \in Seq(Entry)
  BY <1>2 DEF AppendReq
<1>5. Sane(node[t])
  BY DEF IInv, NodesSane
<1>6. Follows(node[t], n)
  BY <1>4, <1>5, MatchTermsFollows
<1>7. Follows(node[t], cut)
  <2> HIDE DEF n
  <2>1. Sane(n) /\ n \in Node
    BY <1>6, SaneTypes DEF Follows
  <2>2. Follows(n, SetLeader(n, s))
    BY <2>1, SetLeaderFollows
  <2>3. Follows(node[t], SetLeader(n, s))
    BY <1>5, <1>6, <2>2, FollowsTransitive
  <2>4. SetLeader(n, s).log = n.log /\ SetLeader(n, s).commit_index = n.commit_index
    BY Zenon, <2>1, SetLeaderIs
  <2>5. KeptIndex(n, m) \in SetLeader(n, s).commit_index .. Len(SetLeader(n, s).log)
    BY <1>2, <2>1, <2>4, KeptIndexIs
  <2>6. Follows(SetLeader(n, s), cut)
    BY <2>2, <2>5, RemoveEntriesFollows DEF Follows
  <2> QED
    BY <1>5, <2>3, <2>6, FollowsTransitive
<1> HIDE DEF cut
<1>8. Follows(node[t], grown)
  <2>1. Follows(cut, grown)
    BY <1>4, <1>7, AppendEntriesFollows DEF Follows
  <2> QED
    BY <1>5, <1>7, <2>1, FollowsTransitive
<1> HIDE DEF grown
<1>9. Follows(node[t], done)
  <2>1. Follows(grown, CommitLogEntries(grown, m.leader_commit))
    BY Zenon, <1>4, <1>8, CommitLogEntriesFollows DEF Follows
  <2>2. Follows(node[t], CommitLogEntries(grown, m.leader_commit))
    BY <1>5, <1>8, <2>1, FollowsTransitive
  <2> QED
    BY <1>8, <2>2
<1> HIDE DEF done, n
<1> QED
  BY Zenon, <1>1, <1>3, <1>6, <1>7, <1>9, ExitStep, ReplyStep

LEMMA HandleAppendEntriesReplyStep ==
    ASSUME IInv, NEW s \in Server, NEW t \in Server, HandleAppendEntriesReply(s, t)
    PROVE  NodeStep /\ ChannelsTyped'
<1> DEFINE m == Head(replies[t][s])
           match == IF m.success THEN m.last_log_index ELSE node[s].match_index[t]
           k == Counted(node[s], t, m.last_log_index, match)
           counts == /\ m.term = node[s].current_term
                     /\ IsLeader(s)
                     /\ t \in node[s].servers
           n == IF ~counts THEN MatchTerms(node[s], m.term) ELSE k
           done == IF counts /\ m.success /\ m.last_log_index > n.commit_index
                   THEN CommitLogEntries(n, m.last_log_index) ELSE n
<1>1. /\ replies \in [Server -> [Server -> Seq(AppendReply)]]
      /\ replies[t][s] # << >> /\ replies[t][s] \in Seq(AppendReply)
  BY DEF HandleAppendEntriesReply, IInv, ChannelsTyped
<1>2. m \in AppendReply
  BY <1>1
<1>3. /\ node' = [node EXCEPT ![s] = done]
      /\ replies' = [replies EXCEPT ![t][s] = Tail(@)]
      /\ UNCHANGED <<votes_vars, reqs, join_vars>>
  BY Zenon DEF HandleAppendEntriesReply, Counted
<1> HIDE DEF m
<1>4. m.term \in Nat /\ m.success \in BOOLEAN /\ m.last_log_index \in Nat
  BY <1>2 DEF AppendReply
<1>5. Sane(node[s]) /\ node[s] \in Node
  BY SaneTypes DEF IInv, NodesSane
<1>6. Follows(node[s], k)
  <2>1. match \in Nat
    BY <1>4, <1>5 DEF Node
  <2>2. m.last_log_index \in Nat
    BY <1>4
  <2> HIDE DEF match
  <2> QED
    BY <1>5, <2>1, <2>2, CountedFollows
<1>7. Follows(node[s], n)
  <2>1. Follows(node[s], MatchTerms(node[s], m.term))
    BY <1>4, <1>5, MatchTermsFollows
  <2> QED
    BY Zenon, <1>6, <2>1
<1> HIDE DEF k, n, counts
<1>8. Follows(node[s], done)
  <2>1. Follows(n, CommitLogEntries(n, m.last_log_index))
    BY <1>4, <1>7, CommitLogEntriesFollows DEF Follows
  <2>2. Follows(node[s], CommitLogEntries(n, m.last_log_index))
    BY <1>5, <1>7, <2>1, FollowsTransitive
  <2> QED
    BY <1>7, <2>2
<1> HIDE DEF done
<1>9. NodeStep
  BY Zenon, <1>3, <1>8, OneNodeStep DEF IInv
<1>10. [replies EXCEPT ![t][s] = Tail(@)] \in [Server -> [Server -> Seq(AppendReply)]]
  BY <1>1, WormholeTail
<1>11. ChannelsTyped'
  BY Zenon, <1>3, <1>10 DEF IInv, ChannelsTyped, votes_vars, join_vars
<1> QED
  BY <1>9, <1>11

\* A leader appends a command to its log.
LEMMA CommandStep ==
    ASSUME IInv, NEW s \in Server, NEW t \in Server, NEW n, Follows(node[s], n),
           NEW command \in {"ADD_MEMBER", "DEL_MEMBER"},
           node' = [node EXCEPT ![s] =
                       AppendEntries(n, <<Config(n.current_term, command, t)>>)],
           UNCHANGED <<votes_vars, append_vars, join_vars>>
    PROVE  NodeStep /\ ChannelsTyped'
<1> DEFINE es == <<Config(n.current_term, command, t)>>
<1>1. es \in Seq(Entry)
  BY SaneTypes DEF Config, Entry, Follows
<1> HIDE DEF es
<1>2. Sane(node[s])
  BY DEF IInv, NodesSane
<1>3. Follows(n, AppendEntries(n, es))
  BY <1>1, AppendEntriesFollows DEF Follows
<1>4. Follows(node[s], AppendEntries(n, es))
  BY <1>2, <1>3, FollowsTransitive
<1>5. NodeStep
  BY Zenon, <1>4, OneNodeStep DEF IInv, es
<1>6. ChannelsTyped'
  BY Zenon DEF IInv, ChannelsTyped, votes_vars, append_vars, join_vars
<1> QED
  BY <1>5, <1>6

LEMMA ChangeConfigStep ==
    ASSUME IInv, NEW s \in Server, NEW t \in Server,
           NEW command \in {"ADD_MEMBER", "DEL_MEMBER"}, ChangeConfig(s, t, command)
    PROVE  NodeStep /\ ChannelsTyped'
<1> DEFINE n == [node[s] EXCEPT !.is_changing = TRUE]
<1>1. Sane(node[s]) /\ node[s] \in Node
  BY SaneTypes DEF IInv, NodesSane
<1>2. /\ n \in Node /\ n.log = node[s].log /\ n.commit_index = node[s].commit_index
      /\ n.self_id = node[s].self_id /\ n.servers = node[s].servers
      /\ n.voting = node[s].voting /\ n.next_index = node[s].next_index
      /\ n.state = node[s].state /\ n.current_term = node[s].current_term
  BY Zenon, <1>1, FlaggedIs
<1>3. /\ node' = [node EXCEPT ![s] =
                     AppendEntries(n, <<Config(node[s].current_term, command, t)>>)]
      /\ UNCHANGED <<votes_vars, append_vars, join_vars>>
  BY Zenon DEF ChangeConfig
<1> HIDE DEF n
<1>4. /\ \A x \in Server : n.next_index[x] > 0
      /\ n.state \in {"FOLLOWER", "CANDIDATE", "LEADER"} => node[s].commit_index > 0
  BY Zenon, <1>1, <1>2 DEF Sane
<1>5. Follows(node[s], n)
  BY Zenon, <1>1, <1>2, <1>4, SameLogFollows
<1> QED
  BY Zenon, <1>2, <1>3, <1>5, CommandStep

LEMMA InitIInv == Init => IInv
<1> SUFFICES ASSUME Init PROVE IInv
  OBVIOUS
<1>1. \A s \in Server : NewNode(s) \in Node
  BY NewNodeSane DEF Sane
<1>2. NodesSane
  BY <1>1, NewNodeSane DEF Init, NodesSane
<1>3. ChannelsTyped
  BY DEF Init, ChannelsTyped, Empty
<1> QED
  BY <1>2, <1>3 DEF IInv

LEMMA NextStep == IInv /\ [Next]_vars => NodeStep /\ ChannelsTyped'
<1> SUFFICES ASSUME IInv, [Next]_vars PROVE NodeStep /\ ChannelsTyped'
  OBVIOUS
<1> DEFINE OK == NodeStep /\ ChannelsTyped'
<1>0. node \in [Server -> Node] /\ \A s \in Server : node[s].log \in Seq(Entry)
  BY SaneTypes DEF IInv, NodesSane
<1>1. ASSUME NEW s \in Server, SendMembershipRequest(s) PROVE OK
  <2>1. NodeStep
    BY <1>1, SameNodeStep DEF SendMembershipRequest, IInv
  <2>2. Len(node[s].log) \in Nat /\ redis_key \in Server
    BY <1>0, <1>1 DEF SendMembershipRequest, IInv, ChannelsTyped
  <2>3. [src |-> s, dst |-> redis_key, last_log_index |-> Len(node[s].log)] \in MembershipReq
    BY <2>2 DEF MembershipReq
  <2>4. joins' \in SUBSET MembershipReq
    BY <1>1, <2>3 DEF SendMembershipRequest, IInv, ChannelsTyped
  <2>5. ChannelsTyped'
    BY <1>1, <2>4 DEF SendMembershipRequest, IInv, ChannelsTyped, votes_vars, append_vars
  <2> QED
    BY <2>1, <2>5
<1>2. ASSUME NEW s \in Server, SetKey(s) PROVE OK
  <2>1. NodeStep
    BY <1>2, SameNodeStep DEF SetKey, IInv
  <2>2. ChannelsTyped'
    BY <1>2 DEF SetKey, IInv, ChannelsTyped, votes_vars, append_vars
  <2> QED
    BY <2>1, <2>2
<1>3. ASSUME NEW s \in Server, JoinTimeout(s) \/ Crash(s) PROVE OK
  BY <1>3, ExitStep DEF JoinTimeout, Crash
<1>4. ASSUME NEW s \in Server, Restart(s) PROVE OK
  <2>1. NewNode(s) \in Node
    BY NewNodeSane DEF Sane
  <2>2. NodeStep
    BY <1>0, <1>4, <2>1, UnchangedFollows DEF Restart, NodeStep, IInv
  <2>3. ChannelsTyped'
    BY <1>4 DEF Restart, IInv, ChannelsTyped, votes_vars, append_vars, join_vars
  <2> QED
    BY <2>2, <2>3
<1>5. ASSUME NEW s \in Server, NEW t \in Server, CaughtUp(s, t) \/ HeartbeatTimeout(s, t)
      PROVE  OK
  BY <1>5, ChangeConfigStep DEF CaughtUp, HeartbeatTimeout
<1>6. ASSUME NEW s \in Server, NEW t \in Server, RoundsOver(s, t) PROVE OK
  <2>1. Follows(node[s], RemoveServers(node[s], {t}))
    BY RemoveServersFollows DEF IInv, NodesSane
  <2>2. NodeStep
    BY Zenon, <1>6, <2>1, OneNodeStep DEF RoundsOver, IInv
  <2>3. ChannelsTyped'
    BY Zenon, <1>6 DEF RoundsOver, IInv, ChannelsTyped, votes_vars, append_vars, join_vars
  <2> QED
    BY <2>2, <2>3
<1>7. ASSUME NEW s \in Server, NEW t \in Server, GiveUp(s, t) PROVE OK
  BY Zenon, <1>7, CommandStep, UnchangedFollows DEF GiveUp, IInv
<1>8. ASSUME NEW s \in Server, NEW t \in Server, DropRequest(s, t) PROVE OK
  <2>1. NodeStep
    BY <1>8, SameNodeStep DEF DropRequest, IInv
  <2>2. reqs' \in [Server -> [Server -> Seq(AppendReq)]]
    BY Zenon, <1>8, WormholeTail DEF DropRequest, IInv, ChannelsTyped
  <2>3. ChannelsTyped'
    BY Zenon, <1>8, <2>2 DEF DropRequest, IInv, ChannelsTyped, votes_vars, join_vars
  <2> QED
    BY <2>1, <2>3
<1>9. ASSUME NEW s \in Server, NEW t \in Server, DropReply(s, t) PROVE OK
  <2>1. NodeStep
    BY <1>9, SameNodeStep DEF DropReply, IInv
  <2>2. replies' \in [Server -> [Server -> Seq(AppendReply)]]
    BY Zenon, <1>9, WormholeTail DEF DropReply, IInv, ChannelsTyped
  <2>3. ChannelsTyped'
    BY Zenon, <1>9, <2>2 DEF DropReply, IInv, ChannelsTyped, votes_vars, join_vars
  <2> QED
    BY <2>1, <2>3
<1>10. CASE UNCHANGED vars
  <2>1. NodeStep
    BY <1>10, SameNodeStep DEF vars, IInv
  <2>2. ChannelsTyped'
    BY <1>10 DEF vars, IInv, ChannelsTyped
  <2> QED
    BY <2>1, <2>2
<1> HIDE DEF OK
<1>11. ASSUME Next PROVE OK
  BY <1>11, <1>1, <1>2, <1>3, <1>4, <1>5, <1>6, <1>7, <1>8, <1>9,
     BootstrapStep, BecomeCandidateStep, HandleVoteRequestStep, HandleVoteReplyStep,
     HandleMembershipRequestStep, SendAppendEntriesStep,
     HandleAppendEntriesRequestStep, HandleAppendEntriesReplyStep
     DEF Next, OK
<1> QED
  BY <1>10, <1>11 DEF OK

\* The invariant holds in every state of the cluster.
THEOREM Invariance == Spec => []IInv
<1>1. IInv /\ [Next]_vars => IInv'
  BY NextStep, NodeStepSane DEF IInv
<1> QED
  BY <1>1, InitIInv, PTL DEF Spec

\* Types, for any cluster: in particular commit_index stays within the log that
\* check_raft_log_consistency cuts and raft_commit_log_entries commits, and no
\* next_index wraps below the first entry.
THEOREM Types == Spec => []TypeOK
<1>1. IInv => TypeOK
  BY DEF IInv, NodesSane, ChannelsTyped, Sane, TypeOK
<1> QED
  BY <1>1, Invariance, PTL

\* "Committed logs cannot be removed": whatever the messages, the membership
\* changes and the failures, no step of a running server changes its log up to its
\* commit_index (check_raft_log_consistency), nor moves that back.
THEOREM Committed == Spec => CommittedStable
<1> DEFINE Stable ==
             \A s \in Server : node'[s].state # "INIT_SERVER" =>
                /\ node[s].commit_index <= node'[s].commit_index
                /\ AgreeUpTo(node[s].log, node'[s].log, node[s].commit_index)
<1>1. NodeStep => Stable
  <2>1. ASSUME NEW s \in Server PROVE NewNode(s).state = "INIT_SERVER"
    BY DEF NewNode
  <2> QED
    BY <2>1 DEF NodeStep, Follows, Kept
<1>2. IInv /\ [Next]_vars => [Stable]_vars
  BY <1>1, NextStep
<1> QED
  BY <1>2, Invariance, PTL DEF Spec, CommittedStable
=============================================================================
