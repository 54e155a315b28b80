------------------------------ MODULE RaftNode ------------------------------
(***************************************************************************)
(* The sequential code of one raft server: the functions of rft.c, log.c   *)
(* and config.c that run under raft_state_lock, as operators from node to  *)
(* node.  A node is raft_state_t (me), the raft log and the raft           *)
(* configuration.  Module Raft makes actions of them.                      *)
(*                                                                         *)
(* last_applied is left out: raft_apply_log_entries brings it up to        *)
(* commit_index before the lock is released.  Logs stay below cthresh, so  *)
(* that no raft snapshot is taken and the snapshot's (last_index,          *)
(* last_term) is (0, 0): entry number i is at index i of the log.  What is *)
(* kept about a server that is not in the configuration has default values.*)
(* logs_match is the flag of the raft_server threads of that name, as set  *)
(* by the last round of each.                                              *)
(***************************************************************************)
EXTENDS Naturals, Sequences, FiniteSets

CONSTANTS Server,      \* server ids
          Nil,         \* the empty string, in voted_for and current_leader
          MaxEntries   \* how many entries fit in one message (max_msg_size)

ASSUME ServerAssumption == IsFiniteSet(Server)
ASSUME NilAssumption == Nil \notin Server
ASSUME MaxEntriesAssumption == MaxEntries \in Nat \ {0}

\* Roles of a running server; DOWN: the process stopped or exited; HUNG: its
\* worker waits for raft_state_lock, which it holds.
Running == {"INIT_SERVER", "FOLLOWER", "CANDIDATE", "LEADER"}
State == Running \cup {"DOWN", "HUNG"}

Entry == [term : Nat, command : {"RAFT_NOOP", "ADD_MEMBER", "DEL_MEMBER"},
          server : Server \cup {Nil}]

Noop(term) == [term |-> term, command |-> "RAFT_NOOP", server |-> Nil]
Config(term, command, x) == [term |-> term, command |-> command, server |-> x]

Node == [self_id : Server, state : State, current_term : Nat,
         voted_for : Server \cup {Nil}, current_leader : Server \cup {Nil},
         rcv_votes : Nat, commit_index : Nat, log : Seq(Entry),
         servers : SUBSET Server, voting : SUBSET Server, is_changing : BOOLEAN,
         next_index : [Server -> Nat], match_index : [Server -> Nat],
         voted_for_me : SUBSET Server, logs_match : SUBSET Server]

\* A process that has just started.
NewNode(s) ==
    [self_id |-> s, state |-> "INIT_SERVER", current_term |-> 0,
     voted_for |-> Nil, current_leader |-> Nil, rcv_votes |-> 0,
     commit_index |-> 0, log |-> <<>>, servers |-> {}, voting |-> {},
     is_changing |-> FALSE, next_index |-> [x \in Server |-> 1],
     match_index |-> [x \in Server |-> 0], voted_for_me |-> {}, logs_match |-> {}]

-----------------------------------------------------------------------------
\* config.c

\* (Mutant: what the joining server has is ignored.)
AddServerFromStart(n, x, last_log_index) ==
    [n EXCEPT !.servers = @ \cup {x},
              !.match_index[x] = 0,
              !.next_index[x] = 1,
              !.voted_for_me = IF x \in n.servers THEN @ ELSE @ \ {x}]

\* raft_config_add_server: a new server_t is NON_VOTING; the indexes of a present
\* one are set again.
AddServer(n, x, last_log_index) ==
    [n EXCEPT !.servers = @ \cup {x},
              !.match_index[x] = last_log_index,
              !.next_index[x] = last_log_index + 1,
              !.voted_for_me = IF x \in n.servers THEN @ ELSE @ \ {x}]

\* (Mutants: the server stays in the array; its vote still counts.)
RemoveVotingOnly(n, X) == [n EXCEPT !.voting = @ \ X, !.voted_for_me = @ \ X]
RemoveServersOnly(n, X) == [n EXCEPT !.servers = @ \ X, !.voted_for_me = @ \ X]

\* raft_config_remove_server
RemoveServers(n, X) ==
    [n EXCEPT !.servers = @ \ X,
              !.voting = @ \ X,
              !.match_index = [x \in Server |-> IF x \in X THEN 0 ELSE @[x]],
              !.next_index = [x \in Server |-> IF x \in X THEN 1 ELSE @[x]],
              !.voted_for_me = @ \ X,
              !.logs_match = @ \ X]

\* raft_config_set_new_vote: is the vote of v a new one?
IsNewVote(n, v) == v \in n.voting \ n.voted_for_me

\* (Mutant: half of the votes is enough.)
HasHalfOfVotes(n) == n.rcv_votes >= Cardinality(n.voting) \div 2

\* has_majority_of_votes
HasMajorityOfVotes(n) == n.rcv_votes > Cardinality(n.voting) \div 2

\* (Mutant: the leader does not count itself.)
HasMajorityOfOthers(n, i) ==
    Cardinality({x \in n.voting : n.match_index[x] >= i}) > Cardinality(n.voting) \div 2

\* has_majority_of_match_index: the members at index i or beyond, and the leader.
HasMajorityOfMatchIndex(n, i) ==
    Cardinality({x \in n.voting : n.match_index[x] >= i}) + 1
        > Cardinality(n.voting) \div 2

-----------------------------------------------------------------------------
\* log.c

\* The last (first) command of es about server x is the given one.
LastIs(es, command, x) ==
    \E i \in DOMAIN es : /\ es[i].command = command /\ es[i].server = x
                         /\ \A j \in i+1..Len(es) : es[j].server # x
FirstIs(es, command, x) ==
    \E i \in DOMAIN es : /\ es[i].command = command /\ es[i].server = x
                         /\ \A j \in 1..i-1 : es[j].server # x

\* append_raft_log_entry for each of es: a command takes effect when appended.
\* Servers added, or removed and added again, get a new server_t.
AppendEntries(n, es) ==
    LET added == {x \in Server : LastIs(es, "ADD_MEMBER", x)}
        deleted == {x \in Server : LastIs(es, "DEL_MEMBER", x)}
        anew == {x \in added : \/ x \notin n.servers
                               \/ \E i \in DOMAIN es : /\ es[i].command = "DEL_MEMBER"
                                                       /\ es[i].server = x}
        m == RemoveServers(n, deleted \cup anew)
    IN  [m EXCEPT !.log = @ \o es,
                  !.servers = @ \cup added,
                  !.voting = @ \cup added]

\* The entry at index i exists and has the term.
Matches(n, i, term) == i \in 1..Len(n.log) /\ n.log[i].term = term

\* (Mutants: conflicting entries stay; committed entries are not spared.)
KeptAll(n, m) == Len(n.log)
KeptMatching(n, m) ==
    IF Matches(n, m.prev_log_index, m.prev_log_term) THEN m.prev_log_index ELSE 0

\* remove_raft_conflicting_entries, as called by check_raft_log_consistency: what is
\* kept ends at the matching entry if that is not committed, else at commit_index.
KeptIndex(n, m) ==
    IF m.prev_log_index > n.commit_index /\ Matches(n, m.prev_log_index, m.prev_log_term)
    THEN m.prev_log_index ELSE n.commit_index

\* (Mutant: the configuration does not fall back.)
RemoveEntriesOnly(n, kept) == [n EXCEPT !.log = SubSeq(@, 1, kept)]

\* Undoing the commands from the last to the first: an ADD removes its server, a DEL
\* adds it back as a VOTING_MEMBER.
RemoveEntries(n, kept) ==
    LET es == SubSeq(n.log, kept + 1, Len(n.log))
        back == {x \in Server : FirstIs(es, "DEL_MEMBER", x)}
        gone == {x \in Server : FirstIs(es, "ADD_MEMBER", x)}
        m == RemoveServers(n, back \cup gone)
    IN  [m EXCEPT !.log = SubSeq(@, 1, kept),
                  !.servers = @ \cup back,
                  !.voting = @ \cup back]

\* ... and the fatal exit when the server to be added back is there already.
CannotAddBack(n, kept) ==
    \E i \in kept+1..Len(n.log) :
       LET x == n.log[i].server
           later == {j \in i+1..Len(n.log) : n.log[j].server = x}
       IN  /\ n.log[i].command = "DEL_MEMBER"
           /\ IF later = {} THEN x \in n.servers
              ELSE \E j \in later : /\ n.log[j].command = "DEL_MEMBER"
                                    /\ \A k \in later : j <= k

\* The comparison at the end of check_raft_log_consistency; the snapshot is (0, 0).
Consistent(n, m) ==
    \/ Matches(n, m.prev_log_index, m.prev_log_term)
    \/ m.prev_log_index = 0 /\ m.prev_log_term = 0

LastLogTerm(n) == n.log[Len(n.log)].term

\* (Mutant: the comparison of the terms is swapped.)
LogOkSwapped(n, m) ==
    \/ m.last_log_term < LastLogTerm(n)
    \/ m.last_log_term = LastLogTerm(n) /\ m.last_log_index >= Len(n.log)

\* log_ok of handle_vote_request: the candidate's log is at least as up-to-date as n's.
LogOk(n, m) ==
    \/ m.last_log_term > LastLogTerm(n)
    \/ m.last_log_term = LastLogTerm(n) /\ m.last_log_index >= Len(n.log)

-----------------------------------------------------------------------------
\* rft.c

\* (Mutant: the vote of the old term is kept.)
MatchTermsKeepVote(n, term) ==
    IF term <= n.current_term THEN n
    ELSE [n EXCEPT !.current_term = term,
                   !.current_leader = Nil,
                   !.state = IF @ \in {"LEADER", "CANDIDATE"} THEN "FOLLOWER" ELSE @]

\* match_terms and become_follower
MatchTerms(n, term) ==
    IF term <= n.current_term THEN n
    ELSE [n EXCEPT !.current_term = term,
                   !.voted_for = Nil,
                   !.current_leader = Nil,
                   !.state = IF @ \in {"LEADER", "CANDIDATE"} THEN "FOLLOWER" ELSE @]

\* handle_append_entries_request: the leader "we believe is for current term".
SetLeader(n, s) == [n EXCEPT !.current_leader = IF @ = Nil THEN s ELSE @]

\* (Mutant: match_index starts at the end of the leader's log.)
BecomeLeaderMatching(n) ==
    LET m == AppendEntries(n, <<Noop(n.current_term)>>)
        last == Len(m.log)
    IN  [m EXCEPT !.state = "LEADER",
                  !.current_leader = n.self_id,
                  !.next_index = [x \in Server |-> IF x \in m.servers THEN last + 1 ELSE 1],
                  !.match_index = [x \in Server |-> IF x \in m.servers THEN last ELSE 0]]

\* become_leader, with raft_config_set_all_server_indexes
BecomeLeader(n) ==
    LET m == AppendEntries(n, <<Noop(n.current_term)>>)
        last == Len(m.log)
    IN  [m EXCEPT !.state = "LEADER",
                  !.current_leader = n.self_id,
                  !.next_index = [x \in Server |-> IF x \in m.servers THEN last + 1 ELSE 1],
                  !.match_index = [x \in Server |-> 0]]

\* raft_apply_log_entries up to index: a server that applies its own ADD_MEMBER
\* while it is in its configuration becomes a follower.
ApplyLogEntries(n, index) ==
    LET mine == /\ n.self_id \in n.servers
                /\ \E i \in n.commit_index+1..index :
                      n.log[i].command = "ADD_MEMBER" /\ n.log[i].server = n.self_id
    IN  [n EXCEPT !.commit_index = index,
                  !.state = IF mine THEN "FOLLOWER" ELSE @]

\* raft_commit_log_entries, leader: the index the search from new_commit_index down
\* stops at, when it meets only entries of the current term on its way.
IsSafeCommit(n, i, new_commit_index) ==
    /\ HasMajorityOfMatchIndex(n, i)
    /\ \A k \in i..new_commit_index : Matches(n, k, n.current_term)

NewCommitIndex(n, new_commit_index) ==
    LET found == {i \in n.commit_index+1..new_commit_index :
                     /\ IsSafeCommit(n, i, new_commit_index)
                     /\ \A j \in i+1..new_commit_index : ~IsSafeCommit(n, j, new_commit_index)}
    IN  IF n.state = "LEADER"
        THEN IF found = {} THEN n.commit_index ELSE CHOOSE i \in found : TRUE
        ELSE IF new_commit_index < Len(n.log) THEN new_commit_index ELSE Len(n.log)

\* (Mutant: a committed change does not finish.)
CommitNotFinishing(n, new_commit_index) ==
    LET index == NewCommitIndex(n, new_commit_index)
    IN  IF index <= n.commit_index THEN n ELSE ApplyLogEntries(n, index)

CommitLogEntries(n, new_commit_index) ==
    LET index == NewCommitIndex(n, new_commit_index)
        config == \E i \in n.commit_index+1..index : n.log[i].command # "RAFT_NOOP"
    IN  IF index <= n.commit_index THEN n
        ELSE ApplyLogEntries([n EXCEPT !.is_changing =
                                 IF n.state = "LEADER" /\ config THEN FALSE ELSE @], index)
=============================================================================
