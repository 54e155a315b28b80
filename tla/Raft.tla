-------------------------------- MODULE Raft --------------------------------
(***************************************************************************)
(* A cluster of raft servers: elections, log replication and membership.   *)
(* An action is one critical section of raft_state_lock in one thread of   *)
(* one server: the worker (Handle...), the election thread (Bootstrap,     *)
(* SendMembershipRequest, BecomeCandidate, SetKey) or the raft_server      *)
(* thread that a server runs for each other member (the rest).             *)
(*                                                                         *)
(* APPEND_ENTRIES messages travel on the wormhole of their thread, in      *)
(* order; vote messages go through the routing table and may be delivered  *)
(* late, repeatedly or never.  A message to a server that is not running   *)
(* is lost.                                                                *)
(***************************************************************************)
EXTENDS RaftNode

CONSTANTS MaxTerm,      \* bound on the terms candidates start
          MaxLog,       \* bound on the logs that configuration changes extend
          MaxInFlight,  \* requests and replies on one wormhole; 1 means that the
                        \* reply comes within a heartbeat
          MaxBusy,      \* bound on the wormholes with messages under way
          Lossy,        \* kinds of messages that rmr may drop
          LateJoins,    \* may a membership request arrive after its sender's log has
                        \* grown?  (If not, such a request is lost.)
          Candidates,   \* servers whose election timeout may expire
          Suspects,     \* servers whose heartbeats, catch-up or join may time out
          Unreachable,  \* servers no wormhole can be opened to
          Faulty,       \* servers that may stop
          Restartable   \* servers that may start again

ASSUME BoundAssumption == MaxTerm \in Nat /\ MaxLog \in Nat
                          /\ MaxInFlight \in Nat /\ MaxBusy \in Nat
ASSUME FaultAssumption ==
    /\ Lossy \subseteq {"REQ", "REPLY"}
    /\ LateJoins \in BOOLEAN
    /\ Candidates \cup Suspects \cup Unreachable \cup Faulty \cup Restartable \subseteq Server

VARIABLES node,          \* the servers
          vote_reqs,     \* VOTE_REQ messages sent
          vote_replies,  \* VOTE_REPLY messages sent
          reqs,          \* reqs[s][t]: APPEND_ENTRIES_REQ messages from s to t
          replies,       \* replies[s][t]: APPEND_ENTRIES_REPLY messages from s to t
          joins,         \* MEMBERSHIP_REQ messages in flight
          redis_key      \* the server whose target the bootstrap key holds

vars == <<node, vote_reqs, vote_replies, reqs, replies, joins, redis_key>>

VoteReq == [src : Server, term : Nat, last_log_index : Nat, last_log_term : Nat]
VoteReply == [src : Server, dst : Server, term : Nat, granted : BOOLEAN]
AppendReq == [term : Nat, prev_log_index : Nat, prev_log_term : Nat,
              leader_commit : Nat, entries : Seq(Entry)]
AppendReply == [term : Nat, success : BOOLEAN, last_log_index : Nat]
MembershipReq == [src : Server, dst : Server, last_log_index : Nat]

\* ... and the counts agree: voting members are members, what is committed is there,
\* and next_index is never that of an entry before the first.
TypeOK ==
    /\ node \in [Server -> Node]
    /\ \A s \in Server : /\ node[s].self_id = s
                         /\ node[s].voting \subseteq node[s].servers
                         /\ node[s].commit_index <= Len(node[s].log)
                         /\ \A x \in Server : node[s].next_index[x] > 0
    /\ vote_reqs \in SUBSET VoteReq
    /\ vote_replies \in SUBSET VoteReply
    /\ reqs \in [Server -> [Server -> Seq(AppendReq)]]
    /\ replies \in [Server -> [Server -> Seq(AppendReply)]]
    /\ joins \in SUBSET MembershipReq
    /\ redis_key \in Server \cup {Nil}

Empty == [s \in Server |-> [t \in Server |-> <<>>]]

\* All processes start at once; none has contacted Redis.
Init ==
    /\ node = [s \in Server |-> NewNode(s)]
    /\ vote_reqs = {}
    /\ vote_replies = {}
    /\ reqs = Empty
    /\ replies = Empty
    /\ joins = {}
    /\ redis_key = Nil

votes_vars == <<vote_reqs, vote_replies>>
append_vars == <<reqs, replies>>
join_vars == <<joins, redis_key>>

IsRunning(s) == node[s].state \in Running
IsLeader(s) == node[s].state = "LEADER"

\* The wormholes with requests or replies under way.
Busy == {w \in Server \X Server : \/ reqs[w[1]][w[2]] # <<>>
                                   \/ replies[w[2]][w[1]] # <<>>}

\* What is on its way to s is lost when s stops.
LoseMessagesTo(s) ==
    /\ reqs' = [t \in Server |-> [reqs[t] EXCEPT ![s] = <<>>]]
    /\ replies' = [t \in Server |-> [replies[t] EXCEPT ![s] = <<>>]]
    /\ joins' = {m \in joins : m.dst # s}

\* exit(1) after a fatal error, or the end of the process.
Exit(s) ==
    /\ node' = [node EXCEPT ![s].state = "DOWN"]
    /\ LoseMessagesTo(s)
    /\ UNCHANGED <<votes_vars, redis_key>>

-----------------------------------------------------------------------------
\* The election thread

\* (Mutant: the key is set without looking whether it is there.)
BootstrapAnyway(s) ==
    /\ node[s].state = "INIT_SERVER"
    /\ redis_key' = s
    /\ \E n \in {AppendEntries(AddServer(node[s], s, 0), <<Config(1, "ADD_MEMBER", s)>>)} :
          node' = [node EXCEPT ![s] = CommitLogEntries(n, 1)]
    /\ UNCHANGED <<votes_vars, append_vars, joins>>

\* bootstrap_rft_cluster: the server that sets the key adds itself, and commits and
\* applies that entry.
Bootstrap(s) ==
    /\ node[s].state = "INIT_SERVER"
    /\ redis_key = Nil
    /\ redis_key' = s
    /\ \E n \in {AppendEntries(AddServer(node[s], s, 0), <<Config(1, "ADD_MEMBER", s)>>)} :
          node' = [node EXCEPT ![s] = CommitLogEntries(n, 1)]
    /\ UNCHANGED <<votes_vars, append_vars, joins>>

\* send_membership_request, one round: to the server named by the bootstrap key.
SendMembershipRequest(s) ==
    /\ node[s].state = "INIT_SERVER"
    /\ redis_key # Nil
    /\ IsRunning(redis_key)
    /\ joins' = {m \in joins : LateJoins \/ m.src # s}
                \cup {[src |-> s, dst |-> redis_key, last_log_index |-> Len(node[s].log)]}
    /\ UNCHANGED <<node, votes_vars, append_vars, redis_key>>

\* ... until "unable to send membership requests", 20 s after the first one.
JoinTimeout(s) ==
    /\ s \in Suspects
    /\ node[s].state = "INIT_SERVER"
    /\ redis_key # Nil
    /\ Exit(s)

\* become_candidate, one round of its loop; a server that is not a voting member of
\* its own configuration exits.
BecomeCandidate(s) ==
    /\ s \in Candidates
    /\ node[s].state \in {"FOLLOWER", "CANDIDATE"}
    /\ node[s].current_term < MaxTerm
    /\ IF s \notin node[s].voting THEN Exit(s)
       ELSE /\ \E n \in {[node[s] EXCEPT !.state = "CANDIDATE", !.current_term = @ + 1,
                                         !.voted_for = s, !.rcv_votes = 1,
                                         !.voted_for_me = {s}]} :
                  IF HasMajorityOfVotes(n)
                  THEN /\ node' = [node EXCEPT ![s] = BecomeLeader(n)]
                       /\ UNCHANGED vote_reqs
                  ELSE /\ node' = [node EXCEPT ![s] = n]
                       /\ vote_reqs' = vote_reqs \cup
                             {[src |-> s, term |-> n.current_term,
                               last_log_index |-> Len(n.log),
                               last_log_term |-> LastLogTerm(n)]}
            /\ UNCHANGED <<vote_replies, append_vars, join_vars>>

\* trigger_election_timeout, LEADER: the new leader writes its target to the key.
SetKey(s) ==
    /\ IsLeader(s)
    /\ redis_key # s
    /\ redis_key' = s
    /\ UNCHANGED <<node, votes_vars, append_vars, joins>>

-----------------------------------------------------------------------------
\* The worker: votes and membership requests

\* handle_vote_request.  A server with an empty log takes raft_state_lock again, in
\* get_raft_last_log_term, and hangs.  A refusal is kept when its term is news to
\* the candidate; the others have no effect on it.
HandleVoteRequest(t, m, timed_out) ==
    LET n == MatchTerms(node[t], m.term)
        refused == \/ ~timed_out /\ n.state = "FOLLOWER"
                   \/ m.term < n.current_term
        vote == IF LogOk(n, m) /\ n.voted_for = Nil THEN m.src ELSE n.voted_for
        reply(granted) == [src |-> t, dst |-> m.src, term |-> n.current_term,
                           granted |-> granted]
    IN  /\ IsRunning(t)
        /\ t # m.src
        /\ \/ /\ refused
              /\ node' = [node EXCEPT ![t] = n]
              /\ vote_replies' = IF m.term < n.current_term
                                 THEN vote_replies \cup {reply(FALSE)} ELSE vote_replies
           \/ /\ ~refused
              /\ n.log = <<>>
              /\ node' = [node EXCEPT ![t] = [n EXCEPT !.state = "HUNG"]]
              /\ UNCHANGED vote_replies
           \/ /\ ~refused
              /\ n.log # <<>>
              /\ node' = [node EXCEPT ![t] = [n EXCEPT !.voted_for = vote]]
              /\ vote_replies' = IF vote = m.src
                                 THEN vote_replies \cup {reply(TRUE)} ELSE vote_replies
        /\ UNCHANGED <<vote_reqs, append_vars, join_vars>>

\* handle_vote_reply; has_majority_of_votes exits when there are more votes than
\* voting members.
HandleVoteReply(m) ==
    LET s == m.dst
        n == node[s]
        counted == /\ m.term = n.current_term
                   /\ n.state = "CANDIDATE"
                   /\ m.granted
                   /\ IsNewVote(n, m.src)
        voted == [n EXCEPT !.voted_for_me = @ \cup {m.src}, !.rcv_votes = @ + 1]
    IN  /\ IsRunning(s)
        /\ IF counted /\ voted.rcv_votes > Cardinality(voted.voting) THEN Exit(s)
           ELSE /\ node' = [node EXCEPT ![s] =
                               IF ~counted THEN MatchTerms(n, m.term)
                               ELSE IF HasMajorityOfVotes(voted) THEN BecomeLeader(voted)
                               ELSE voted]
                /\ UNCHANGED <<votes_vars, append_vars, join_vars>>

\* handle_membership_request
HandleMembershipRequest(m) ==
    LET s == m.dst
    IN  /\ IsRunning(s)
        /\ LateJoins \/ m.last_log_index = Len(node[m.src].log)
        /\ joins' = joins \ {m}
        /\ node' = IF IsLeader(s) /\ m.src # s
                   THEN [node EXCEPT ![s] = AddServer(@, m.src, m.last_log_index)]
                   ELSE node
        /\ UNCHANGED <<votes_vars, append_vars, redis_key>>

-----------------------------------------------------------------------------
\* Replication

\* (Mutant: the entry at prev is sent, too.)
EntriesFrom(log, prev) ==
    SubSeq(log, IF prev = 0 THEN 1 ELSE prev,
           IF prev + MaxEntries < Len(log) THEN prev + MaxEntries ELSE Len(log))

\* serialize_raft_log_entries: what fits in a message, from the entry after prev on.
EntriesAfter(log, prev) ==
    SubSeq(log, prev + 1, IF prev + MaxEntries < Len(log) THEN prev + MaxEntries ELSE Len(log))

\* send_append_entries: an entry before the first or after the last one is named by the
\* (0, 0) of the snapshot.
AppendRequest(n, prev, entries) ==
    LET known == prev \in 1..Len(n.log)
    IN  [term |-> n.current_term,
         prev_log_index |-> IF known THEN prev ELSE 0,
         prev_log_term |-> IF known THEN n.log[prev].term ELSE 0,
         leader_commit |-> n.commit_index,
         entries |-> entries]

\* One round of the raft_server thread of s for t, up to its wait: the entries from
\* next_index on once the logs are known to match, else none.  With a next_index
\* beyond the log the number of entries wraps around, and serialize_log_entries exits.
SendAppendEntries(s, t) ==
    LET n == node[s]
        prev == n.next_index[t] - 1
        match == n.match_index[t] = prev
        req == AppendRequest(n, prev, IF match THEN EntriesAfter(n.log, prev) ELSE <<>>)
    IN  /\ IsLeader(s)
        /\ t \in n.servers \ ({s} \cup Unreachable)
        /\ Len(reqs[s][t]) + Len(replies[t][s]) < MaxInFlight
        /\ Cardinality(Busy \cup {<<s, t>>}) <= MaxBusy
        /\ IF match /\ prev > Len(n.log) THEN Exit(s)
           ELSE /\ node' = [node EXCEPT ![s].logs_match =
                               IF match /\ t \notin n.voting THEN @ \cup {t} ELSE @ \ {t}]
                /\ reqs' = IF IsRunning(t) THEN [reqs EXCEPT ![s][t] = Append(@, req)]
                           ELSE reqs
                /\ UNCHANGED <<votes_vars, replies, join_vars>>

\* The worker of t is done with the oldest request from s: it is now n, and replies.
Reply(s, t, n, success) ==
    /\ node' = [node EXCEPT ![t] = n]
    /\ reqs' = [reqs EXCEPT ![s][t] = Tail(@)]
    /\ replies' = IF ~IsRunning(s) THEN replies
                  ELSE [replies EXCEPT ![t][s] =
                           Append(@, [term |-> n.current_term, success |-> success,
                                      last_log_index |-> Len(n.log)])]
    /\ UNCHANGED <<votes_vars, join_vars>>

\* handle_append_entries_request, of the oldest request from s to t.  (n, cut and
\* grown are the server after match_terms, check_raft_log_consistency and the appends.)
HandleAppendEntriesRequest(s, t) ==
    /\ IsRunning(t)
    /\ reqs[s][t] # <<>>
    /\ LET m == Head(reqs[s][t])
       IN \E n \in {MatchTerms(node[t], m.term)} :
             IF m.term < n.current_term THEN Reply(s, t, n, FALSE)
             ELSE IF CannotAddBack(n, KeptIndex(n, m)) THEN Exit(t)
             ELSE \E cut \in {RemoveEntries(SetLeader(n, s), KeptIndex(n, m))} :
                     IF ~Consistent(cut, m) THEN Reply(s, t, cut, FALSE)
                     ELSE \E grown \in {AppendEntries(cut, m.entries)} :
                             Reply(s, t, IF grown.commit_index < m.leader_commit
                                         THEN CommitLogEntries(grown, m.leader_commit)
                                         ELSE grown,
                                   TRUE)

\* handle_append_entries_reply, of the oldest reply from t to s.
HandleAppendEntriesReply(s, t) ==
    /\ IsRunning(s)
    /\ replies[t][s] # <<>>
    /\ LET m == Head(replies[t][s])
           counts == /\ m.term = node[s].current_term
                     /\ IsLeader(s)
                     /\ t \in node[s].servers
       IN \E n \in {IF ~counts THEN MatchTerms(node[s], m.term)
                    ELSE [node[s] EXCEPT
                             !.next_index[t] = m.last_log_index + 1,
                             !.match_index[t] = IF m.success THEN m.last_log_index ELSE @]} :
             node' = [node EXCEPT ![s] =
                         IF counts /\ m.success /\ m.last_log_index > n.commit_index
                         THEN CommitLogEntries(n, m.last_log_index) ELSE n]
    /\ replies' = [replies EXCEPT ![t][s] = Tail(@)]
    /\ UNCHANGED <<votes_vars, reqs, join_vars>>

-----------------------------------------------------------------------------
\* Membership changes, by the raft_server thread of s for t after its wait

\* (Mutant: a change is started whatever the flag says.)
ChangeAnyway(s, t, command) ==
    /\ IsLeader(s)
    /\ Len(node[s].log) < MaxLog
    /\ node' = [node EXCEPT ![s] =
                   AppendEntries([@ EXCEPT !.is_changing = TRUE],
                                 <<Config(@.current_term, command, t)>>)]
    /\ UNCHANGED <<votes_vars, append_vars, join_vars>>

\* A configuration change that holds the is_changing flag.
ChangeConfig(s, t, command) ==
    /\ IsLeader(s)
    /\ ~node[s].is_changing
    /\ Len(node[s].log) < MaxLog
    /\ node' = [node EXCEPT ![s] =
                   AppendEntries([@ EXCEPT !.is_changing = TRUE],
                                 <<Config(@.current_term, command, t)>>)]
    /\ UNCHANGED <<votes_vars, append_vars, join_vars>>

\* is_server_caught_up says yes; its answer is a matter of time stamps.
CaughtUp(s, t) ==
    /\ t \in (node[s].servers \ node[s].voting) \cap node[s].logs_match
    /\ ChangeConfig(s, t, "ADD_MEMBER")

\* is_server_caught_up says no for the last of its rounds.
RoundsOver(s, t) ==
    /\ t \in Suspects
    /\ t \in (node[s].servers \ node[s].voting) \cap node[s].logs_match
    /\ node' = [node EXCEPT ![s] = RemoveServers(@, {t})]
    /\ UNCHANGED <<votes_vars, append_vars, join_vars>>

\* hb_timeouts exceeds MAX_HEARBEAT_TIMEOUTS.
HeartbeatTimeout(s, t) ==
    /\ t \in Suspects \cap (node[s].servers \ {s})
    /\ ChangeConfig(s, t, "DEL_MEMBER")

\* A leader that cannot open the wormhole gives up: no flag is taken.
GiveUp(s, t) ==
    /\ t \in Unreachable \cap (node[s].servers \ {s})
    /\ IsLeader(s)
    /\ Len(node[s].log) < MaxLog
    /\ node' = [node EXCEPT ![s] =
                   AppendEntries(@, <<Config(@.current_term, "DEL_MEMBER", t)>>)]
    /\ UNCHANGED <<votes_vars, append_vars, join_vars>>

-----------------------------------------------------------------------------
\* Failures

Crash(s) == s \in Faulty /\ IsRunning(s) /\ Exit(s)

\* Nothing is on stable storage.
Restart(s) ==
    /\ s \in Restartable
    /\ ~IsRunning(s)
    /\ node' = [node EXCEPT ![s] = NewNode(s)]
    /\ UNCHANGED <<votes_vars, append_vars, join_vars>>

\* rft_send_wh_msg and rft_rts_msg drop a message after ten attempts.  (A request
\* that is sent again because its reply was lost may extend the log: bound.)
DropRequest(s, t) ==
    /\ "REQ" \in Lossy
    /\ reqs[s][t] # <<>>
    /\ reqs' = [reqs EXCEPT ![s][t] = Tail(@)]
    /\ UNCHANGED <<node, votes_vars, replies, join_vars>>

DropReply(s, t) ==
    /\ "REPLY" \in Lossy
    /\ replies[s][t] # <<>>
    /\ Len(node[s].log) <= MaxLog
    /\ replies' = [replies EXCEPT ![s][t] = Tail(@)]
    /\ UNCHANGED <<node, votes_vars, reqs, join_vars>>

-----------------------------------------------------------------------------
Next ==
    \/ \E s \in Server :
          \/ Bootstrap(s)
          \/ SendMembershipRequest(s)
          \/ JoinTimeout(s)
          \/ BecomeCandidate(s)
          \/ SetKey(s)
          \/ Crash(s)
          \/ Restart(s)
    \/ \E t \in Server, m \in vote_reqs, timed_out \in BOOLEAN :
          HandleVoteRequest(t, m, timed_out)
    \/ \E m \in vote_replies : HandleVoteReply(m)
    \/ \E m \in joins : HandleMembershipRequest(m)
    \/ \E s, t \in Server :
          \/ SendAppendEntries(s, t)
          \/ HandleAppendEntriesRequest(s, t)
          \/ HandleAppendEntriesReply(s, t)
          \/ CaughtUp(s, t)
          \/ RoundsOver(s, t)
          \/ HeartbeatTimeout(s, t)
          \/ GiveUp(s, t)
          \/ DropRequest(s, t)
          \/ DropReply(s, t)

Spec == Init /\ [][Next]_vars

-----------------------------------------------------------------------------
\* Safety

Min2(i, j) == IF i < j THEN i ELSE j

\* Both logs have index i, and are the same up to it.
AgreeUpTo(p, q, i) == i <= Min2(Len(p), Len(q)) /\ \A k \in 1..i : p[k] = q[k]

\* Two leaders of one term never exist (become_leader), with the logs, the clock
\* and the membership of the whole system.
\* It fails if a server restarts within a term, since voted_for is not stored.
ElectionSafety ==
    \A s, t \in Server :
       IsLeader(s) /\ IsLeader(t) /\ node[s].current_term = node[t].current_term => s = t

\* The Log Matching Property that raft_commit_log_entries relies on: logs that hold
\* an entry of the same index and term are the same up to that entry.
LogMatching ==
    \A s, t \in Server : \A i \in 1..Min2(Len(node[s].log), Len(node[t].log)) :
       node[s].log[i].term = node[t].log[i].term => AgreeUpTo(node[s].log, node[t].log, i)

\* Two servers never apply different entries at the same index
\* (raft_apply_log_entries).
AppliedAgree ==
    \A s, t \in Server :
       \A i \in 1..Min2(node[s].commit_index, node[t].commit_index) :
          node[s].log[i] = node[t].log[i]

\* A "follower will not try to apply the same command twice" (add_server): no NOOP is
\* applied twice, and no ADD_MEMBER unless its server was removed in between.
AppliedOnce ==
    \A s \in Server : \A i \in 1..node[s].commit_index : \A k \in 1..i-1 :
       node[s].log[i] = node[s].log[k] /\ node[s].log[i].command # "DEL_MEMBER" =>
          \E d \in k+1..i-1 : /\ node[s].log[d].command = "DEL_MEMBER"
                             /\ node[s].log[d].server = node[s].log[i].server

\* What any server has committed is in the log of every leader of its term or of a
\* later one, so no leader overwrites it.
LeaderCompleteness ==
    \A s, t \in Server :
       IsLeader(s) /\ node[t].current_term <= node[s].current_term =>
          AgreeUpTo(node[s].log, node[t].log, node[t].commit_index)

\* match_index, which commits are counted by, never claims more than the follower
\* has: while the follower is in the leader's term their logs agree up to it.
MatchIndexSound ==
    \A s \in Server : IsLeader(s) =>
       \A t \in node[s].servers : node[t].current_term = node[s].current_term =>
          AgreeUpTo(node[s].log, node[t].log, node[s].match_index[t])

\* No server that does not fail exits on one of the fatal errors: a candidate that is
\* no member, more votes than members, a next_index beyond the log, a removed
\* member that cannot be added back.
NoFatalExit == \A s \in Server \ Faulty : node[s].state # "DOWN"

\* "log lock needs to be released before aquiring tha raft state lock in rft.c to
\* avoid deadlocks" (get_raft_last_log_term): the worker never waits for a lock it
\* holds.
NoSelfDeadlock == \A s \in Server : node[s].state # "HUNG"

\* "only one at a time is allowed" (raft_config_t.is_changing): a leader's log holds
\* at most one configuration change that is not committed.  It holds while one leader
\* makes all changes through the flag, and fails when a leader gives up on a server
\* (GiveUp takes no flag) or follows one whose change is not committed yet.
OneChangeAtATime ==
    \A s \in Server : IsLeader(s) =>
       Cardinality({i \in node[s].commit_index+1..Len(node[s].log) :
                       node[s].log[i].command # "RAFT_NOOP"}) <= 1

\* "a server must be prepared to fall back to the previous configuration in its log"
\* (remove_raft_conflicting_entries): whatever was appended and removed, the voting
\* members are the ones of the commands in the log.
ConfigOfLog ==
    \A s \in Server :
       node[s].voting = {x \in Server : LastIs(node[s].log, "ADD_MEMBER", x)}

\* "Committed logs cannot be removed" (remove_raft_conflicting_entries): a running
\* server never changes its log up to its commit_index, nor moves that back.
CommittedStable ==
    [][\A s \in Server : node'[s].state # "INIT_SERVER" =>
          /\ node[s].commit_index <= node'[s].commit_index
          /\ AgreeUpTo(node[s].log, node'[s].log, node[s].commit_index)]_vars

-----------------------------------------------------------------------------
\* Liveness

\* The election thread goes around on its timer; a raft_server thread sends at every
\* heartbeat, and the worker handles what arrives.  (With MaxInFlight = 1 one of the
\* steps of a wormhole is enabled at a time.)
ElectionThread(s) == Bootstrap(s) \/ SendMembershipRequest(s) \/ BecomeCandidate(s)

Wormhole(s, t) == \/ SendAppendEntries(s, t)
                  \/ HandleAppendEntriesRequest(s, t)
                  \/ HandleAppendEntriesReply(s, t)

Fairness ==
    /\ \A s \in Server : WF_vars(ElectionThread(s))
    /\ \A s \in Server : \A t \in Server \ {s} : /\ WF_vars(Wormhole(s, t))
                                                /\ WF_vars(CaughtUp(s, t))
    /\ WF_vars(\E m \in joins : HandleMembershipRequest(m))

FairSpec == Spec /\ Fairness

\* All servers that start are members in the end (send_membership_request to
\* raft_apply_log_entries), though its requests may meet no leader yet and only one
\* member is added at a time.
JoinCompletes == <>(\A s \in Server : node[s].state # "INIT_SERVER")

\* Again and again, every leader that has another member has committed all it appended
\* (handle_append_entries_reply is the only place a leader commits).
LeaderCommits ==
    []<>(\A s \in Server : IsLeader(s) /\ node[s].servers # {s} =>
            node[s].commit_index = Len(node[s].log))
=============================================================================
