------------------------ MODULE RaftMembershipProofs ------------------------
(***************************************************************************)
(* The membership protocol while one leader makes all changes: servers     *)
(* join, are removed, stop and start again, requests are lost, and the     *)
(* logs still hold the same commands in the same order.                    *)
(*                                                                         *)
(* The other steps, which begin the cluster or make its leader's log grow, *)
(* keep the invariant of RaftSequenceProofs as well                        *)
(* (one sequence of entries that every log begins), and what is said of    *)
(* the logs follows from it.                                               *)
(***************************************************************************)
EXTENDS RaftSequenceProofs

-----------------------------------------------------------------------------
(* The leader's log grows                                                  *)

\* What one command does to the configuration.
LEMMA OneCommand ==
    ASSUME NEW t \in Server, NEW e \in Entry, e.server = t
    PROVE  /\ e.command = "ADD_MEMBER" => Added(<<e>>) = {t} /\ Deleted(<<e>>) = {}
           /\ e.command = "DEL_MEMBER" => Added(<<e>>) = {} /\ Deleted(<<e>>) = {t}
<1> DEFINE es == <<e>>
<1>1. DOMAIN es = {1} /\ Len(es) = 1 /\ es[1] = e
  OBVIOUS
<1> HIDE DEF es
<1>2. \A c, x : LastIs(es, c, x) <=> e.command = c /\ x = t
  BY <1>1 DEF LastIs
<1> QED
  BY <1>2 DEF Added, Deleted, es

\* A server becomes n, whose log is the leader's log and one entry more.
LEMMA LeaderGrows ==
    ASSUME IInv, NEW L \in Seq(Entry), LInv(L), NEW s \in Server, IsLeader(s), NEW n \in Node,
           NEW e \in Entry, n.log = Append(L, e), e.server # s,
           Proper(Append(L, e)), Once(Append(L, e)),
           node' = [node EXCEPT ![s] = n], UNCHANGED <<votes_vars, append_vars, join_vars>>,
           n.state = "LEADER", n.current_term = node[s].current_term,
           s \in n.voting, n.voting = Added(Append(L, e)),
           \A x \in n.servers \ {s} : /\ x \in node[s].servers
                                      /\ n.next_index[x] = node[s].next_index[x]
    PROVE  LInv(Append(L, e))'
<1> DEFINE M == Append(L, e)
<1>1. /\ node \in [Server -> Node] /\ node'[s] = n
      /\ \A x \in Server \ {s} : node'[x] = node[x]
  BY DEF IInv, NodesSane
<1>2. /\ M \in Seq(Entry) /\ Begins(L, M) /\ Begins(M, M) /\ Len(M) = Len(L) + 1 /\ M[Len(M)] = e
      /\ Len(L) \in Nat /\ \A i \in 1..Len(L) : M[i] = L[i]
  <2>1. M \in Seq(Entry) /\ Len(M) = Len(L) + 1 /\ M[Len(M)] = e
    OBVIOUS
  <2>2. Len(L) \in Nat /\ \A i \in 1..Len(L) : M[i] = L[i]
    OBVIOUS
  <2>3. Begins(L, M)
    BY BeginsAppended
  <2>4. Begins(M, M)
    BY Zenon, <2>1, BeginsSelf
  <2> QED
    BY Zenon, <2>1, <2>2, <2>3, <2>4
<1>3. PICK K \in Seq(Entry) : K = M
  BY Zenon, <1>2
<1> HIDE DEF M
<1>4. /\ redis_key' = redis_key /\ reqs' = reqs /\ replies' = replies
      /\ vote_reqs' = vote_reqs /\ vote_replies' = vote_replies
  BY DEF votes_vars, append_vars, join_vars
<1>5. LeaderOK(L, s) /\ NodeOK(L, s)
  BY DEF LInv
<1>6. \A x \in Server \ {s} : LogKept(x)
  BY <1>1 DEF LogKept
<1>7. ASSUME NEW x \in Server, NEW y \in Server PROVE WormholeOK(K, x, y)'
  <2>1. WormholeOK(L, x, y)
    BY DEF LInv
  <2>2. CASE y = s
    <3>1. reqs[x][y] = << >> /\ replies[y][x] = << >>
      BY Zenon, <1>5, <2>1, <2>2 DEF WormholeOK, LeaderOK
    <3> QED
      BY Zenon, <1>4, <3>1 DEF WormholeOK
  <2>3. CASE y # s
    BY Zenon, <1>2, <1>3, <1>4, <1>6, <2>1, <2>3, WormholeKept
  <2> QED
    BY <2>2, <2>3
<1>8. ASSUME NEW x \in Server PROVE NodeOK(K, x)'
  <2>1. CASE x = s
    BY Zenon, <1>1, <1>2, <1>3, <1>5, <2>1 DEF NodeOK, M
  <2>2. CASE x # s
    BY Zenon, <1>1, <1>2, <1>3, <1>4, <2>2, NodeKept DEF LInv
  <2> QED
    BY <2>1, <2>2
<1>9. LeaderOK(K, s)'
  <2>1. ASSUME NEW x \in n.servers \ {s} PROVE Knows(K, s, x)'
    <3>1. x \in Server /\ node[s].next_index[x] \in Nat /\ x \in node[s].servers
      <4>1. node[s] \in Node
        BY <1>1
      <4> QED
        BY Zenon, <4>1 DEF Node
    <3>2. Knows(L, s, x) /\ LogKept(x) /\ node'[s].next_index[x] = node[s].next_index[x]
      BY Zenon, <1>1, <1>5, <1>6, <3>1 DEF LeaderOK
    <3> QED
      BY Zenon, <1>2, <1>3, <1>4, <3>1, <3>2, KnowsKept
  <2>2. ASSUME NEW i \in 2..Len(K) PROVE K[i].server # s
    <3>1. \A k \in 2..Len(L) : L[k].server # s
      BY <1>5 DEF LeaderOK
    <3> QED
      BY <1>2, <1>3, <3>1
  <2>3. /\ s = redis_key /\ s \in Candidates /\ node[s].current_term = 1
    BY <1>5 DEF LeaderOK
  <2>4. node'[s].log = K
    BY <1>1, <1>3 DEF M
  <2> QED
    BY Zenon, <1>1, <1>4, <2>1, <2>2, <2>3, <2>4 DEF LeaderOK
<1>10. ASSUME NEW x \in Server, IsLeader(x)' PROVE LeaderOK(K, x)'
  <2>1. CASE x # s
    BY Zenon, <1>1, <1>5, <1>10, <2>1 DEF LInv, LeaderOK, IsLeader
  <2> QED
    BY <1>9, <2>1
<1>11. redis_key # Nil /\ node'[redis_key].state # "FOLLOWER"
  BY Zenon, <1>1, <1>5, NilAssumption DEF LeaderOK
<1>12. Proper(K) /\ Once(K) /\ vote_reqs = {} /\ vote_replies = {}
  BY <1>3 DEF LInv, M
<1>13. LInv(K)'
  BY Zenon, <1>4, <1>7, <1>8, <1>10, <1>11, <1>12 DEF LInv
<1> QED
  BY <1>3, <1>13 DEF M

\* add_server and remove_server, by the leader's thread for t.
LEMMA CommandKept ==
    ASSUME IInv, NEW L \in Seq(Entry), LInv(L), NEW s \in Server, NEW t \in Server,
           IsLeader(s), t \in node[s].servers \ {s},
           NEW command \in {"ADD_MEMBER", "DEL_MEMBER"},
           command = "ADD_MEMBER" => t \notin node[s].voting,
           NEW j \in Node, j.log = node[s].log, j.servers = node[s].servers,
           j.voting = node[s].voting, j.state = node[s].state,
           j.current_term = node[s].current_term, j.next_index = node[s].next_index,
           node' = [node EXCEPT ![s] =
                       AppendEntries(j, <<Config(node[s].current_term, command, t)>>)],
           UNCHANGED <<votes_vars, append_vars, join_vars>>
    PROVE  MInv'
<1>1. node \in [Server -> Node] /\ LeaderOK(L, s) /\ NodeOK(L, s)
  BY DEF IInv, NodesSane, LInv
<1>2. /\ node[s].log = L /\ node[s].current_term = 1 /\ s \in node[s].voting
      /\ node[s].voting = Added(L) /\ node[s].state = "LEADER"
  BY <1>1 DEF LeaderOK, NodeOK, IsLeader
<1>3. PICK e \in Entry : e = Config(1, command, t)
  BY Zenon DEF Config, Entry
<1>4. e.command = command /\ e.server = t /\ e.term = 1
  BY <1>3 DEF Config
<1> DEFINE es == <<e>>
           n == AppendEntries(j, es)
           X == Deleted(es) \cup Anew(j, es)
<1>5. es \in Seq(Entry) /\ DOMAIN es = {1} /\ es[1] = e /\ Proper(es)
  BY <1>4, SettledShort DEF Proper
<1>6. L \o es = Append(L, e)
  OBVIOUS
<1>7. Proper(L) /\ Once(L)
  BY DEF LInv
<1>8. /\ command = "ADD_MEMBER" => Added(es) = {t} /\ Deleted(es) = {}
      /\ command = "DEL_MEMBER" => Added(es) = {} /\ Deleted(es) = {t}
  BY Zenon, <1>4, OneCommand
<1> HIDE DEF es
<1>9. /\ n \in Node /\ n.log = j.log \o es
      /\ n.servers = (j.servers \ X) \cup Added(es)
      /\ n.voting = (j.voting \ X) \cup Added(es)
      /\ n.next_index = [x \in Server |-> IF x \in X THEN 1 ELSE j.next_index[x]]
      /\ n.state = j.state /\ n.current_term = j.current_term
  BY Zenon, <1>5, AppendEntriesIs
<1>10. Anew(j, es) = {}
  BY Zenon, <1>4, <1>5, <1>8 DEF Anew
<1>11. Added(Append(L, e)) = (Added(L) \ X) \cup Added(es)
  <2>1. Anew(j, es) \in SUBSET Added(es)
    BY DEF Anew
  <2>2. Added(L \o es) = (Added(L) \ X) \cup Added(es)
    BY <1>5, <2>1, AddedAppended
  <2> QED
    BY Zenon, <1>6, <2>2
<1> HIDE DEF n
<1>12. node' = [node EXCEPT ![s] = n]
  BY <1>2, <1>3 DEF n, es
<1>13. /\ n.log = Append(L, e) /\ n.state = "LEADER" /\ n.current_term = node[s].current_term
       /\ n.voting = Added(Append(L, e))
  BY Zenon, <1>2, <1>6, <1>9, <1>11
<1>14. X \subseteq {t} /\ (command = "ADD_MEMBER" => X = {}) /\ (command = "DEL_MEMBER" => t \in X)
  BY Zenon, <1>8, <1>10
<1>15. s \in n.voting
  BY Zenon, <1>2, <1>9, <1>14
<1>16. ASSUME NEW x \in n.servers \ {s}
       PROVE  x \in node[s].servers /\ n.next_index[x] = node[s].next_index[x]
  <2>1. x \in Server
    BY Zenon, <1>9 DEF Node
  <2>2. x \in node[s].servers /\ x \notin X
    BY Zenon, <1>8, <1>9, <1>14
  <2> HIDE DEF X
  <2> QED
    BY Zenon, <1>9, <2>1, <2>2
<1>17. Proper(Append(L, e)) /\ Once(Append(L, e))
  BY Zenon, <1>2, <1>4, <1>7, OnceAppended
<1>18. LInv(Append(L, e))'
  BY Zenon, <1>4, <1>9, <1>12, <1>13, <1>15, <1>16, <1>17, LeaderGrows
<1>19. Append(L, e) \in Seq(Entry)
  OBVIOUS
<1> QED
  BY Zenon, <1>18, <1>19 DEF MInv

LEMMA ChangeConfigKept ==
    ASSUME IInv, NEW L \in Seq(Entry), LInv(L), NEW s \in Server, NEW t \in Server,
           t \in node[s].servers \ {s}, NEW command \in {"ADD_MEMBER", "DEL_MEMBER"},
           command = "ADD_MEMBER" => t \notin node[s].voting, ChangeConfig(s, t, command)
    PROVE  MInv'
<1> DEFINE old == node[s]
           n == [old EXCEPT !.is_changing = TRUE]
<1>1. old \in Node
  BY DEF IInv, NodesSane
<1>2. /\ IsLeader(s)
      /\ node' = [node EXCEPT ![s] =
                     AppendEntries(n, <<Config(old.current_term, command, t)>>)]
      /\ UNCHANGED <<votes_vars, append_vars, join_vars>>
  BY Zenon DEF ChangeConfig
<1>3. /\ n \in Node /\ n.log = old.log /\ n.servers = old.servers
      /\ n.voting = old.voting /\ n.next_index = old.next_index
      /\ n.state = old.state /\ n.current_term = old.current_term
  BY Zenon, <1>1, FlaggedIs
<1> HIDE DEF n
<1> QED
  BY Zenon, <1>2, <1>3, CommandKept

\* bootstrap_rft_cluster: the log begins with the founder's ADD_MEMBER.
LEMMA BootstrapKept ==
    ASSUME IInv, NEW L \in Seq(Entry), LInv(L), NEW s \in Server, Bootstrap(s)
    PROVE  /\ MInv'
           /\ node' = [node EXCEPT ![s] = node'[s]] /\ redis_key' = s
           /\ node[s].log = << >> /\ node'[s].state = "FOLLOWER"
           /\ node'[s].commit_index = 1 /\ Len(node'[s].log) = 1
<1>1. PICK e \in Entry : e = Config(1, "ADD_MEMBER", s)
  BY Zenon DEF Config, Entry
<1>2. e.command = "ADD_MEMBER" /\ e.server = s
  BY <1>1 DEF Config
<1> DEFINE old == node[s]
           es == <<e>>
           a == AddServer(old, s, 0)
           n == AppendEntries(a, es)
           done == CommitLogEntries(n, 1)
<1>3. /\ node \in [Server -> Node] /\ old \in Node /\ Sane(old) /\ old.self_id = s
  BY SaneTypes DEF IInv, NodesSane
<1>4. /\ redis_key = Nil /\ redis_key' = s /\ old.state = "INIT_SERVER"
      /\ node' = [node EXCEPT ![s] = done]
      /\ UNCHANGED <<votes_vars, append_vars, joins>>
  BY Zenon, <1>1 DEF Bootstrap
<1>5. Unformed(L)
  BY <1>4 DEF LInv
<1>6. ASSUME NEW x \in Server PROVE node[x].log = << >>
  <2>1. node[x].log \in Seq(Entry) /\ Begins(node[x].log, << >>)
    BY Zenon, <1>3, <1>5 DEF LInv, NodeOK, Unformed, Node
  <2>2. Len(node[x].log) = 0
    BY <2>1 DEF Begins
  <2> QED
    BY <2>1, <2>2
<1>7. /\ old.log = << >> /\ old.servers = {} /\ old.voting = {} /\ old.current_term = 0
      /\ old.commit_index = 0
  <2>1. old.log = << >> /\ old.servers = {} /\ old.current_term = 0
    BY <1>5, <1>6 DEF Unformed
  <2>2. Len(old.log) = 0
    BY <2>1
  <2> QED
    BY <1>3, <2>1, <2>2, SaneTypes DEF Sane
<1>8. old \in Node
  BY <1>3
<1>9. es \in Seq(Entry) /\ DOMAIN es = {1} /\ es[1] = e /\ Len(es) = 1 /\ << >> \o es = es
  OBVIOUS
<1>10. Added(es) = {s} /\ Deleted(es) = {}
  BY <1>2, OneCommand
<1> HIDE DEF old, es
<1>11. /\ a \in Node /\ a.servers = old.servers \cup {s} /\ a.log = old.log
       /\ a.voting = old.voting /\ a.state = old.state /\ a.current_term = old.current_term
       /\ a.commit_index = old.commit_index /\ a.self_id = old.self_id
  <2>1. PICK z \in Nat : z = 0
    OBVIOUS
  <2> DEFINE b == AddServer(old, s, z)
  <2>a. b \in Node /\ b.log = old.log /\ b.voting = old.voting
    BY Zenon, <1>8, AddServerIs
  <2>b. b.state = old.state /\ b.current_term = old.current_term
    BY Zenon, <1>8, AddServerIs
  <2>2. /\ b \in Node /\ b.log = old.log /\ b.voting = old.voting /\ b.state = old.state
        /\ b.current_term = old.current_term
    BY Zenon, <2>a, <2>b
  <2>c. b.servers = old.servers \cup {s}
    BY <1>8 DEF AddServer, Node
  <2>d. b.commit_index = old.commit_index /\ b.self_id = old.self_id
    BY Zenon, <1>8, AddServerIs
  <2>3. /\ b.servers = old.servers \cup {s}
        /\ b.commit_index = old.commit_index /\ b.self_id = old.self_id
    BY Zenon, <2>c, <2>d
  <2> QED
    BY Zenon, <2>1, <2>2, <2>3
<1> HIDE DEF a
<1>12. Anew(a, es) = {}
  BY Zenon, <1>2, <1>9, <1>10, <1>11 DEF Anew
<1> DEFINE X == Deleted(es) \cup Anew(a, es)
<1>13. /\ n \in Node /\ n.log = a.log \o es
       /\ n.servers = (a.servers \ X) \cup Added(es)
       /\ n.voting = (a.voting \ X) \cup Added(es)
       /\ n.state = a.state /\ n.current_term = a.current_term
       /\ n.commit_index = a.commit_index /\ n.self_id = a.self_id
  BY Zenon, <1>9, <1>11, AppendEntriesIs
<1> HIDE DEF n
<1>14. /\ n \in Node /\ n.log = es /\ n.servers = {s} /\ n.voting = {s}
       /\ n.state = "INIT_SERVER" /\ n.current_term = 0
       /\ n.commit_index = 0 /\ n.self_id = s
  BY Zenon, <1>3, <1>4, <1>7, <1>9, <1>10, <1>11, <1>12, <1>13 DEF old
<1>15. NewCommitIndex(n, 1) = 1
  <2>1. n.state # "LEADER" /\ Len(n.log) = 1
    BY <1>9, <1>14
  <2> QED
    BY <2>1 DEF NewCommitIndex
<1>16. Joins(n, 1)
  BY <1>2, <1>9, <1>14 DEF Joins
<1>17. /\ done \in Node /\ done.log = n.log /\ done.servers = n.servers /\ done.voting = n.voting
       /\ done.current_term = n.current_term
       /\ done.state = IF NewCommitIndex(n, 1) > n.commit_index /\ Joins(n, NewCommitIndex(n, 1))
                       THEN "FOLLOWER" ELSE n.state
  <2>1. n.commit_index <= Len(n.log) /\ 1 \in Nat
    BY <1>9, <1>14
  <2> QED
    BY Zenon, <1>14, <2>1, CommitLogEntriesIs
<1>a. done.commit_index = IF NewCommitIndex(n, 1) <= n.commit_index
                          THEN n.commit_index ELSE NewCommitIndex(n, 1)
  <2>1. n.commit_index <= Len(n.log) /\ 1 \in Nat
    BY <1>9, <1>14
  <2> QED
    BY Zenon, <1>14, <2>1, CommitLogEntriesIs
<1> HIDE DEF done
<1>18. done.state = "FOLLOWER"
  BY <1>14, <1>15, <1>16, <1>17
<1>19. node'[s] = done /\ \A x \in Server \ {s} : node'[x] = node[x]
  BY <1>3, <1>4
<1>b. /\ node' = [node EXCEPT ![s] = node'[s]] /\ node[s].log = << >>
      /\ node'[s].commit_index = 1 /\ Len(node'[s].log) = 1
  <2>1. done.commit_index = 1 /\ Len(done.log) = 1
    BY <1>9, <1>14, <1>15, <1>17, <1>a
  <2> QED
    BY Zenon, <1>4, <1>6, <1>19, <2>1
<1>20. PICK K \in Seq(Entry) : K = es
  BY <1>9
<1>21. Proper(K) /\ Once(K)
  <2>1. DOMAIN K = {1} /\ K[1] = e /\ Len(K) = 1
    BY <1>9, <1>20
  <2>2. Proper(K)
    BY <1>2, <1>20, <2>1, SettledShort DEF Proper
  <2>3. \A i \in 1..Len(K) : 1..i-1 = {}
    BY <2>1
  <2> QED
    BY <2>2, <2>3 DEF Once
<1>22. reqs' = Empty /\ replies' = Empty /\ vote_reqs' = {} /\ vote_replies' = {}
  BY Zenon, <1>4, <1>5 DEF Unformed, LInv, votes_vars, append_vars
<1>23. Begins(K, K) /\ Begins(<< >>, K)
  BY BeginsSelf
<1>24. Added(K) = {s}
  BY <1>10, <1>20
<1>25. ASSUME NEW x \in Server PROVE NodeOK(K, x)'
  <2>1. CASE x = s
    <3>1. /\ done.log = K /\ done.voting = Added(K) /\ done.current_term <= 1
          /\ done.state \in {"INIT_SERVER", "FOLLOWER", "LEADER", "DOWN"}
      BY <1>14, <1>17, <1>18, <1>20, <1>24
    <3> QED
      BY Zenon, <1>4, <1>19, <1>23, <2>1, <3>1 DEF NodeOK
  <2>2. CASE x # s
    <3>1. /\ node[x].log = << >> /\ node[x].state \in {"INIT_SERVER", "DOWN"} /\ NodeOK(L, x)
          /\ node'[x] = node[x]
      BY Zenon, <1>5, <1>6, <1>19, <2>2 DEF Unformed, LInv
    <3> QED
      BY Zenon, <1>23, <3>1 DEF NodeOK
  <2> QED
    BY <2>1, <2>2
<1>26. ASSUME NEW x \in Server PROVE ~IsLeader(x)'
  BY <1>5, <1>18, <1>19 DEF IsLeader, Unformed
<1>27. ASSUME NEW x \in Server, NEW y \in Server PROVE WormholeOK(K, x, y)'
  BY <1>22 DEF WormholeOK, Empty
<1>28. Fresh(K, redis_key)'
  <2>1. K = <<Config(1, "ADD_MEMBER", s)>>
    BY <1>1, <1>20 DEF es
  <2>2. \A x \in Server \ {s} : node'[x].log = << >>
    BY <1>6, <1>19
  <2>3. node'[s].log = K /\ node'[s].current_term = 0 /\ node'[s].servers = {s}
    BY Zenon, <1>14, <1>17, <1>19, <1>20
  <2> QED
    BY Zenon, <1>4, <1>22, <2>1, <2>2, <2>3 DEF Fresh
<1>29. redis_key' # Nil
  BY <1>4, NilAssumption
<1>30. LInv(K)'
  BY Zenon, <1>21, <1>22, <1>25, <1>26, <1>27, <1>28, <1>29 DEF LInv
<1> QED
  BY Zenon, <1>4, <1>18, <1>19, <1>30, <1>b DEF MInv

\* become_candidate: only the founder's election timeout expires, and it wins at once.
LEMMA BecomeCandidateKept ==
    ASSUME IInv, NEW L \in Seq(Entry), LInv(L), NEW s \in Server, BecomeCandidate(s)
    PROVE  /\ MInv'
           /\ node' = [node EXCEPT ![s] = node'[s]] /\ redis_key' = redis_key
           /\ s = redis_key /\ node[s].state = "FOLLOWER" /\ node'[s].state = "LEADER"
           /\ node'[s].log = Append(node[s].log, Noop(1))
           /\ node'[s].commit_index = node[s].commit_index
           /\ node'[s].match_index = [x \in Server |-> 0]
<1> DEFINE old == node[s]
           n == [old EXCEPT !.state = "CANDIDATE", !.current_term = @ + 1,
                            !.voted_for = s, !.rcv_votes = 1, !.voted_for_me = {s}]
           done == BecomeLeader(n)
<1>1. /\ node \in [Server -> Node] /\ old \in Node /\ old.current_term \in Nat
  BY Zenon DEF IInv, NodesSane, Node
<1>2. s \in Candidates /\ old.state \in {"FOLLOWER", "CANDIDATE"} /\ old.current_term < MaxTerm
  BY DEF BecomeCandidate
<1>3. NodeOK(L, s) /\ old.state = "FOLLOWER" /\ s = redis_key
  <2>1. NodeOK(L, s)
    BY DEF LInv
  <2>2. ~(old.current_term >= MaxTerm)
    BY <1>1, <1>2, BoundAssumption
  <2> QED
    BY Zenon, <1>2, <2>1, <2>2 DEF NodeOK
<1>4. Fresh(L, s)
  BY <1>3, NilAssumption DEF LInv
<1>5. /\ old.log = L /\ old.current_term = 0 /\ old.servers = {s} /\ old.voting = {s}
  BY Zenon, <1>3, <1>4, FounderVotes DEF NodeOK, Fresh
<1>6. /\ n \in Node /\ n.log = old.log /\ n.servers = old.servers /\ n.voting = old.voting
      /\ n.current_term = old.current_term + 1 /\ n.rcv_votes = 1
      /\ n.commit_index = old.commit_index
  BY Zenon, <1>1, CandidateIs
<1>7. HasMajorityOfVotes(n)
  <2>1. Cardinality({s}) = 1
    BY Zenon, OneServer
  <2> HIDE DEF n
  <2> QED
    BY <1>5, <1>6, <2>1 DEF HasMajorityOfVotes
<1>8. /\ node' = [node EXCEPT ![s] = done]
      /\ UNCHANGED <<vote_reqs, vote_replies, append_vars, join_vars>>
  BY Zenon, <1>5, <1>7 DEF BecomeCandidate
<1> HIDE DEF n
<1>9. n.current_term = 1 /\ n.log = L /\ n.servers = {s} /\ n.voting = {s} /\ n \in Node
  BY <1>5, <1>6
<1>10. /\ done \in Node /\ done.state = "LEADER" /\ done.log = Append(n.log, Noop(n.current_term))
       /\ done.servers = n.servers /\ done.voting = n.voting /\ done.current_term = n.current_term
  BY Zenon, <1>9, BecomeLeaderIs
<1>a. done.commit_index = n.commit_index /\ done.match_index = [x \in Server |-> 0]
  BY Zenon, <1>9, BecomeLeaderIs
<1> HIDE DEF done
<1>11. PICK e \in Entry : e = Noop(1)
  BY Zenon DEF Noop, Entry
<1>12. e.command = "RAFT_NOOP" /\ e.server = Nil
  BY <1>11 DEF Noop
<1>13. PICK K \in Seq(Entry) : K = Append(L, e)
  <2>1. Append(L, e) \in Seq(Entry)
    OBVIOUS
  <2> QED
    BY Zenon, <2>1
<1>14. /\ Len(L) = 1 /\ L[1].command = "ADD_MEMBER" /\ L[1].server = s
  BY <1>4 DEF Fresh, Config
<1>15. /\ Len(K) = 2 /\ DOMAIN K = 1..2 /\ K[1] = L[1] /\ K[2] = e /\ Begins(L, K) /\ Begins(K, K)
  <2>1. Len(K) = 2 /\ DOMAIN K = 1..2 /\ K[1] = L[1] /\ K[2] = e
    <3>1. /\ Len(Append(L, e)) = Len(L) + 1 /\ Append(L, e)[Len(L) + 1] = e
          /\ \A i \in 1..Len(L) : Append(L, e)[i] = L[i]
      OBVIOUS
    <3>2. DOMAIN K = 1..Len(K)
      OBVIOUS
    <3> QED
      BY <1>13, <1>14, <3>1, <3>2
  <2> QED
    BY Zenon, <1>13, <2>1, BeginsAppended, BeginsSelf
<1>16. Proper(K) /\ Once(K)
  <2>1. Proper(K)
    <3>1. Settled(K)
      BY Zenon, <1>13, SettledAppended DEF LInv, Proper
    <3> QED
      BY <1>12, <1>14, <1>15, <3>1 DEF Proper
  <2>2. \A i \in 1..Len(K) : \A k \in 1..i-1 : i = 2 /\ k = 1
    BY <1>15
  <2>3. K[1] # K[2]
    BY <1>12, <1>14, <1>15
  <2> QED
    BY Zenon, <2>1, <2>2, <2>3 DEF Once
<1>17. Added(K) = {s}
  <2>0. PICK es \in Seq(Entry) : es = <<e>>
    <3>1. <<e>> \in Seq(Entry)
      OBVIOUS
    <3> QED
      BY Zenon, <3>1
  <2>1. NoopsOnly(es) /\ Proper(es)
    BY <1>12, <2>0, SettledShort DEF NoopsOnly, Proper
  <2>2. Added(es) = {} /\ Deleted(es) = {}
    BY <2>1 DEF NoopsOnly, Added, Deleted, LastIs
  <2>3. L \o es = K
    BY <1>13, <2>0
  <2>4. {} \in SUBSET Added(es)
    OBVIOUS
  <2>5. Added(L \o es) = (Added(L) \ (Deleted(es) \cup {})) \cup Added(es)
    BY <2>1, <2>4, AddedAppended
  <2>6. Added(L) = {s}
    BY <1>3, <1>5 DEF NodeOK
  <2> QED
    BY Zenon, <2>2, <2>3, <2>5, <2>6
<1>18. node'[s] = done /\ \A x \in Server \ {s} : node'[x] = node[x]
  BY <1>1, <1>8
<1>19. /\ redis_key' = redis_key /\ reqs' = Empty /\ replies' = Empty
       /\ vote_reqs' = {} /\ vote_replies' = {}
  BY Zenon, <1>4, <1>8 DEF LInv, Fresh, append_vars, join_vars
<1>20. done.log = K /\ done.voting = Added(K) /\ done.current_term = 1 /\ done.servers = {s}
  BY Zenon, <1>9, <1>10, <1>11, <1>13, <1>17
<1>21. ASSUME NEW x \in Server PROVE NodeOK(K, x)'
  <2>1. CASE x = s
    BY <1>10, <1>15, <1>18, <1>20, <2>1 DEF NodeOK
  <2>2. CASE x # s
    BY Zenon, <1>15, <1>18, <1>19, <2>2, NodeKept DEF LInv
  <2> QED
    BY <2>1, <2>2
<1>22. ASSUME NEW x \in Server, IsLeader(x)' PROVE LeaderOK(K, x)'
  <2>1. CASE x # s
    BY Zenon, <1>3, <1>18, <1>22, <2>1 DEF LInv, LeaderOK, IsLeader
  <2>2. CASE x = s
    <3>1. \A i \in 2..Len(K) : K[i].server # s
      BY <1>12, <1>15, NilAssumption
    <3> QED
      BY Zenon, <1>2, <1>3, <1>17, <1>18, <1>19, <1>20, <2>2, <3>1 DEF LeaderOK
  <2> QED
    BY <2>1, <2>2
<1>23. ASSUME NEW x \in Server, NEW y \in Server PROVE WormholeOK(K, x, y)'
  BY <1>19 DEF WormholeOK, Empty
<1>24. redis_key' # Nil /\ node'[redis_key'].state # "FOLLOWER"
  BY Zenon, <1>3, <1>10, <1>18, <1>19, NilAssumption
<1>25. LInv(K)'
  BY Zenon, <1>16, <1>19, <1>21, <1>22, <1>23, <1>24 DEF LInv
<1>26. node' = [node EXCEPT ![s] = node'[s]]
  BY Zenon, <1>8, <1>18
<1> QED
  BY Zenon, <1>3, <1>5, <1>6, <1>9, <1>10, <1>18, <1>19, <1>25, <1>26, <1>a DEF MInv

-----------------------------------------------------------------------------
(* All steps                                                               *)

LEMMA InitMInv == Init => MInv
<1> SUFFICES ASSUME Init PROVE MInv
  OBVIOUS
<1>1. << >> \in Seq(Entry) /\ Begins(<< >>, << >>)
  BY DEF Begins
<1>2. Added(<< >>) = {}
  BY DEF Added, LastIs
<1>3. \A s \in Server : /\ node[s].log = << >> /\ node[s].voting = {} /\ node[s].servers = {}
                        /\ node[s].state = "INIT_SERVER" /\ node[s].current_term = 0
  BY DEF Init, NewNode
<1>4. Proper(<< >>) /\ Once(<< >>)
  BY SettledShort DEF Proper, Once
<1>5. ASSUME NEW s \in Server PROVE NodeOK(<< >>, s) /\ ~IsLeader(s)
  <2>1. /\ node[s].voting = Added(node[s].log) /\ Begins(node[s].log, << >>)
        /\ node[s].state = "INIT_SERVER" /\ node[s].current_term <= 1
    <3>1. /\ node[s].log = << >> /\ node[s].voting = {} /\ node[s].current_term = 0
          /\ node[s].state = "INIT_SERVER"
      BY <1>3
    <3>2. 0 <= 1
      OBVIOUS
    <3> QED
      BY Zenon, <1>1, <1>2, <3>1, <3>2
  <2> QED
    BY <2>1 DEF NodeOK, IsLeader
<1>6. \A s, t \in Server : WormholeOK(<< >>, s, t)
  BY DEF Init, Empty, WormholeOK
<1>7. redis_key = Nil /\ vote_reqs = {} /\ vote_replies = {} /\ Unformed(<< >>)
  BY <1>3 DEF Init, Unformed
<1>8. LInv(<< >>)
  BY Zenon, <1>4, <1>5, <1>6, <1>7 DEF LInv
<1> QED
  BY Zenon, <1>1, <1>8 DEF MInv

LEMMA NextMInv == OneLeader /\ IInv /\ MInv /\ [Next]_vars => MInv'
<1> SUFFICES ASSUME OneLeader, IInv, MInv, [Next]_vars PROVE MInv'
  OBVIOUS
<1>1. PICK L \in Seq(Entry) : LInv(L)
  BY DEF MInv
<1>2. SUFFICES ASSUME LInv(L)' => MInv' PROVE MInv'
  BY DEF MInv
<1>3. vote_reqs = {} /\ vote_replies = {}
  BY <1>1 DEF LInv
<1>4. CASE UNCHANGED vars
  BY Zenon, <1>1, <1>2, <1>4, SameKept DEF vars, votes_vars, append_vars
<1>5. ASSUME NEW s \in Server,
             \/ Bootstrap(s) \/ SendMembershipRequest(s) \/ JoinTimeout(s)
             \/ BecomeCandidate(s) \/ SetKey(s) \/ Crash(s) \/ Restart(s)
      PROVE  MInv'
  <2>1. CASE Bootstrap(s)
    BY <1>1, <2>1, BootstrapKept
  <2>2. CASE SendMembershipRequest(s)
    BY Zenon, <1>1, <1>2, <2>2, SameKept DEF SendMembershipRequest
  <2>3. CASE JoinTimeout(s)
    BY Zenon, <1>1, <1>2, <2>3, ExitKept DEF JoinTimeout
  <2>4. CASE BecomeCandidate(s)
    BY <1>1, <2>4, BecomeCandidateKept
  <2>5. CASE SetKey(s)
    BY <1>1, <2>5 DEF SetKey, LInv, LeaderOK
  <2>6. CASE Crash(s)
    BY Zenon, <1>1, <1>2, <2>6, ExitKept DEF Crash
  <2>7. CASE Restart(s)
    BY Zenon, <1>1, <1>2, <2>7, RestartKept
  <2> QED
    BY Zenon, <1>5, <2>1, <2>2, <2>3, <2>4, <2>5, <2>6, <2>7
<1>6. ASSUME NEW m \in joins, HandleMembershipRequest(m) PROVE MInv'
  BY Zenon, <1>1, <1>2, <1>6, HandleMembershipRequestKept
<1>7. ASSUME NEW s \in Server, NEW t \in Server,
             \/ SendAppendEntries(s, t) \/ HandleAppendEntriesRequest(s, t)
             \/ HandleAppendEntriesReply(s, t) \/ CaughtUp(s, t) \/ RoundsOver(s, t)
             \/ HeartbeatTimeout(s, t) \/ GiveUp(s, t) \/ DropRequest(s, t) \/ DropReply(s, t)
      PROVE  MInv'
  <2>1. CASE SendAppendEntries(s, t)
    BY Zenon, <1>1, <1>2, <2>1, SendAppendEntriesKept
  <2>2. CASE HandleAppendEntriesRequest(s, t)
    BY Zenon, <1>1, <1>2, <2>2, HandleAppendEntriesRequestKept
  <2>3. CASE HandleAppendEntriesReply(s, t)
    BY Zenon, <1>1, <1>2, <2>3, HandleAppendEntriesReplyKept
  <2>4. CASE CaughtUp(s, t)
    <3>1. /\ t \in node[s].servers /\ t \notin node[s].voting
          /\ ChangeConfig(s, t, "ADD_MEMBER") /\ IsLeader(s)
      BY <2>4 DEF CaughtUp, ChangeConfig
    <3>2. t # s
      BY Zenon, <1>1, <3>1 DEF LInv, LeaderOK
    <3> QED
      BY Zenon, <1>1, <3>1, <3>2, ChangeConfigKept
  <2>5. CASE RoundsOver(s, t)
    BY Zenon, <1>1, <1>2, <2>5, RoundsOverKept
  <2>6. CASE HeartbeatTimeout(s, t)
    BY <1>1, <2>6, ChangeConfigKept DEF HeartbeatTimeout
  <2>7. CASE GiveUp(s, t)
    <3>1. node[s] \in Node
      BY DEF IInv, NodesSane
    <3>2. /\ t \in node[s].servers \ {s} /\ IsLeader(s)
          /\ node' = [node EXCEPT ![s] =
                   AppendEntries(node[s], <<Config(node[s].current_term, "DEL_MEMBER", t)>>)]
          /\ UNCHANGED <<votes_vars, append_vars, join_vars>>
      BY <2>7 DEF GiveUp
    <3> QED
      BY Zenon, <1>1, <3>1, <3>2, CommandKept
  <2>8. CASE DropRequest(s, t)
    BY Zenon, <1>1, <1>2, <2>8, DropRequestKept
  <2>9. CASE DropReply(s, t)
    BY <2>9 DEF DropReply, OneLeader
  <2> QED
    BY Zenon, <1>7, <2>1, <2>2, <2>3, <2>4, <2>5, <2>6, <2>7, <2>8, <2>9
<1> QED
  BY Zenon, <1>3, <1>4, <1>5, <1>6, <1>7 DEF Next

-----------------------------------------------------------------------------
(* What follows for the logs                                               *)

\* While one leader makes all changes, all logs are beginnings of one sequence.
THEOREM OneSequence == OneLeader => (Spec => []MInv)
<1> SUFFICES ASSUME OneLeader PROVE Spec => []MInv
  OBVIOUS
<1>1. IInv /\ MInv /\ [Next]_vars => MInv'
  BY NextMInv
<1> QED
  BY <1>1, InitMInv, Invariance, PTL DEF Spec

\* Two logs that begin one sequence agree as far as both reach.
LEMMA BeginningsAgree ==
    ASSUME NEW L \in Seq(Entry), NEW p \in Seq(Entry), NEW q \in Seq(Entry),
           Begins(p, L), Begins(q, L), NEW i \in Nat, i <= Len(p), i <= Len(q)
    PROVE  AgreeUpTo(p, q, i)
<1>1. Len(p) \in Nat /\ Len(q) \in Nat
  OBVIOUS
<1>2. \A k \in 1..i : p[k] = L[k] /\ q[k] = L[k]
  BY <1>1 DEF Begins
<1> QED
  BY <1>1, <1>2 DEF AgreeUpTo, Min2

LEMMA SequenceImplies ==
    IInv /\ MInv => LogMatching /\ AppliedAgree /\ ConfigOfLog /\ AppliedOnce
<1> SUFFICES ASSUME IInv, MInv
             PROVE  LogMatching /\ AppliedAgree /\ ConfigOfLog /\ AppliedOnce
  OBVIOUS
<1>1. PICK L \in Seq(Entry) : LInv(L)
  BY DEF MInv
<1>2. \A s \in Server : /\ node[s].log \in Seq(Entry) /\ Len(node[s].log) \in Nat
                        /\ node[s].commit_index \in Nat
                        /\ node[s].commit_index <= Len(node[s].log)
  BY SaneTypes DEF IInv, NodesSane
<1>3. \A s \in Server : /\ Begins(node[s].log, L) /\ node[s].voting = Added(node[s].log)
                        /\ IsLeader(s) => node[s].log = L
  BY <1>1 DEF LInv, NodeOK, LeaderOK
<1>4. LogMatching
  <2> SUFFICES ASSUME NEW s \in Server, NEW t \in Server,
                      NEW i \in 1 .. Min2(Len(node[s].log), Len(node[t].log))
               PROVE  AgreeUpTo(node[s].log, node[t].log, i)
    BY DEF LogMatching
  <2>1. i \in Nat /\ i <= Len(node[s].log) /\ i <= Len(node[t].log)
    BY <1>2 DEF Min2
  <2> QED
    BY Zenon, <1>2, <1>3, <2>1, BeginningsAgree
<1>5. AppliedAgree
  <2> SUFFICES ASSUME NEW s \in Server, NEW t \in Server,
                      NEW i \in 1 .. Min2(node[s].commit_index, node[t].commit_index)
               PROVE  node[s].log[i] = node[t].log[i]
    BY DEF AppliedAgree
  <2>1. i \in 1 .. Len(node[s].log) /\ i \in 1 .. Len(node[t].log)
    BY <1>2 DEF Min2
  <2> QED
    BY <1>3, <2>1 DEF Begins
<1>6. ConfigOfLog
  BY <1>3 DEF ConfigOfLog, Added
<1>7. AppliedOnce
  <2> SUFFICES ASSUME NEW s \in Server, NEW i \in 1 .. node[s].commit_index, NEW k \in 1..i-1,
                      node[s].log[i] = node[s].log[k], node[s].log[i].command # "DEL_MEMBER"
               PROVE  \E d \in k+1..i-1 : /\ node[s].log[d].command = "DEL_MEMBER"
                                          /\ node[s].log[d].server = node[s].log[i].server
    BY Zenon DEF AppliedOnce
  <2>1. /\ i \in 1 .. Len(node[s].log) /\ i \in 1..Len(L)
        /\ \A d \in 1..i : node[s].log[d] = L[d]
    <3> DEFINE p == node[s].log
    <3>1. /\ Len(p) \in Nat /\ i <= Len(p) /\ Len(p) <= Len(L)
          /\ \A d \in 1..Len(p) : p[d] = L[d]
      BY <1>2, <1>3 DEF Begins
    <3> HIDE DEF p
    <3>2. i \in 1..Len(p) /\ i \in 1..Len(L) /\ \A d \in 1..i : d \in 1..Len(p)
      BY <3>1
    <3> QED
      BY Zenon, <3>1, <3>2 DEF p
  <2>2. L[i] = L[k] /\ L[i].command # "DEL_MEMBER"
    BY <2>1
  <2>3. PICK d \in k+1..i-1 : L[d].command = "DEL_MEMBER" /\ L[d].server = L[i].server
    BY Zenon, <1>1, <2>1, <2>2 DEF LInv, Once
  <2>4. d \in 1..i
    BY <2>1, <2>3
  <2> QED
    BY <2>1, <2>3, <2>4
<1> QED
  BY Zenon, <1>4, <1>5, <1>6, <1>7

\* The Log Matching Property that raft_commit_log_entries relies on, while one
\* leader makes all changes: servers join, are removed, stop and start again.
THEOREM LogsMatch == OneLeader => (Spec => []LogMatching)
BY OneSequence, Invariance, SequenceImplies, PTL

\* ... two servers apply the same entries (raft_apply_log_entries), ...
THEOREM ApplyTheSame == OneLeader => (Spec => []AppliedAgree)
BY OneSequence, Invariance, SequenceImplies, PTL

\* ... a server's voting members are those of the commands in its log
\* (append_raft_log_entry), ...
THEOREM ConfigFollowsLog == OneLeader => (Spec => []ConfigOfLog)
BY OneSequence, Invariance, SequenceImplies, PTL

\* ... and no server applies a command twice (add_server), although requests are lost
\* and sent again and servers join more than once.
THEOREM ApplyOnce == OneLeader => (Spec => []AppliedOnce)
BY OneSequence, Invariance, SequenceImplies, PTL

-----------------------------------------------------------------------------
(* What the steps make of a server, and what follows for a leader          *)

\* The leader appends a command, and holds the flag.
Changes(a, b) ==
    /\ a.state = "LEADER" /\ b.state = "LEADER"
    /\ ~a.is_changing /\ b.is_changing
    /\ b.commit_index = a.commit_index
    /\ \E e \in Entry : b.log = Append(a.log, e)

\* The founder leads: it has committed all but its NOOP.
Leads(s) ==
    /\ s = redis_key
    /\ node[s].state = "FOLLOWER" /\ node'[s].state = "LEADER"
    /\ node'[s].log = Append(node[s].log, Noop(1))
    /\ node'[s].commit_index = node[s].commit_index
    /\ \A t \in Server : node'[s].match_index[t] = 0

\* It follows, or is new; a founder has committed its entry.
Begun(s) ==
    /\ node'[s].state \in {"INIT_SERVER", "FOLLOWER"}
    /\ s = redis_key' /\ node'[s].state = "FOLLOWER" =>
          node'[s].commit_index = Len(node'[s].log)

\* A step of s: the others, and the log of s unless it restarts, are not touched.
Moves(s) ==
    /\ node' = [node EXCEPT ![s] = node'[s]]
    /\ redis_key' \in {redis_key, s}
    /\ \/ Idle(node[s], node'[s]) /\ redis_key' = redis_key
       \/ Commits(node[s], node'[s])
       \/ Changes(node[s], node'[s])
       \/ Unreachable # {} /\ node[s].state = "LEADER" /\ node'[s].state = "LEADER"
       \/ Leads(s)
       \/ Begun(s)
       \/ node'[s].state = "DOWN" /\ s \in Faulty \cup Suspects
    /\ Restartable = {} => Len(node[s].log) <= Len(node'[s].log)
    /\ node'[s].state = "LEADER" => Heard(s)

\* A server that stops: it has failed, or has not got into the cluster in time.
LEMMA ExitMoves ==
    ASSUME IInv, NEW s \in Server, Exit(s), s \in Faulty \cup Suspects
    PROVE  Moves(s)
<1>1. node \in [Server -> Node] /\ node[s] \in Node
  BY DEF IInv, NodesSane
<1>2. node' = [node EXCEPT ![s] = [node[s] EXCEPT !.state = "DOWN"]] /\ redis_key' = redis_key
  BY DEF Exit
<1>3. /\ node'[s].state = "DOWN" /\ node'[s].log = node[s].log
      /\ node' = [node EXCEPT ![s] = node'[s]]
  BY <1>1, <1>2 DEF Node
<1>4. Len(node[s].log) <= Len(node'[s].log)
  BY <1>1, <1>3 DEF Node
<1> QED
  BY <1>2, <1>3, <1>4 DEF Moves

\* A step of s that changes only what it knows of the others.
LEMMA IdleMoves ==
    ASSUME IInv, NEW s \in Server, node' = [node EXCEPT ![s] = node'[s]],
           redis_key' = redis_key, Idle(node[s], node'[s]) \/ Commits(node[s], node'[s]), Heard(s)
    PROVE  Moves(s)
<1>1. Len(node[s].log) \in Nat
  BY SaneTypes DEF IInv, NodesSane
<1>2. node'[s].log = node[s].log
  BY Zenon DEF Idle, Commits
<1>3. Len(node[s].log) <= Len(node'[s].log)
  BY <1>1, <1>2
<1> QED
  BY Zenon, <1>3 DEF Moves

LEMMA HandleMembershipRequestMoves ==
    ASSUME IInv, OneLeader, NEW m \in joins, HandleMembershipRequest(m)
    PROVE  \E s \in Server : Moves(s)
<1>0. PICK s \in Server, z \in Server, last \in Nat :
             m = [src |-> z, dst |-> s, last_log_index |-> last]
  BY DEF IInv, ChannelsTyped, MembershipReq
<1> DEFINE old == node[s]
           n == AddServer(old, z, last)
<1>1. /\ m.src = z /\ m.dst = s /\ m.last_log_index = last
      /\ last = Len(node[z].log)
  BY <1>0 DEF HandleMembershipRequest, OneLeader
<1>2. redis_key' = redis_key /\ (node' = node \/ node' = [node EXCEPT ![s] = n])
  BY Zenon, <1>1 DEF HandleMembershipRequest
<1>3. node \in [Server -> Node]
  BY DEF IInv, NodesSane
<1>4. old \in Node
  BY <1>3
<1>5. CASE node' = node
  <2>1. node' = [node EXCEPT ![s] = node'[s]] /\ node'[s] = node[s]
    BY <1>3, <1>5
  <2> QED
    BY Zenon, <1>2, <2>1, IdleMoves DEF Idle, Heard
<1>6. CASE node' = [node EXCEPT ![s] = n]
  <2>1. node'[s] = n /\ node' = [node EXCEPT ![s] = node'[s]]
    BY Zenon, <1>3, <1>6
  <2> HIDE DEF old
  <2>2. n.log = old.log /\ n.state = old.state
    BY Zenon, <1>4, AddServerIs
  <2>3. n.commit_index = old.commit_index /\ n.is_changing = old.is_changing
    BY Zenon, <1>4, AddServerIs
  <2>4. n.match_index = [old.match_index EXCEPT ![z] = last]
    BY <1>4 DEF AddServer, Node
  <2>5. old.match_index \in [Server -> Nat]
    BY Zenon, <1>4 DEF Node
  <2> HIDE DEF n
  <2>6. \A t \in Server : n.match_index[t] \in {old.match_index[t], Len(node[t].log)}
    BY Zenon, <1>1, <2>4, <2>5
  <2>7. Heard(s)
    BY Zenon, <2>1, <2>6 DEF Heard, old
  <2>8. Idle(node[s], node'[s])
    BY Zenon, <2>1, <2>2, <2>3 DEF Idle, old
  <2> QED
    BY Zenon, <1>2, <2>1, <2>7, <2>8, IdleMoves
<1> QED
  BY <1>2, <1>5, <1>6

\* A command that the leader appends.
LEMMA CommandMoves ==
    ASSUME IInv, NEW s \in Server, NEW t \in Server, IsLeader(s),
           NEW command \in {"ADD_MEMBER", "DEL_MEMBER"},
           NEW j \in Node, j.log = node[s].log, j.state = node[s].state,
           j.commit_index = node[s].commit_index, j.match_index = node[s].match_index,
           \/ ~node[s].is_changing /\ j.is_changing
           \/ Unreachable # {},
           node' = [node EXCEPT ![s] =
                       AppendEntries(j, <<Config(node[s].current_term, command, t)>>)],
           redis_key' = redis_key
    PROVE  Moves(s)
<1>1. node \in [Server -> Node] /\ node[s].current_term \in Nat
  BY Zenon DEF IInv, NodesSane, Node
<1>2. PICK e \in Entry : e = Config(node[s].current_term, command, t)
  BY Zenon, <1>1 DEF Config, Entry
<1>3. PICK es \in Seq(Entry) : es = <<e>>
  <2>1. <<e>> \in Seq(Entry)
    OBVIOUS
  <2> QED
    BY Zenon, <2>1
<1> DEFINE n == AppendEntries(j, es)
           X == Deleted(es) \cup Anew(j, es)
<1>4. node' = [node EXCEPT ![s] = n] /\ node'[s] = n /\ node' = [node EXCEPT ![s] = node'[s]]
  BY Zenon, <1>1, <1>2, <1>3
<1>5. n.log = j.log \o es /\ n.state = j.state /\ n.commit_index = j.commit_index
  BY Zenon, AppendEntriesIs
<1>6. n.is_changing = j.is_changing
  BY Zenon, AppendEntriesIs
<1>7. n.match_index = [x \in Server |-> IF x \in X THEN 0 ELSE j.match_index[x]]
  BY Zenon, AppendEntriesIs
<1> HIDE DEF n, X
<1>8. j.log \in Seq(Entry)
  BY Zenon DEF Node
<1>9. n.log = Append(j.log, e) /\ Len(n.log) = Len(j.log) + 1 /\ Len(j.log) \in Nat
  <2>1. j.log \o <<e>> = Append(j.log, e) /\ Len(Append(j.log, e)) = Len(j.log) + 1
        /\ Len(j.log) \in Nat
    BY <1>8
  <2> QED
    BY Zenon, <1>3, <1>5, <2>1
<1>10. Len(node[s].log) <= Len(node'[s].log)
  BY <1>4, <1>9
<1>11. Heard(s)
  BY Zenon, <1>4, <1>7 DEF Heard
<1>12. node[s].state = "LEADER" /\ node'[s].state = "LEADER"
  BY Zenon, <1>4, <1>5 DEF IsLeader
<1>13. Changes(node[s], node'[s]) \/ Unreachable # {}
  <2>1. \E f \in Entry : node'[s].log = Append(node[s].log, f)
    BY Zenon, <1>4, <1>9
  <2> QED
    BY Zenon, <1>4, <1>5, <1>6, <1>12, <2>1 DEF Changes
<1> QED
  BY Zenon, <1>4, <1>10, <1>11, <1>12, <1>13 DEF Moves

LEMMA ChangeConfigMoves ==
    ASSUME IInv, NEW s \in Server, NEW t \in Server,
           NEW command \in {"ADD_MEMBER", "DEL_MEMBER"}, ChangeConfig(s, t, command)
    PROVE  Moves(s)
<1> DEFINE old == node[s]
           n == [old EXCEPT !.is_changing = TRUE]
<1>1. old \in Node
  BY DEF IInv, NodesSane
<1>2. /\ IsLeader(s) /\ ~old.is_changing /\ redis_key' = redis_key
      /\ node' = [node EXCEPT ![s] =
                     AppendEntries(n, <<Config(old.current_term, command, t)>>)]
  BY Zenon DEF ChangeConfig, join_vars
<1>3. /\ n \in Node /\ n.log = old.log /\ n.commit_index = old.commit_index
      /\ n.state = old.state /\ n.match_index = old.match_index /\ n.is_changing = TRUE
  BY Zenon, <1>1, FlaggedIs
<1> HIDE DEF n
<1> QED
  BY Zenon, <1>2, <1>3, CommandMoves

LEMMA RoundsOverMoves ==
    ASSUME IInv, NEW s \in Server, NEW t \in Server, RoundsOver(s, t)
    PROVE  Moves(s)
<1> DEFINE old == node[s]
           X == {t}
           n == RemoveServers(old, X)
<1>1. node \in [Server -> Node]
  BY DEF IInv, NodesSane
<1>2. old \in Node /\ X \in SUBSET Server
  BY <1>1
<1>3. node' = [node EXCEPT ![s] = n] /\ redis_key' = redis_key
  BY Zenon DEF RoundsOver, join_vars
<1>4. node'[s] = n /\ node' = [node EXCEPT ![s] = node'[s]]
  BY Zenon, <1>1, <1>3
<1> HIDE DEF old, X
<1>5. n.log = old.log /\ n.state = old.state
  BY Zenon, <1>2, RemoveServersIs
<1>6. n.commit_index = old.commit_index /\ n.is_changing = old.is_changing
  BY Zenon, <1>2, RemoveServersIs
<1>7. n.match_index = [x \in Server |-> IF x \in X THEN 0 ELSE old.match_index[x]]
  BY Zenon, <1>2, RemoveServersIs
<1> HIDE DEF n
<1>8. Heard(s)
  BY Zenon, <1>4, <1>7 DEF Heard, old
<1>9. Idle(node[s], node'[s])
  BY Zenon, <1>4, <1>5, <1>6 DEF Idle, old
<1> QED
  BY Zenon, <1>3, <1>4, <1>8, <1>9, IdleMoves

\* The steps that add or start processes.
LEMMA BeginningMoves ==
    ASSUME IInv, NEW L \in Seq(Entry), LInv(L), NEW s \in Server,
           Bootstrap(s) \/ BecomeCandidate(s) \/ Restart(s)
    PROVE  Moves(s)
<1>0. node \in [Server -> Node] /\ node[s].log \in Seq(Entry) /\ Len(node[s].log) \in Nat
  BY SaneTypes DEF IInv, NodesSane
<1>1. CASE Bootstrap(s)
  <2>1. /\ node' = [node EXCEPT ![s] = node'[s]] /\ redis_key' = s
        /\ node[s].log = << >> /\ node'[s].state = "FOLLOWER"
        /\ node'[s].commit_index = 1 /\ Len(node'[s].log) = 1
    BY <1>1, BootstrapKept
  <2>2. Len(node[s].log) <= Len(node'[s].log)
    BY <2>1
  <2> QED
    BY Zenon, <2>1, <2>2 DEF Moves, Begun
<1>2. CASE BecomeCandidate(s)
  <2>0. node'[s].match_index = [x \in Server |-> 0]
    BY Zenon, <1>2, BecomeCandidateKept
  <2>1. node' = [node EXCEPT ![s] = node'[s]] /\ redis_key' = redis_key /\ Leads(s)
    BY Zenon, <1>2, <2>0, BecomeCandidateKept DEF Leads
  <2>2. Noop(1) \in Entry
    BY Zenon DEF Noop, Entry
  <2>3. Len(Append(node[s].log, Noop(1))) = Len(node[s].log) + 1
    BY <1>0, <2>2
  <2>4. Len(node[s].log) <= Len(node'[s].log)
    BY <1>0, <2>1, <2>3 DEF Leads
  <2>5. Heard(s)
    BY Zenon, <2>0 DEF Heard
  <2> QED
    BY Zenon, <2>1, <2>4, <2>5 DEF Moves
<1>3. CASE Restart(s)
  <2>1. /\ node' = [node EXCEPT ![s] = NewNode(s)] /\ redis_key' = redis_key
        /\ s \in Restartable
    BY <1>3 DEF Restart, join_vars
  <2>2. node'[s].state = "INIT_SERVER" /\ node' = [node EXCEPT ![s] = node'[s]]
    BY <1>0, <2>1 DEF NewNode
  <2> QED
    BY <2>1, <2>2 DEF Moves, Begun
<1> QED
  BY <1>1, <1>2, <1>3

\* Every step is a move of one server, or leaves all as they are.
LEMMA NextMoves ==
    ASSUME OneLeader, IInv, MInv, [Next]_vars
    PROVE  (node' = node /\ redis_key' = redis_key) \/ \E s \in Server : Moves(s)
<1>1. PICK L \in Seq(Entry) : LInv(L)
  BY DEF MInv
<1>2. vote_reqs = {} /\ vote_replies = {} /\ node \in [Server -> Node]
  BY <1>1 DEF LInv, IInv, NodesSane
<1>3. CASE UNCHANGED vars
  BY <1>3 DEF vars
<1>4. ASSUME NEW s \in Server,
             \/ Bootstrap(s) \/ SendMembershipRequest(s) \/ JoinTimeout(s)
             \/ BecomeCandidate(s) \/ SetKey(s) \/ Crash(s) \/ Restart(s)
      PROVE  (node' = node /\ redis_key' = redis_key) \/ Moves(s)
  <2>1. CASE Bootstrap(s) \/ BecomeCandidate(s) \/ Restart(s)
    BY Zenon, <1>1, <2>1, BeginningMoves
  <2>2. CASE SendMembershipRequest(s)
    BY Zenon, <2>2 DEF SendMembershipRequest
  <2>3. CASE JoinTimeout(s) \/ Crash(s)
    BY Zenon, <2>3, ExitMoves DEF JoinTimeout, Crash
  <2>4. CASE SetKey(s)
    BY Zenon, <1>1, <2>4 DEF SetKey, LInv, LeaderOK
  <2> QED
    BY Zenon, <1>4, <2>1, <2>2, <2>3, <2>4
<1>5. ASSUME NEW m \in joins, HandleMembershipRequest(m) PROVE \E s \in Server : Moves(s)
  BY Zenon, <1>5, HandleMembershipRequestMoves
<1>6. ASSUME NEW s \in Server, NEW t \in Server,
             \/ SendAppendEntries(s, t) \/ HandleAppendEntriesRequest(s, t)
             \/ HandleAppendEntriesReply(s, t) \/ CaughtUp(s, t) \/ RoundsOver(s, t)
             \/ HeartbeatTimeout(s, t) \/ GiveUp(s, t) \/ DropRequest(s, t) \/ DropReply(s, t)
      PROVE  (node' = node /\ redis_key' = redis_key) \/ \E x \in Server : Moves(x)
  <2>1. CASE SendAppendEntries(s, t)
    <3>1. node' = [node EXCEPT ![s] = [@ EXCEPT !.logs_match = node'[s].logs_match]]
      BY Zenon, <1>1, <2>1, SendAppendEntriesKept
    <3>2. PICK X : node' = [node EXCEPT ![s] = [node[s] EXCEPT !.logs_match = X]]
      BY Zenon, <3>1
    <3>3. /\ node'[s] = [node[s] EXCEPT !.logs_match = X]
          /\ node' = [node EXCEPT ![s] = node'[s]]
      BY Zenon, <1>2, <3>2
    <3>4. node[s] \in Node
      BY <1>2
    <3>5. Idle(node[s], node'[s]) /\ node'[s].match_index = node[s].match_index
      BY Zenon, <3>3, <3>4 DEF Idle, Node
    <3>6. Heard(s)
      BY Zenon, <3>5 DEF Heard
    <3>7. redis_key' = redis_key
      BY Zenon, <2>1 DEF SendAppendEntries, Exit, join_vars
    <3> QED
      BY Zenon, <3>3, <3>5, <3>6, <3>7, IdleMoves
  <2>2. CASE HandleAppendEntriesRequest(s, t)
    <3>1. /\ node' = [node EXCEPT ![t] = node'[t]] /\ t # redis_key /\ redis_key' = redis_key
          /\ node'[t].state \in {"INIT_SERVER", "FOLLOWER"}
          /\ Len(node[t].log) <= Len(node'[t].log)
      BY Zenon, <1>1, <2>2, HandleAppendEntriesRequestKept
    <3> QED
      BY Zenon, <3>1 DEF Moves, Begun
  <2>3. CASE HandleAppendEntriesReply(s, t)
    BY Zenon, <1>1, <2>3, HandleAppendEntriesReplyKept, IdleMoves
  <2>4. CASE CaughtUp(s, t) \/ HeartbeatTimeout(s, t)
    BY <2>4, ChangeConfigMoves DEF CaughtUp, HeartbeatTimeout
  <2>5. CASE RoundsOver(s, t)
    BY Zenon, <2>5, RoundsOverMoves
  <2>6. CASE GiveUp(s, t)
    <3>1. node[s] \in Node
      BY <1>2
    <3>2. /\ t \in Unreachable /\ IsLeader(s) /\ redis_key' = redis_key
          /\ node' = [node EXCEPT ![s] =
                   AppendEntries(node[s], <<Config(node[s].current_term, "DEL_MEMBER", t)>>)]
      BY <2>6 DEF GiveUp, join_vars
    <3>3. Unreachable # {}
      BY <3>2
    <3> QED
      BY Zenon, <3>1, <3>2, <3>3, CommandMoves
  <2>7. CASE DropRequest(s, t) \/ DropReply(s, t)
    BY Zenon, <2>7 DEF DropRequest, DropReply, join_vars
  <2> QED
    BY Zenon, <1>6, <2>1, <2>2, <2>3, <2>4, <2>5, <2>6, <2>7
<1> QED
  BY Zenon, <1>2, <1>3, <1>4, <1>5, <1>6 DEF Next

\* The commands of a server's log that it has not committed.
Open(a) == {i \in a.commit_index + 1 .. Len(a.log) : a.log[i].command # "RAFT_NOOP"}

\* There is at most one, and the flag is held until it is committed.
OneOpen(a) ==
    /\ \A i, k \in Open(a) : i = k
    /\ Open(a) # {} => a.is_changing

LEMMA CommitsOpen ==
    ASSUME NEW a, NEW b, a.commit_index \in Nat, b.commit_index \in Nat, Len(a.log) \in Nat,
           Commits(a, b), OneOpen(a)
    PROVE  OneOpen(b)
<1>1. /\ b.log = a.log /\ b.commit_index >= a.commit_index
      /\ b.commit_index <= Len(a.log)
      /\ b.is_changing = IF \E i \in a.commit_index + 1 .. b.commit_index :
                               a.log[i].command # "RAFT_NOOP"
                         THEN FALSE ELSE a.is_changing
  BY Zenon DEF Commits
<1>2. \A i \in Open(b) : i \in Open(a) /\ i > b.commit_index
  BY <1>1 DEF Open
<1>3. ASSUME NEW k \in Open(b) PROVE b.is_changing
  <2>1. k \in Open(a) /\ k > b.commit_index /\ a.is_changing
    BY <1>2, <1>3 DEF OneOpen
  <2>2. ASSUME NEW i \in a.commit_index + 1 .. b.commit_index, a.log[i].command # "RAFT_NOOP"
        PROVE  FALSE
    <3>1. i \in Open(a)
      BY <1>1, <2>2 DEF Open
    <3>2. i = k
      BY Zenon, <2>1, <3>1 DEF OneOpen
    <3>3. i \in Nat /\ i <= b.commit_index
      BY <2>2
    <3> QED
      BY <2>1, <3>2, <3>3
  <2> QED
    BY Zenon, <1>1, <2>1, <2>2
<1>4. \A i, k \in Open(b) : i = k
  BY Zenon, <1>2 DEF OneOpen
<1> QED
  BY Zenon, <1>3, <1>4 DEF OneOpen

LEMMA ChangesOpen ==
    ASSUME NEW a, NEW b, a.log \in Seq(Entry), a.commit_index \in Nat,
           Changes(a, b), OneOpen(a)
    PROVE  OneOpen(b)
<1>1. PICK e \in Entry : b.log = Append(a.log, e)
  BY Zenon DEF Changes
<1>2. Open(a) = {} /\ b.is_changing /\ b.commit_index = a.commit_index
  BY Zenon DEF Changes, OneOpen
<1>3. /\ Len(b.log) = Len(a.log) + 1 /\ Len(a.log) \in Nat
      /\ \A i \in 1..Len(a.log) : b.log[i] = a.log[i]
  BY <1>1
<1>4. ASSUME NEW i \in Open(b) PROVE i = Len(a.log) + 1
  <2>1. /\ i \in a.commit_index + 1 .. Len(a.log) + 1 /\ b.log[i].command # "RAFT_NOOP"
    BY <1>2, <1>3, <1>4 DEF Open
  <2>2. ASSUME i <= Len(a.log) PROVE FALSE
    <3>1. i \in a.commit_index + 1 .. Len(a.log) /\ b.log[i] = a.log[i]
      BY <1>3, <2>1, <2>2
    <3> QED
      BY Zenon, <1>2, <2>1, <3>1 DEF Open
  <2> QED
    BY <1>3, <2>1, <2>2
<1> QED
  BY Zenon, <1>2, <1>4 DEF OneOpen

LEMMA LeadsOpen ==
    ASSUME NEW a, NEW b, a.log \in Seq(Entry), a.commit_index = Len(a.log),
           b.log = Append(a.log, Noop(1)), b.commit_index = a.commit_index
    PROVE  OneOpen(b)
<1>1. Noop(1) \in Entry /\ Noop(1).command = "RAFT_NOOP"
  BY DEF Noop, Entry
<1>2. /\ Len(b.log) = Len(a.log) + 1 /\ Len(a.log) \in Nat /\ b.log[Len(a.log) + 1] = Noop(1)
  BY <1>1
<1>3. ASSUME NEW i \in Open(b) PROVE FALSE
  <2>1. i \in Len(a.log) + 1 .. Len(a.log) + 1 /\ b.log[i].command # "RAFT_NOOP"
    BY <1>2, <1>3 DEF Open
  <2>2. i = Len(a.log) + 1
    BY <1>2, <2>1
  <2> QED
    BY Zenon, <1>1, <1>2, <2>1, <2>2
<1> QED
  BY Zenon, <1>3 DEF OneOpen

\* No set is smaller than the empty one.
LEMMA NoServer == Cardinality({}) = 0
<1> DEFINE F(f) == [T \in SUBSET {} |->
                      IF T = {} THEN 0 ELSE 1 + f[T \ {CHOOSE x : x \in T}]]
           C == CHOOSE f : f = F(f)
           g == [T \in SUBSET {} |-> 0]
<1>1. Cardinality({}) = C[{}]
  BY Zenon DEF Cardinality
<1>2. g = F(g)
  <2>1. \A T \in SUBSET {} : T = {}
    OBVIOUS
  <2> QED
    BY Zenon, <2>1
<1>3. C = F(C)
  <2> HIDE DEF g, F
  <2> QED
    BY Zenon, <1>2
<1>4. C[{}] = 0
  <2> HIDE DEF C
  <2> QED
    BY SMT, <1>3
<1> QED
  BY Zenon, <1>1, <1>4

\* The invariant of what the leader does: a server is down because it failed or was
\* given up; the founder has committed its log when it is about to lead; the leader
\* has one change open at most; and no log is shorter than the leader counts it.
DInv ==
    /\ \A s \in Server : node[s].state = "DOWN" => s \in Faulty \cup Suspects
    /\ redis_key \in Server /\ node[redis_key].state = "FOLLOWER" =>
          node[redis_key].commit_index = Len(node[redis_key].log)
    /\ Unreachable = {} => \A s \in Server : IsLeader(s) => OneOpen(node[s])
    /\ Restartable = {} => \A s, t \in Server :
          IsLeader(s) => node[s].match_index[t] <= Len(node[t].log)

\* One step preserves it, one conjunct after the other.
LEMMA MovesDInv ==
    ASSUME IInv, IInv', DInv, NEW s \in Server, Moves(s)
    PROVE  DInv'
<1>1. /\ node \in [Server -> Node] /\ node'[s] = node'[s]
      /\ \A x \in Server \ {s} : node'[x] = node[x]
  BY DEF IInv, NodesSane, Moves
<1>2. \A x \in Server : /\ node[x].log \in Seq(Entry) /\ Len(node[x].log) \in Nat
                        /\ node[x].commit_index \in Nat
                        /\ node[x].match_index \in [Server -> Nat]
  BY SaneTypes DEF IInv, NodesSane
<1>3. \A x \in Server : /\ Len(node'[x].log) \in Nat /\ node'[x].commit_index \in Nat
  <2>1. \A x \in Server : Sane(node'[x])
    BY DEF IInv, NodesSane
  <2> QED
    BY <2>1, SaneTypes
<1>4. ASSUME NEW x \in Server, node'[x].state = "DOWN" PROVE x \in Faulty \cup Suspects
  <2>1. CASE x # s
    BY Zenon, <1>1, <1>4, <2>1 DEF DInv
  <2>2. CASE x = s
    BY Zenon, <1>4, <2>2 DEF DInv, Moves, Idle, Commits, Changes, Leads, Begun
  <2> QED
    BY <2>1, <2>2
<1>5. ASSUME redis_key' \in Server, node'[redis_key'].state = "FOLLOWER"
      PROVE  node'[redis_key'].commit_index = Len(node'[redis_key'].log)
  <2>1. CASE redis_key' # s
    <3>1. redis_key' = redis_key
      BY <2>1 DEF Moves
    <3> QED
      BY Zenon, <1>1, <1>5, <2>1, <3>1 DEF DInv
  <2>2. CASE redis_key' = s
    <3>1. \/ Idle(node[s], node'[s]) /\ redis_key' = redis_key
          \/ Begun(s)
      BY Zenon, <1>5, <2>2 DEF Moves, Commits, Changes, Leads
    <3>2. CASE Idle(node[s], node'[s]) /\ redis_key' = redis_key
      BY Zenon, <1>5, <2>2, <3>2 DEF Idle, DInv
    <3>3. CASE Begun(s)
      BY Zenon, <1>5, <2>2, <3>3 DEF Begun
    <3> QED
      BY Zenon, <3>1, <3>2, <3>3
  <2> QED
    BY <2>1, <2>2
<1>6. ASSUME Unreachable = {}, NEW x \in Server, IsLeader(x)' PROVE OneOpen(node[x])'
  <2>1. CASE x # s
    <3>1. node'[x] = node[x] /\ OneOpen(node[x])
      BY Zenon, <1>1, <1>6, <2>1 DEF DInv, IsLeader
    <3> QED
      BY Zenon, <3>1 DEF OneOpen, Open
  <2>2. CASE x = s
    <3> DEFINE a == node[s]
               b == node'[s]
    <3>1. b.state = "LEADER" /\ (a.state = "LEADER" => OneOpen(a))
      BY Zenon, <1>6, <2>2 DEF DInv, IsLeader
    <3>2. /\ a.log \in Seq(Entry) /\ Len(a.log) \in Nat /\ a.commit_index \in Nat
          /\ b.commit_index \in Nat
      BY Zenon, <1>2, <1>3
    <3>3. Idle(a, b) \/ Commits(a, b) \/ Changes(a, b) \/ Leads(s)
      BY <1>6, <3>1 DEF Moves, Begun
    <3>4. Leads(s) => /\ a.commit_index = Len(a.log) /\ b.log = Append(a.log, Noop(1))
                      /\ b.commit_index = a.commit_index
      BY Zenon DEF Leads, DInv
    <3>5. OneOpen(node[s])' <=> OneOpen(b)
      BY Zenon DEF OneOpen, Open
    <3> HIDE DEF a, b
    <3>6. CASE Idle(a, b)
      <4>1. Open(b) = Open(a)
        BY <3>6 DEF Idle, Open
      <4> QED
        BY Zenon, <2>2, <3>1, <3>5, <3>6, <4>1 DEF Idle, OneOpen
    <3>7. CASE Commits(a, b)
      BY Zenon, <2>2, <3>1, <3>2, <3>5, <3>7, CommitsOpen DEF Commits
    <3>8. CASE Changes(a, b)
      BY Zenon, <2>2, <3>1, <3>2, <3>5, <3>8, ChangesOpen DEF Changes
    <3>9. CASE Leads(s)
      BY Zenon, <2>2, <3>2, <3>4, <3>5, <3>9, LeadsOpen
    <3> QED
      BY Zenon, <3>3, <3>6, <3>7, <3>8, <3>9
  <2> QED
    BY <2>1, <2>2
<1>7. ASSUME Restartable = {}, NEW x \in Server, NEW t \in Server, IsLeader(x)'
      PROVE  node'[x].match_index[t] <= Len(node'[t].log)
  <2>1. Len(node[t].log) <= Len(node'[t].log)
    <3>1. CASE t = s
      BY Zenon, <1>7, <3>1 DEF Moves
    <3>2. CASE t # s
      BY <1>1, <1>2, <3>2
    <3> QED
      BY <3>1, <3>2
  <2>2. /\ node'[x].match_index[t] \in Nat /\ Len(node[t].log) \in Nat
        /\ Len(node'[t].log) \in Nat
    <3>1. Sane(node'[x])
      BY DEF IInv, NodesSane
    <3> QED
      BY Zenon, <1>2, <1>3, <3>1, SaneTypes
  <2>3. node'[x].match_index[t] <= Len(node[t].log)
    <3>1. CASE x # s
      BY Zenon, <1>1, <1>7, <3>1 DEF DInv, IsLeader
    <3>2. CASE x = s
      <4>1. Heard(s) /\ node'[s].state = "LEADER"
        BY Zenon, <1>7, <3>2 DEF IsLeader, Moves
      <4>2. node'[x].match_index[t] \in {0, node[s].match_index[t], Len(node[t].log)}
        BY Zenon, <1>7, <3>2, <4>1 DEF Heard
      <4>3. node[s].state = "LEADER" => node[s].match_index[t] <= Len(node[t].log)
        BY Zenon, <1>7 DEF DInv, IsLeader
      <4>4. node[s].state = "LEADER" \/ node'[s].match_index[t] = 0
        BY Zenon, <4>1 DEF Moves, Idle, Commits, Changes, Leads, Begun
      <4> QED
        BY <2>2, <3>2, <4>2, <4>3, <4>4
    <3> QED
      BY <3>1, <3>2
  <2> QED
    BY <2>1, <2>2, <2>3
<1> QED
  BY Zenon, <1>4, <1>5, <1>6, <1>7 DEF DInv

LEMMA InitDInv == Init => DInv
<1> SUFFICES ASSUME Init PROVE DInv
  OBVIOUS
<1>1. \A s \in Server : node[s].state = "INIT_SERVER"
  BY DEF Init, NewNode
<1> QED
  BY Zenon, <1>1 DEF DInv, IsLeader

LEMMA NextDInv == OneLeader /\ IInv /\ IInv' /\ MInv /\ DInv /\ [Next]_vars => DInv'
<1> SUFFICES ASSUME OneLeader, IInv, IInv', MInv, DInv, [Next]_vars PROVE DInv'
  OBVIOUS
<1>1. (node' = node /\ redis_key' = redis_key) \/ \E s \in Server : Moves(s)
  BY NextMoves
<1>2. CASE node' = node /\ redis_key' = redis_key
  <2>1. \A s \in Server : OneOpen(node[s])' <=> OneOpen(node[s])
    BY Zenon, <1>2 DEF OneOpen, Open
  <2>2. Unreachable = {} => \A s \in Server : IsLeader(s)' => OneOpen(node[s])'
    BY Zenon, <1>2, <2>1 DEF DInv, IsLeader
  <2>3. Restartable = {} => \A s, t \in Server :
           IsLeader(s)' => node'[s].match_index[t] <= Len(node'[t].log)
    BY Zenon, <1>2 DEF DInv, IsLeader
  <2>4. /\ \A s \in Server : node'[s].state = "DOWN" => s \in Faulty \cup Suspects
        /\ redis_key' \in Server /\ node'[redis_key'].state = "FOLLOWER" =>
              node'[redis_key'].commit_index = Len(node'[redis_key'].log)
    BY Zenon, <1>2 DEF DInv
  <2> QED
    BY Zenon, <2>2, <2>3, <2>4 DEF DInv
<1> QED
  BY Zenon, <1>1, <1>2, MovesDInv

\* What one leader does (set_configuration_changing, become_leader and
\* handle_append_entries_reply): it opens one change at a time, it has applied all it
\* has before it leads, no match_index exceeds the log it is about, and a server that
\* is down failed or was given up.
THEOREM LeaderInvariance == OneLeader => (Spec => []DInv)
<1> SUFFICES ASSUME OneLeader PROVE Spec => []DInv
  OBVIOUS
<1>1. IInv /\ IInv' /\ MInv /\ DInv /\ [Next]_vars => DInv'
  BY NextDInv
<1>2. Spec => []MInv
  BY OneSequence
<1> QED
  BY <1>1, <1>2, InitDInv, Invariance, PTL DEF Spec

LEMMA OneOpenCounts ==
    ASSUME NEW a, OneOpen(a) PROVE Cardinality(Open(a)) <= 1
<1>1. CASE Open(a) = {}
  BY <1>1, NoServer
<1>2. CASE Open(a) # {}
  <2>1. PICK i \in Open(a) : TRUE
    BY <1>2
  <2>2. Open(a) = {i}
    BY <2>1 DEF OneOpen
  <2>3. Cardinality({i}) = 1
    BY Zenon, OneServer
  <2> QED
    BY <2>2, <2>3
<1> QED
  BY <1>1, <1>2

\* No server exits on a fatal error while one leader makes all changes: a server is
\* down only because it has failed.  The servers that may give up joining in time
\* (send_membership_request) are taken to be among those that may fail.
THEOREM NoneExits == OneLeader /\ Suspects \subseteq Faulty => (Spec => []NoFatalExit)
<1> SUFFICES ASSUME OneLeader, Suspects \subseteq Faulty PROVE Spec => []NoFatalExit
  OBVIOUS
<1>1. DInv => NoFatalExit
  BY DEF DInv, NoFatalExit
<1>2. Spec => []DInv
  BY LeaderInvariance
<1> QED
  BY <1>1, <1>2, PTL

\* "only one at a time is allowed" (raft_config_t.is_changing): while one leader makes
\* all changes, and can open a wormhole to every server, its log holds at most one
\* configuration change that it has not committed.
THEOREM OneChange == OneLeader /\ Unreachable = {} => (Spec => []OneChangeAtATime)
<1> SUFFICES ASSUME OneLeader, Unreachable = {} PROVE Spec => []OneChangeAtATime
  OBVIOUS
<1>1. DInv => OneChangeAtATime
  <2> SUFFICES ASSUME DInv, NEW s \in Server, IsLeader(s) PROVE Cardinality(Open(node[s])) <= 1
    BY DEF OneChangeAtATime, Open
  <2>1. OneOpen(node[s])
    BY DEF DInv
  <2> QED
    BY <2>1, OneOpenCounts
<1>2. Spec => []DInv
  BY LeaderInvariance
<1> QED
  BY <1>1, <1>2, PTL

\* The indexes that a leader counts for its commit (match_index, in
\* handle_append_entries_reply) are indexes of entries that the servers hold, while
\* one leader makes all changes and no server loses its log.
THEOREM MatchesHold == OneLeader /\ Restartable = {} => (Spec => []MatchIndexSound)
<1> SUFFICES ASSUME OneLeader, Restartable = {} PROVE Spec => []MatchIndexSound
  OBVIOUS
<1>1. IInv /\ MInv /\ DInv => MatchIndexSound
  <2> SUFFICES ASSUME IInv, MInv, DInv, NEW s \in Server, NEW t \in node[s].servers, IsLeader(s)
               PROVE  AgreeUpTo(node[s].log, node[t].log, node[s].match_index[t])
    BY DEF MatchIndexSound
  <2>1. PICK L \in Seq(Entry) : LInv(L)
    BY DEF MInv
  <2>2. \A x \in Server : /\ node[x].log \in Seq(Entry) /\ Len(node[x].log) \in Nat
                          /\ node[x].match_index \in [Server -> Nat]
                          /\ node[x].servers \in SUBSET Server
    BY SaneTypes DEF IInv, NodesSane
  <2>3. t \in Server /\ node[s].match_index[t] \in Nat
    BY <2>2
  <2>4. node[s].match_index[t] <= Len(node[t].log)
    BY Zenon, <2>3 DEF DInv
  <2>5. Begins(node[t].log, L) /\ node[s].log = L /\ Begins(L, L)
    BY Zenon, <2>1, <2>3, BeginsSelf DEF LInv, NodeOK, LeaderOK
  <2>6. node[s].match_index[t] <= Len(node[s].log)
    BY <2>2, <2>3, <2>4, <2>5 DEF Begins
  <2> QED
    BY Zenon, <2>2, <2>3, <2>4, <2>5, <2>6, BeginningsAgree
<1>2. Spec => []DInv
  BY LeaderInvariance
<1>3. Spec => []MInv
  BY OneSequence
<1> QED
  BY <1>1, <1>2, <1>3, Invariance, PTL
=============================================================================
