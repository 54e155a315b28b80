------------------------- MODULE RaftSequenceProofs -------------------------
(***************************************************************************)
(* The invariant of the membership protocol while one leader makes all     *)
(* changes, and the steps at which the leader's log does not grow: stops,  *)
(* restarts, lost requests, registrations of joining servers, requests     *)
(* sent, and requests and replies handled.                                 *)
(*                                                                         *)
(* The invariant: there is a sequence of entries L such that every log is  *)
(* a prefix of it, the leader's log is L, and every request carries the    *)
(* entries of L from its place on.  A follower is never cut, since what a  *)
(* request or a reply says of the end of its log stays true until the next *)
(* one, except of a server that has restarted with an empty log.           *)
(***************************************************************************)
EXTENDS RaftProofs

\* What is assumed of the constants: only one election is held, or only one
\* server's election timeout ever expires; the reply to a request comes before
\* the next one is sent and is not lost; and a membership request says what its
\* sender's log holds when it arrives.
OneLeader ==
    /\ (\A x, y \in Candidates : x = y) \/ MaxTerm <= 1
    /\ MaxInFlight <= 1
    /\ "REPLY" \notin Lossy
    /\ ~LateJoins

-----------------------------------------------------------------------------
(* The invariant                                                           *)

\* p is the beginning of q.
Begins(p, q) == Len(p) <= Len(q) /\ \A k \in 1..Len(p) : p[k] = q[k]

\* In every stretch of entries, a server that one of them is about has a last one.
Settled(es) ==
    \A k \in 1..Len(es) : \A b \in k..Len(es) :
       \E i \in k..b : /\ es[i].server = es[k].server
                      /\ \A j \in i+1..b : es[j].server # es[k].server

\* A NOOP is about no server.
Proper(es) ==
    /\ \A i \in DOMAIN es : es[i].command = "RAFT_NOOP" => es[i].server = Nil
    /\ Settled(es)

\* AppliedOnce, of a log.
Once(es) ==
    \A i \in 1..Len(es) : \A k \in 1..i-1 :
       es[i] = es[k] /\ es[i].command # "DEL_MEMBER" =>
          \E d \in k+1..i-1 : es[d].command = "DEL_MEMBER" /\ es[d].server = es[i].server

\* The log of t ends at index i, unless t has lost it.
InStep(t, i) == i = Len(node[t].log) \/ (node[t].log = <<>> /\ t \in Restartable)

NodeOK(L, s) ==
    /\ node[s].state \in {"INIT_SERVER", "FOLLOWER", "LEADER", "DOWN"}
    /\ node[s].current_term <= 1
    /\ Begins(node[s].log, L)
    /\ node[s].voting = Added(node[s].log)
    /\ node[s].state = "FOLLOWER" /\ s # redis_key =>
          s \notin Candidates \/ node[s].current_term >= MaxTerm

\* What the leader s knows of t.
Knows(L, s, t) ==
    /\ node[s].next_index[t] - 1 <= Len(L)
    /\ replies[t][s] = <<>> => InStep(t, node[s].next_index[t] - 1)

LeaderOK(L, s) ==
    /\ s = redis_key
    /\ s \in Candidates
    /\ node[s].current_term = 1
    /\ node[s].log = L
    /\ s \in node[s].voting
    /\ \A i \in 2..Len(L) : L[i].server # s
    /\ \A t \in node[s].servers \ {s} : Knows(L, s, t)

ReqOK(L, t, m) ==
    /\ m.term = 1
    /\ InStep(t, m.prev_log_index)
    /\ m.prev_log_index > 0 => m.prev_log_term = L[m.prev_log_index].term
    /\ m.prev_log_index + Len(m.entries) <= Len(L)
    /\ \A k \in 1..Len(m.entries) : m.entries[k] = L[m.prev_log_index + k]

ReplyOK(L, t, m) ==
    /\ m.term = 1
    /\ m.last_log_index <= Len(L)
    /\ InStep(t, m.last_log_index)

\* On a wormhole there is at most one message, and it is one of the leader's.
WormholeOK(L, s, t) ==
    \/ reqs[s][t] = <<>> /\ replies[t][s] = <<>>
    \/ /\ s = redis_key
       /\ s \in Candidates
       /\ t # s
       /\ \/ /\ replies[t][s] = <<>>
             /\ \E m \in AppendReq : reqs[s][t] = <<m>> /\ ReqOK(L, t, m)
          \/ /\ reqs[s][t] = <<>>
             /\ \E m \in AppendReply : replies[t][s] = <<m>> /\ ReplyOK(L, t, m)

\* s has formed the cluster and does not lead yet.
Fresh(L, s) ==
    /\ L = <<Config(1, "ADD_MEMBER", s)>>
    /\ node[s].log = L
    /\ node[s].current_term = 0
    /\ node[s].servers = {s}
    /\ \A t \in Server \ {s} : node[t].log = <<>>
    /\ reqs = Empty
    /\ replies = Empty

\* No server has formed the cluster yet.
Unformed(L) ==
    /\ L = <<>>
    /\ \A s \in Server : /\ node[s].servers = {}
                         /\ node[s].current_term = 0
                         /\ node[s].state \in {"INIT_SERVER", "DOWN"}
    /\ reqs = Empty
    /\ replies = Empty

LInv(L) ==
    /\ Proper(L) /\ Once(L)
    /\ vote_reqs = {} /\ vote_replies = {}
    /\ \A s \in Server : NodeOK(L, s)
    /\ \A s \in Server : IsLeader(s) => LeaderOK(L, s)
    /\ \A s, t \in Server : WormholeOK(L, s, t)
    /\ redis_key # Nil /\ node[redis_key].state = "FOLLOWER" => Fresh(L, redis_key)
    /\ redis_key = Nil => Unformed(L)

MInv == \E L \in Seq(Entry) : LInv(L)

\* What a step makes of a server a: it keeps role, log and commit_index, ...
Idle(a, b) ==
    /\ b.state = a.state
    /\ b.log = a.log
    /\ b.commit_index = a.commit_index
    /\ b.is_changing = a.is_changing

\* ... or, as the leader, it commits, and ends the change that it commits.
Commits(a, b) ==
    /\ a.state = "LEADER" /\ b.state = "LEADER"
    /\ b.log = a.log
    /\ b.commit_index >= a.commit_index /\ b.commit_index <= Len(b.log)
    /\ b.is_changing = IF \E i \in a.commit_index + 1 .. b.commit_index :
                             a.log[i].command # "RAFT_NOOP"
                       THEN FALSE ELSE a.is_changing

\* A match_index that s has after the step it had before, or is the length of a log.
Heard(s) ==
    Restartable = {} => \A t \in Server :
       node'[s].match_index[t] \in {0, node[s].match_index[t], Len(node[t].log)}

-----------------------------------------------------------------------------
(* Logs and the configurations they stand for                              *)

\* A set of one server has cardinality one.
LEMMA OneServer == \A a : Cardinality({a}) = 1
<1> SUFFICES ASSUME NEW a PROVE Cardinality({a}) = 1
  OBVIOUS
<1> DEFINE F(f) == [T \in SUBSET {a} |->
                      IF T = {} THEN 0 ELSE 1 + f[T \ {CHOOSE x : x \in T}]]
           C == CHOOSE f : f = F(f)
           g == [T \in SUBSET {a} |-> IF T = {} THEN 0 ELSE 1]
<1>1. Cardinality({a}) = C[{a}]
  BY Zenon DEF Cardinality
<1>2. \A T \in SUBSET {a} : T = {} \/ T = {a} 
  OBVIOUS
<1>3. (CHOOSE x : x \in {a}) = a
  OBVIOUS
<1>4. {a} \ {a} = {}
  OBVIOUS
<1>5. ASSUME NEW T \in SUBSET {a}
      PROVE  g[T] = IF T = {} THEN 0 ELSE 1 + g[T \ {CHOOSE x : x \in T}]
  <2>1. CASE T = {}
    BY <2>1
  <2>2. CASE T = {a}
    BY <1>3, <1>4, <2>2
  <2> QED
    BY Zenon, <1>2, <2>1, <2>2
<1>6. g = F(g)
  BY Zenon, <1>5
<1>7. C = F(C)
  <2> HIDE DEF g, F
  <2> QED
    BY Zenon, <1>6
<1>8. C[{}] = 0
  <2> HIDE DEF C
  <2> QED
    BY SMT, <1>7
<1>9. C[{a}] = 1 + C[{a} \ {a}]
  <2> HIDE DEF C
  <2>1. {a} \in SUBSET {a} /\ {a} # {}
    OBVIOUS
  <2> QED
    BY SMT, <1>3, <1>7, <2>1
<1> HIDE DEF C
<1> QED
  BY <1>1, <1>4, <1>8, <1>9

\* The last entry about a server exists as soon as there is one.
LEMMA LastAbout ==
    ASSUME NEW es \in Seq(Entry), Settled(es), NEW k \in DOMAIN es
    PROVE  \E i \in DOMAIN es : /\ i >= k /\ es[i].server = es[k].server
                                /\ \A j \in i+1..Len(es) : es[j].server # es[k].server
<1>1. DOMAIN es = 1..Len(es) /\ Len(es) \in Nat /\ k \in 1..Len(es)
  OBVIOUS
<1>2. Len(es) \in k..Len(es)
  BY <1>1
<1>3. PICK i \in k..Len(es) : /\ es[i].server = es[k].server
                              /\ \A j \in i+1..Len(es) : es[j].server # es[k].server
  BY Zenon, <1>1, <1>2 DEF Settled
<1>4. i \in DOMAIN es /\ i >= k
  BY <1>1
<1> QED
  BY Zenon, <1>3, <1>4

\* It still exists when the log grows by an entry, ...
LEMMA SettledAppended ==
    ASSUME NEW L \in Seq(Entry), Settled(L), NEW e \in Entry
    PROVE  Settled(Append(L, e))
<1> DEFINE M == Append(L, e)
           n == Len(L)
<1>1. n \in Nat /\ Len(M) = n + 1 /\ \A i \in 1..n : M[i] = L[i]
  OBVIOUS
<1> HIDE DEF M, n
<1>2. ASSUME NEW k \in 1..n+1, NEW b \in k..n+1
      PROVE  \E i \in k..b : /\ M[i].server = M[k].server
                             /\ \A j \in i+1..b : M[j].server # M[k].server
  <2>1. CASE M[b].server = M[k].server
    <3>1. b \in k..b /\ b+1..b = {}
      BY <1>1
    <3> QED
      BY Zenon, <2>1, <3>1
  <2>2. CASE M[b].server # M[k].server
    <3>1. k \in 1..n /\ b - 1 \in k..n
      <4>1. k # b
        BY <2>2
      <4> QED
        BY <1>1, <4>1
    <3>2. PICK i \in k..b-1 : /\ L[i].server = L[k].server
                              /\ \A j \in i+1..b-1 : L[j].server # L[k].server
      BY Zenon, <3>1 DEF Settled, n
    <3>3. i \in 1..n /\ i \in k..b
      BY <1>1, <3>1
    <3>4. M[i].server = M[k].server
      BY <1>1, <3>1, <3>2, <3>3
    <3>5. ASSUME NEW j \in i+1..b PROVE M[j].server # M[k].server
      <4>1. CASE j = b
        BY <2>2, <4>1
      <4>2. CASE j # b
        <5>1. j \in i+1..b-1 /\ j \in 1..n
          BY <1>1, <3>1, <3>3, <4>2
        <5> QED
          BY <1>1, <3>1, <3>2, <5>1
      <4> QED
        BY <4>1, <4>2
    <3> QED
      BY Zenon, <3>3, <3>4, <3>5
  <2> QED
    BY <2>1, <2>2
<1>3. Settled(M)
  BY Zenon, <1>1, <1>2 DEF Settled
<1> QED
  BY <1>3 DEF M

\* ... and in the entries of a request, which are a stretch of the log.
LEMMA SettledStretch ==
    ASSUME NEW L \in Seq(Entry), Settled(L), NEW p \in Nat, NEW es \in Seq(Entry),
           p + Len(es) <= Len(L), \A k \in 1..Len(es) : es[k] = L[p + k]
    PROVE  Settled(es)
<1> DEFINE n == Len(es)
<1>1. n \in Nat /\ Len(L) \in Nat /\ p + n <= Len(L)
  OBVIOUS
<1>2. \A k \in 1..n : es[k] = L[p + k]
  OBVIOUS
<1> HIDE DEF n
<1>3. ASSUME NEW k \in 1..n, NEW b \in k..n
      PROVE  \E i \in k..b : /\ es[i].server = es[k].server
                             /\ \A j \in i+1..b : es[j].server # es[k].server
  <2>1. p + k \in 1..Len(L) /\ p + b \in p+k..Len(L)
    BY <1>1
  <2>2. PICK a \in p+k..p+b : /\ L[a].server = L[p + k].server
                              /\ \A j \in a+1..p+b : L[j].server # L[p + k].server
    BY Zenon, <2>1 DEF Settled
  <2>3. a - p \in k..b /\ a - p \in 1..n /\ p + (a - p) = a
    BY <1>1
  <2>4. es[a - p].server = es[k].server
    BY <1>2, <2>2, <2>3
  <2>5. ASSUME NEW j \in (a - p)+1..b PROVE es[j].server # es[k].server
    <3>1. j \in 1..n /\ p + j \in a+1..p+b
      BY <1>1, <2>3
    <3> QED
      BY Zenon, <1>2, <2>2, <3>1
  <2> QED
    BY Zenon, <2>3, <2>4, <2>5
<1> QED
  BY Zenon, <1>3 DEF Settled, n

\* A log of at most one entry.
LEMMA SettledShort ==
    /\ Settled(<< >>)
    /\ \A e \in Entry : Settled(<<e>>)
<1>1. Settled(<< >>)
  BY DEF Settled
<1>2. ASSUME NEW e \in Entry PROVE Settled(<<e>>)
  <2>1. << >> \in Seq(Entry) /\ Append(<< >>, e) = <<e>>
    OBVIOUS
  <2>2. Settled(Append(<< >>, e))
    BY Zenon, <1>1, <2>1, SettledAppended
  <2> QED
    BY <2>1, <2>2
<1> QED
  BY <1>1, <1>2

\* Two commands are not both the last one.
LEMMA LastIsOne ==
    ASSUME NEW es \in Seq(Entry), NEW x, NEW c, NEW d,
           LastIs(es, c, x), LastIs(es, d, x)
    PROVE  c = d
<1>1. DOMAIN es = 1..Len(es) /\ Len(es) \in Nat
  OBVIOUS
<1>2. PICK i \in DOMAIN es : /\ es[i].command = c /\ es[i].server = x
                             /\ \A j \in i+1..Len(es) : es[j].server # x
  BY Zenon DEF LastIs
<1>3. PICK k \in DOMAIN es : /\ es[k].command = d /\ es[k].server = x
                             /\ \A j \in k+1..Len(es) : es[j].server # x
  BY Zenon DEF LastIs
<1>4. i = k
  BY <1>1, <1>2, <1>3
<1> QED
  BY <1>2, <1>3, <1>4

\* What is appended decides about the servers it mentions, ...
LEMMA LastAfter ==
    ASSUME NEW p \in Seq(Entry), NEW es \in Seq(Entry), NEW x, NEW c, LastIs(es, c, x)
    PROVE  LastIs(p \o es, c, x)
<1>1. /\ DOMAIN es = 1..Len(es) /\ Len(es) \in Nat /\ Len(p) \in Nat
      /\ DOMAIN (p \o es) = 1 .. Len(p) + Len(es) /\ Len(p \o es) = Len(p) + Len(es)
      /\ \A i \in 1..Len(es) : (p \o es)[Len(p) + i] = es[i]
  OBVIOUS
<1>2. PICK i \in DOMAIN es : /\ es[i].command = c /\ es[i].server = x
                             /\ \A j \in i+1..Len(es) : es[j].server # x
  BY Zenon DEF LastIs
<1> DEFINE q == p \o es
<1> HIDE DEF q
<1>3. Len(p) + i \in DOMAIN q /\ q[Len(p) + i] = es[i]
  BY <1>1, <1>2 DEF q
<1>4. ASSUME NEW j \in Len(p) + i + 1 .. Len(q) PROVE q[j].server # x
  <2>1. j - Len(p) \in i + 1 .. Len(es) /\ j - Len(p) \in 1 .. Len(es) /\ j = Len(p) + (j - Len(p))
    BY <1>1, <1>2 DEF q
  <2> QED
    BY Zenon, <1>1, <1>2, <2>1 DEF q
<1> QED
  BY Zenon, <1>2, <1>3, <1>4 DEF LastIs, q

\* ... and nothing about the others.
LEMMA LastBefore ==
    ASSUME NEW p \in Seq(Entry), NEW es \in Seq(Entry), NEW x, NEW c,
           \A i \in DOMAIN es : es[i].server # x
    PROVE  LastIs(p \o es, c, x) <=> LastIs(p, c, x)
<1> DEFINE q == p \o es
<1>1. /\ DOMAIN es = 1..Len(es) /\ Len(es) \in Nat /\ Len(p) \in Nat /\ DOMAIN p = 1..Len(p)
      /\ DOMAIN q = 1 .. Len(p) + Len(es) /\ Len(q) = Len(p) + Len(es)
      /\ \A i \in 1..Len(p) : q[i] = p[i]
  OBVIOUS
<1>2. \A i \in Len(p) + 1 .. Len(q) : q[i] = es[i - Len(p)] /\ i - Len(p) \in DOMAIN es
  OBVIOUS
<1> HIDE DEF q
<1>3. \A i \in Len(p) + 1 .. Len(q) : q[i].server # x
  BY <1>2
<1>4. ASSUME LastIs(q, c, x) PROVE LastIs(p, c, x)
  <2>1. PICK i \in DOMAIN q : /\ q[i].command = c /\ q[i].server = x
                              /\ \A j \in i+1..Len(q) : q[j].server # x
    BY Zenon, <1>4 DEF LastIs
  <2>2. i \in 1..Len(p)
    BY <1>1, <1>3, <2>1
  <2>3. \A j \in i+1..Len(p) : p[j].server # x
    BY <1>1, <2>1, <2>2
  <2> QED
    BY Zenon, <1>1, <2>1, <2>2, <2>3 DEF LastIs
<1>5. ASSUME LastIs(p, c, x) PROVE LastIs(q, c, x)
  <2>1. PICK i \in DOMAIN p : /\ p[i].command = c /\ p[i].server = x
                              /\ \A j \in i+1..Len(p) : p[j].server # x
    BY Zenon, <1>5 DEF LastIs
  <2>2. \A j \in i+1..Len(q) : q[j].server # x
    BY <1>1, <1>3, <2>1
  <2> QED
    BY <1>1, <2>1, <2>2 DEF LastIs
<1> QED
  BY <1>4, <1>5 DEF q

\* append_raft_log_entry keeps the configuration that of the log.
LEMMA AddedAppended ==
    ASSUME NEW p \in Seq(Entry), NEW es \in Seq(Entry), Proper(es),
           NEW Y \in SUBSET Added(es)
    PROVE  Added(p \o es) = (Added(p) \ (Deleted(es) \cup Y)) \cup Added(es)
<1> SUFFICES ASSUME NEW x \in Server
             PROVE  LastIs(p \o es, "ADD_MEMBER", x) <=>
                       \/ LastIs(p, "ADD_MEMBER", x) /\ x \notin Deleted(es) /\ x \notin Y
                       \/ LastIs(es, "ADD_MEMBER", x)
  BY DEF Added
<1>1. CASE \A i \in DOMAIN es : es[i].server # x
  <2>1. ~LastIs(es, "ADD_MEMBER", x) /\ ~LastIs(es, "DEL_MEMBER", x)
    BY <1>1 DEF LastIs
  <2>2. x \notin Deleted(es) /\ x \notin Y
    BY <2>1 DEF Deleted, Added
  <2> QED
    BY <1>1, <2>1, <2>2, LastBefore
<1>2. CASE \E i \in DOMAIN es : es[i].server = x
  <2>0. PICK k \in DOMAIN es : es[k].server = x
    BY <1>2
  <2>1. PICK i \in DOMAIN es : /\ i >= k /\ es[i].server = es[k].server
                               /\ \A j \in i+1..Len(es) : es[j].server # es[k].server
    BY Zenon, LastAbout DEF Proper
  <2>2. es[i] \in Entry
    OBVIOUS
  <2>3. es[i].command \in {"ADD_MEMBER", "DEL_MEMBER"}
    BY Zenon, <2>0, <2>1, <2>2, NilAssumption DEF Proper, Entry
  <2>4. LastIs(es, es[i].command, x)
    BY <2>0, <2>1 DEF LastIs
  <2>5. CASE es[i].command = "ADD_MEMBER"
    BY <2>4, <2>5, LastAfter
  <2>6. CASE es[i].command = "DEL_MEMBER"
    <3>1. ~LastIs(es, "ADD_MEMBER", x)
      BY <2>4, <2>6, LastIsOne
    <3>2. LastIs(p \o es, "DEL_MEMBER", x) /\ p \o es \in Seq(Entry)
      BY <2>4, <2>6, LastAfter
    <3>3. ~LastIs(p \o es, "ADD_MEMBER", x)
      BY Zenon, <3>2, LastIsOne
    <3>4. x \in Deleted(es)
      BY <2>4, <2>6 DEF Deleted
    <3> QED
      BY <3>1, <3>3, <3>4
  <2> QED
    BY <2>3, <2>5, <2>6
<1> QED
  BY <1>1, <1>2

\* A member that is not in the configuration may be added, and any may be removed.
LEMMA OnceAppended ==
    ASSUME NEW L \in Seq(Entry), Proper(L), Once(L), NEW e \in Entry,
           e.server \in Server, e.command \in {"ADD_MEMBER", "DEL_MEMBER"},
           e.command = "ADD_MEMBER" => e.server \notin Added(L)
    PROVE  Proper(Append(L, e)) /\ Once(Append(L, e))
<1> DEFINE M == Append(L, e)
<1>1. /\ Len(L) \in Nat /\ DOMAIN L = 1..Len(L) /\ Len(M) = Len(L) + 1
      /\ DOMAIN M = 1 .. Len(L) + 1 /\ \A i \in 1..Len(L) : M[i] = L[i] /\ M[Len(L) + 1] = e
  OBVIOUS
<1>2. M[Len(L) + 1] = e
  OBVIOUS
<1> HIDE DEF M
<1>3. Proper(M)
  <2>1. Settled(M)
    BY Zenon, SettledAppended DEF M, Proper
  <2> QED
    BY <1>1, <1>2, <2>1 DEF Proper
<1>4. ASSUME NEW i \in 1..Len(M), NEW k \in 1..i-1, M[i] = M[k], M[i].command # "DEL_MEMBER"
      PROVE  \E d \in k+1..i-1 : M[d].command = "DEL_MEMBER" /\ M[d].server = M[i].server
  <2>1. k \in 1..Len(L) /\ M[k] = L[k]
    BY <1>1
  <2>2. CASE i \in 1..Len(L)
    <3>1. L[i] = L[k] /\ L[i].command # "DEL_MEMBER" /\ M[i] = L[i]
      BY <1>1, <1>4, <2>1, <2>2
    <3>2. PICK d \in k+1..i-1 : L[d].command = "DEL_MEMBER" /\ L[d].server = L[i].server
      BY <2>2, <3>1 DEF Once
    <3>3. d \in 1..Len(L)
      BY <1>1, <2>1, <2>2, <3>2
    <3> QED
      BY Zenon, <1>1, <3>1, <3>2, <3>3
  <2>3. CASE i = Len(L) + 1
    <3>1. L[k] = e /\ e.command = "ADD_MEMBER" /\ M[i] = e
      BY <1>2, <1>4, <2>1, <2>3
    <3>2. PICK d \in DOMAIN L : /\ d >= k /\ L[d].server = L[k].server
                                /\ \A j \in d+1..Len(L) : L[j].server # L[k].server
      BY Zenon, <1>1, <2>1, LastAbout DEF Proper
    <3>3. L[d].command # "ADD_MEMBER"
      <4>1. ~LastIs(L, "ADD_MEMBER", e.server)
        BY <3>1 DEF Added
      <4> QED
        BY Zenon, <3>1, <3>2, <4>1 DEF LastIs
    <3>4. L[d] \in Entry
      OBVIOUS
    <3>5. L[d].command = "DEL_MEMBER"
      BY Zenon, <3>1, <3>2, <3>3, <3>4, NilAssumption DEF Proper, Entry
    <3>6. d # k
      BY <3>1, <3>3
    <3>7. d \in k+1..i-1 /\ M[d] = L[d]
      BY <1>1, <2>1, <2>3, <3>2, <3>6
    <3> QED
      BY Zenon, <3>1, <3>2, <3>5, <3>7
  <2> QED
    BY <1>1, <2>2, <2>3
<1>5. Once(M)
  BY Zenon, <1>4 DEF Once
<1> QED
  BY <1>3, <1>5 DEF M

LEMMA BeginsSelf ==
    ASSUME NEW p \in Seq(Entry)
    PROVE  Begins(p, p) /\ Begins(<< >>, p)
BY DEF Begins

LEMMA BeginsAppended ==
    ASSUME NEW p \in Seq(Entry), NEW e \in Entry
    PROVE  Begins(p, Append(p, e))
BY DEF Begins

LEMMA BeginsTransitive ==
    ASSUME NEW p \in Seq(Entry), NEW q \in Seq(Entry), NEW r \in Seq(Entry),
           Begins(p, q), Begins(q, r)
    PROVE  Begins(p, r)
BY DEF Begins

\* The entries after p in L, appended to p.
LEMMA BeginsGrown ==
    ASSUME NEW p \in Seq(Entry), NEW es \in Seq(Entry), NEW L \in Seq(Entry), Begins(p, L),
           Len(p) + Len(es) <= Len(L), \A k \in 1..Len(es) : es[k] = L[Len(p) + k]
    PROVE  Begins(p \o es, L)
<1> DEFINE q == p \o es
<1>1. /\ Len(p) \in Nat /\ Len(es) \in Nat /\ Len(q) = Len(p) + Len(es)
      /\ \A k \in 1..Len(p) : q[k] = p[k]
      /\ \A k \in Len(p)+1..Len(q) : q[k] = es[k - Len(p)] /\ k - Len(p) \in 1..Len(es)
  OBVIOUS
<1> HIDE DEF q
<1>2. ASSUME NEW k \in 1..Len(q) PROVE q[k] = L[k]
  <2>1. CASE k \in 1..Len(p)
    BY <1>1, <2>1 DEF Begins
  <2>2. CASE k \in Len(p)+1..Len(q)
    <3>1. q[k] = es[k - Len(p)] /\ k - Len(p) \in 1..Len(es) /\ Len(p) + (k - Len(p)) = k
      BY <1>1, <2>2
    <3> QED
      BY <3>1
  <2> QED
    BY <1>1, <2>1, <2>2
<1> QED
  BY <1>1, <1>2 DEF Begins, q

-----------------------------------------------------------------------------
(* What a step leaves alone                                                *)

\* t keeps its log, or has restarted without it.
LogKept(t) == \/ node'[t].log = node[t].log
              \/ node'[t].log = <<>> /\ t \in Restartable

LEMMA InStepKept ==
    ASSUME NEW t, NEW i, LogKept(t), InStep(t, i)
    PROVE  InStep(t, i)'
BY DEF LogKept, InStep

LEMMA ReqKept ==
    ASSUME NEW L \in Seq(Entry), NEW M \in Seq(Entry), Begins(L, M), NEW t, LogKept(t),
           NEW m \in AppendReq, ReqOK(L, t, m)
    PROVE  ReqOK(M, t, m)'
<1>1. m.prev_log_index \in Nat /\ Len(m.entries) \in Nat /\ Len(L) \in Nat /\ Len(M) \in Nat
  BY DEF AppendReq
<1>2. InStep(t, m.prev_log_index)'
  BY InStepKept DEF ReqOK
<1>3. /\ m.prev_log_index > 0 => m.prev_log_term = M[m.prev_log_index].term
      /\ m.prev_log_index + Len(m.entries) <= Len(M)
      /\ \A k \in 1..Len(m.entries) : m.entries[k] = M[m.prev_log_index + k]
  <2> DEFINE p == m.prev_log_index
             es == m.entries
  <2>1. /\ p > 0 => m.prev_log_term = L[p].term
        /\ p + Len(es) <= Len(L)
        /\ \A k \in 1..Len(es) : es[k] = L[p + k]
    BY DEF ReqOK
  <2>2. Len(L) <= Len(M) /\ \A k \in 1..Len(L) : L[k] = M[k]
    BY DEF Begins
  <2> HIDE DEF p, es
  <2>3. p \in Nat /\ Len(es) \in Nat
    BY <1>1 DEF p, es
  <2>4. p > 0 => L[p] = M[p]
    BY <1>1, <2>1, <2>2, <2>3
  <2>5. \A k \in 1..Len(es) : L[p + k] = M[p + k]
    BY <1>1, <2>1, <2>2, <2>3
  <2> QED
    BY <1>1, <2>1, <2>2, <2>3, <2>4, <2>5 DEF p, es
<1> QED
  BY <1>2, <1>3 DEF ReqOK

LEMMA ReplyKept ==
    ASSUME NEW L \in Seq(Entry), NEW M \in Seq(Entry), Begins(L, M), NEW t, LogKept(t),
           NEW m \in AppendReply, ReplyOK(L, t, m)
    PROVE  ReplyOK(M, t, m)'
<1>1. m.last_log_index \in Nat /\ Len(L) \in Nat /\ Len(M) \in Nat
  BY DEF AppendReply
<1>2. InStep(t, m.last_log_index)'
  BY InStepKept DEF ReplyOK
<1> QED
  BY <1>1, <1>2 DEF ReplyOK, Begins

\* A wormhole on which nothing new is sent.
LEMMA WormholeKept ==
    ASSUME NEW L \in Seq(Entry), NEW M \in Seq(Entry), Begins(L, M),
           NEW s \in Server, NEW t \in Server, LogKept(t), WormholeOK(L, s, t),
           redis_key' = redis_key,
           reqs'[s][t] = reqs[s][t] \/ reqs'[s][t] = << >>,
           replies'[t][s] = replies[t][s] \/ replies'[t][s] = << >>
    PROVE  WormholeOK(M, s, t)'
<1>1. CASE reqs[s][t] = << >> /\ replies[t][s] = << >>
  BY <1>1 DEF WormholeOK
<1>2. CASE /\ s = redis_key /\ s \in Candidates /\ t # s /\ replies[t][s] = << >>
           /\ \E m \in AppendReq : reqs[s][t] = <<m>> /\ ReqOK(L, t, m)
  <2>1. PICK m \in AppendReq : reqs[s][t] = <<m>> /\ ReqOK(L, t, m)
    BY <1>2
  <2>2. ReqOK(M, t, m)'
    BY <2>1, ReqKept
  <2> QED
    BY Zenon, <1>2, <2>1, <2>2 DEF WormholeOK
<1>3. CASE /\ s = redis_key /\ s \in Candidates /\ t # s /\ reqs[s][t] = << >>
           /\ \E m \in AppendReply : replies[t][s] = <<m>> /\ ReplyOK(L, t, m)
  <2>1. PICK m \in AppendReply : replies[t][s] = <<m>> /\ ReplyOK(L, t, m)
    BY <1>3
  <2>2. ReplyOK(M, t, m)'
    BY <2>1, ReplyKept
  <2> QED
    BY Zenon, <1>3, <2>1, <2>2 DEF WormholeOK
<1> QED
  BY Zenon, <1>1, <1>2, <1>3 DEF WormholeOK

\* What the leader s knows of a server that it does not hear from.
LEMMA KnowsKept ==
    ASSUME NEW L \in Seq(Entry), NEW M \in Seq(Entry), Begins(L, M), NEW s, NEW t, LogKept(t),
           node[s].next_index[t] \in Nat, Knows(L, s, t),
           node'[s].next_index[t] = node[s].next_index[t], replies'[t][s] = replies[t][s]
    PROVE  Knows(M, s, t)'
<1>1. replies[t][s] = << >> => InStep(t, node[s].next_index[t] - 1)'
  BY DEF Knows, InStep, LogKept
<1>2. node'[s].next_index[t] - 1 <= Len(M)
  BY DEF Knows, Begins
<1> QED
  BY Zenon, <1>1, <1>2 DEF Knows

LEMMA NodeKept ==
    ASSUME NEW L \in Seq(Entry), NEW M \in Seq(Entry), Begins(L, M), IInv,
           NEW x \in Server, NodeOK(L, x), node'[x] = node[x], redis_key' = redis_key
    PROVE  NodeOK(M, x)'
<1>1. node[x].log \in Seq(Entry)
  BY SaneTypes DEF IInv, NodesSane
<1>2. Begins(node[x].log, M)
  BY <1>1, BeginsTransitive DEF NodeOK
<1> QED
  BY <1>2 DEF NodeOK

\* A step that appends nothing to a log: s becomes n, with its log or as a new process.
LEMMA Quiet ==
    ASSUME IInv, NEW L \in Seq(Entry), LInv(L), NEW s \in Server, NEW n \in Node,
           node' = [node EXCEPT ![s] = n], UNCHANGED <<votes_vars, redis_key>>,
           n.current_term <= 1,
           \/ /\ n.log = node[s].log /\ n.voting = node[s].voting
              /\ n.state \in {node[s].state, "DOWN"}
              /\ n.current_term >= node[s].current_term
           \/ n.log = << >> /\ n.voting = {} /\ n.state = "INIT_SERVER" /\ s \in Restartable,
           redis_key = Nil => n.servers = {} /\ n.current_term = 0,
           s = redis_key /\ n.state = "FOLLOWER" => n.servers = {s} /\ n.current_term = 0,
           n.state = "LEADER" => \A t \in n.servers \ {s} : Knows(L, s, t)',
           \A x, y \in Server : WormholeOK(L, x, y)',
           \A t \in Server : \A x \in Server \ {s} : replies'[t][x] = replies[t][x],
           redis_key = Nil \/ node[redis_key].state = "FOLLOWER" =>
              reqs' = Empty /\ replies' = Empty
    PROVE  LInv(L)'
<1>1. /\ node \in [Server -> Node] /\ node'[s] = n
      /\ \A x \in Server \ {s} : node'[x] = node[x]
  BY DEF IInv, NodesSane
<1>2. Begins(L, L) /\ Begins(<< >>, L)
  BY BeginsSelf
<1>3. /\ \A x \in Server : NodeOK(L, x)
      /\ \A x \in Server : IsLeader(x) => LeaderOK(L, x)
      /\ redis_key # Nil /\ node[redis_key].state = "FOLLOWER" => Fresh(L, redis_key)
      /\ redis_key = Nil => Unformed(L)
  BY DEF LInv
<1>4. \A t \in Server : LogKept(t)
  BY <1>1 DEF LogKept
<1>5. NodeOK(L, s)'
  <2>1. n.current_term \in Nat /\ node[s].current_term \in Nat
    BY <1>1 DEF Node
  <2>2. CASE n.log = << >> /\ n.voting = {} /\ n.state = "INIT_SERVER"
    <3>1. Added(<< >>) = {}
      BY DEF Added, LastIs
    <3> QED
      BY Zenon, <1>1, <1>2, <2>2, <3>1 DEF NodeOK
  <2>3. CASE /\ n.log = node[s].log /\ n.voting = node[s].voting
             /\ n.state \in {node[s].state, "DOWN"}
             /\ n.current_term >= node[s].current_term
    <3>1. /\ node[s].state \in {"INIT_SERVER", "FOLLOWER", "LEADER", "DOWN"}
          /\ Begins(node[s].log, L) /\ node[s].voting = Added(node[s].log)
          /\ node[s].state = "FOLLOWER" /\ s # redis_key =>
                s \notin Candidates \/ node[s].current_term >= MaxTerm
      BY Zenon, <1>3 DEF NodeOK
    <3>2. n.state = "FOLLOWER" /\ s # redis_key =>
             s \notin Candidates \/ n.current_term >= MaxTerm
      BY <2>1, <2>3, <3>1, BoundAssumption
    <3> QED
      BY Zenon, <1>1, <2>3, <3>1, <3>2 DEF NodeOK
  <2> QED
    BY Zenon, <2>2, <2>3
<1>6. ASSUME NEW x \in Server PROVE NodeOK(L, x)'
  <2>1. CASE x = s
    BY <1>5, <2>1
  <2>2. CASE x # s
    BY Zenon, <1>1, <1>2, <1>3, <2>2, NodeKept
  <2> QED
    BY <2>1, <2>2
<1>7. ASSUME NEW x \in Server, IsLeader(x)' PROVE LeaderOK(L, x)'
  <2>1. CASE x = s
    <3>1. n.state = "LEADER"
      BY Zenon, <1>1, <1>7, <2>1 DEF IsLeader
    <3>2. /\ IsLeader(s) /\ n.log = node[s].log /\ n.voting = node[s].voting
          /\ n.current_term >= node[s].current_term
      BY <3>1 DEF IsLeader
    <3>3. LeaderOK(L, s)
      BY Zenon, <1>3, <3>2
    <3>4. n.current_term = 1
      BY <3>2, <3>3 DEF LeaderOK, Node
    <3> QED
      BY Zenon, <1>1, <2>1, <3>1, <3>2, <3>3, <3>4 DEF LeaderOK
  <2>2. CASE x # s
    <3>1. node'[x] = node[x] /\ LeaderOK(L, x)
      BY Zenon, <1>1, <1>3, <1>7, <2>2 DEF IsLeader
    <3>2. ASSUME NEW t \in node[x].servers \ {x} PROVE Knows(L, x, t)'
      <4>1. t \in Server /\ node[x].next_index[t] \in Nat
        <5>1. node[x] \in Node
          BY Zenon, <1>1
        <5> QED
          BY Zenon, <5>1 DEF Node
      <4>2. Knows(L, x, t) /\ replies'[t][x] = replies[t][x]
        BY Zenon, <2>2, <3>1, <4>1 DEF LeaderOK
      <4> QED
        BY Zenon, <1>2, <1>4, <3>1, <4>1, <4>2, KnowsKept
    <3> QED
      BY Zenon, <3>1, <3>2 DEF LeaderOK
  <2> QED
    BY <2>1, <2>2
<1>8. ASSUME redis_key # Nil, node'[redis_key].state = "FOLLOWER"
      PROVE  Fresh(L, redis_key)'
  <2>1. redis_key \in Server
    BY <1>8 DEF IInv, ChannelsTyped
  <2>2. node[redis_key].state = "FOLLOWER"
    BY Zenon, <1>1, <1>8, <2>1
  <2>3. Fresh(L, redis_key) /\ reqs' = Empty /\ replies' = Empty
    BY Zenon, <1>3, <1>8, <2>2
  <2>4. \A t \in Server \ {redis_key} : node'[t].log = << >>
    BY Zenon, <1>4, <2>3 DEF Fresh, LogKept
  <2>5. /\ node'[redis_key].log = L /\ node'[redis_key].current_term = 0
        /\ node'[redis_key].servers = {redis_key}
    BY Zenon, <1>1, <1>8, <2>1, <2>3 DEF Fresh
  <2> QED
    BY Zenon, <2>3, <2>4, <2>5 DEF Fresh
<1>9. ASSUME redis_key = Nil PROVE Unformed(L)'
  <2>1. Unformed(L) /\ reqs' = Empty /\ replies' = Empty
    BY Zenon, <1>3, <1>9
  <2>2. \A x \in Server : /\ node'[x].servers = {} /\ node'[x].current_term = 0
                          /\ node'[x].state \in {"INIT_SERVER", "DOWN"}
    BY Zenon, <1>1, <1>9, <2>1 DEF Unformed
  <2> QED
    BY Zenon, <2>1, <2>2 DEF Unformed
<1> QED
  BY Zenon, <1>6, <1>7, <1>8, <1>9 DEF LInv, votes_vars

\* A step that changes neither a server nor the wormholes.
LEMMA SameKept ==
    ASSUME NEW L, LInv(L), UNCHANGED <<node, votes_vars, append_vars, redis_key>>
    PROVE  LInv(L)'
<1>1. node' = node /\ reqs' = reqs /\ replies' = replies /\ redis_key' = redis_key
      /\ vote_reqs' = vote_reqs /\ vote_replies' = vote_replies
  BY Zenon DEF votes_vars, append_vars
<1>2. ASSUME NEW s \in Server, NEW t \in Server PROVE WormholeOK(L, s, t)'
  <2>1. \A m : ReqOK(L, t, m)' <=> ReqOK(L, t, m)
    BY Zenon, <1>1 DEF ReqOK, InStep
  <2>2. \A m : ReplyOK(L, t, m)' <=> ReplyOK(L, t, m)
    BY Zenon, <1>1 DEF ReplyOK, InStep
  <2>3. WormholeOK(L, s, t)
    BY Zenon DEF LInv
  <2> QED
    BY Zenon, <1>1, <2>1, <2>2, <2>3 DEF WormholeOK
<1>3. \A s \in Server : IsLeader(s)' => LeaderOK(L, s)'
  BY Zenon, <1>1 DEF LInv, IsLeader, LeaderOK, Knows, InStep
<1>4. \A s \in Server : NodeOK(L, s)'
  BY Zenon, <1>1 DEF LInv, NodeOK
<1>5. /\ redis_key' # Nil /\ node'[redis_key'].state = "FOLLOWER" => Fresh(L, redis_key)'
      /\ redis_key' = Nil => Unformed(L)'
  BY Zenon, <1>1 DEF LInv, Fresh, Unformed
<1> QED
  BY Zenon, <1>1, <1>2, <1>3, <1>4, <1>5 DEF LInv

-----------------------------------------------------------------------------
(* The steps that append nothing                                           *)

\* The one who formed the cluster is its only voting member.
LEMMA FounderVotes ==
    ASSUME NEW s \in Server
    PROVE  Added(<<Config(1, "ADD_MEMBER", s)>>) = {s}
<1> DEFINE es == <<Config(1, "ADD_MEMBER", s)>>
<1>1. DOMAIN es = {1} /\ Len(es) = 1 /\ es[1].command = "ADD_MEMBER" /\ es[1].server = s
  BY DEF Config
<1> HIDE DEF es
<1>2. \A x : LastIs(es, "ADD_MEMBER", x) <=> x = s
  BY <1>1 DEF LastIs
<1> QED
  BY <1>2 DEF Added, es

LEMMA ExitKept ==
    ASSUME IInv, NEW L \in Seq(Entry), LInv(L), NEW s \in Server, Exit(s)
    PROVE  LInv(L)'
<1> DEFINE n == [node[s] EXCEPT !.state = "DOWN"]
<1>1. /\ node' = [node EXCEPT ![s] = n] /\ UNCHANGED <<votes_vars, redis_key>>
      /\ reqs' = [t \in Server |-> [reqs[t] EXCEPT ![s] = << >>]]
      /\ replies' = [t \in Server |-> [replies[t] EXCEPT ![s] = << >>]]
  BY DEF Exit, LoseMessagesTo
<1>2. /\ node \in [Server -> Node] /\ node[s] \in Node
      /\ reqs \in [Server -> [Server -> Seq(AppendReq)]]
      /\ replies \in [Server -> [Server -> Seq(AppendReply)]]
  BY DEF IInv, NodesSane, ChannelsTyped
<1>3. /\ n \in Node /\ n.log = node[s].log /\ n.voting = node[s].voting
      /\ n.state = "DOWN" /\ n.current_term = node[s].current_term
      /\ n.servers = node[s].servers /\ n.current_term \in Nat
  BY Zenon, <1>2 DEF Node, State
<1> HIDE DEF n
<1>4. \A x, y \in Server : /\ reqs'[x][y] = IF y = s THEN << >> ELSE reqs[x][y]
                          /\ replies'[x][y] = IF y = s THEN << >> ELSE replies[x][y]
  BY Zenon, <1>1, <1>2
<1>5. \A t \in Server : LogKept(t)
  BY <1>1, <1>2, <1>3 DEF LogKept
<1>6. Begins(L, L)
  BY BeginsSelf
<1>7. ASSUME NEW x \in Server, NEW y \in Server PROVE WormholeOK(L, x, y)'
  <2>1. /\ reqs'[x][y] = reqs[x][y] \/ reqs'[x][y] = << >>
        /\ replies'[y][x] = replies[y][x] \/ replies'[y][x] = << >>
    BY Zenon, <1>4
  <2>2. WormholeOK(L, x, y) /\ redis_key' = redis_key
    BY Zenon, <1>1 DEF LInv
  <2> QED
    BY Zenon, <1>5, <1>6, <2>1, <2>2, WormholeKept
<1>8. /\ n.current_term <= 1
      /\ redis_key = Nil => n.servers = {} /\ n.current_term = 0
  BY <1>3 DEF LInv, NodeOK, Unformed
<1>9. ASSUME redis_key = Nil \/ node[redis_key].state = "FOLLOWER"
      PROVE  reqs' = Empty /\ replies' = Empty
  <2>1. reqs = Empty /\ replies = Empty
    BY <1>9 DEF LInv, Fresh, Unformed
  <2> QED
    BY Zenon, <1>1, <2>1 DEF Empty
<1>10. n.current_term >= node[s].current_term
  BY <1>3
<1>11. \A t \in Server : \A x \in Server \ {s} : replies'[t][x] = replies[t][x]
  BY <1>4
<1>12. n.state # "LEADER" /\ n.state # "FOLLOWER"
  BY <1>3
<1> QED
  BY Zenon, <1>1, <1>3, <1>7, <1>8, <1>9, <1>10, <1>11, <1>12, Quiet

LEMMA RestartKept ==
    ASSUME IInv, NEW L \in Seq(Entry), LInv(L), NEW s \in Server, Restart(s)
    PROVE  LInv(L)'
<1> DEFINE n == NewNode(s)
<1>1. /\ node' = [node EXCEPT ![s] = n] /\ UNCHANGED <<votes_vars, append_vars, join_vars>>
      /\ s \in Restartable
  BY DEF Restart
<1>2. node \in [Server -> Node]
  BY DEF IInv, NodesSane
<1>3. /\ n.log = << >> /\ n.voting = {} /\ n.servers = {}
      /\ n.state = "INIT_SERVER" /\ n.current_term = 0
  BY DEF NewNode
<1>4. n \in Node
  BY NewNodeSane DEF Sane
<1> HIDE DEF n
<1>5. \A t \in Server : LogKept(t)
  BY <1>1, <1>2, <1>3 DEF LogKept
<1>6. Begins(L, L)
  BY BeginsSelf
<1>7. reqs' = reqs /\ replies' = replies /\ redis_key' = redis_key
  BY <1>1 DEF append_vars, join_vars
<1>8. ASSUME NEW x \in Server, NEW y \in Server PROVE WormholeOK(L, x, y)'
  BY Zenon, <1>5, <1>6, <1>7, WormholeKept DEF LInv
<1>9. ASSUME redis_key = Nil \/ node[redis_key].state = "FOLLOWER"
      PROVE  reqs' = Empty /\ replies' = Empty
  BY <1>7, <1>9 DEF LInv, Fresh, Unformed
<1>10. n.state # "LEADER" /\ n.state # "FOLLOWER" /\ n.current_term <= 1
  BY <1>3
<1> QED
  BY Zenon, <1>1, <1>3, <1>4, <1>7, <1>8, <1>9, <1>10, Quiet

\* A request that does not arrive leaves the leader's knowledge as it was.
LEMMA DropRequestKept ==
    ASSUME IInv, NEW L \in Seq(Entry), LInv(L), NEW s \in Server, NEW t \in Server,
           DropRequest(s, t)
    PROVE  LInv(L)'
<1> DEFINE n == node[s]
<1>1. /\ node' = node /\ UNCHANGED <<votes_vars, redis_key>> /\ replies' = replies
      /\ reqs[s][t] # << >> /\ reqs' = [reqs EXCEPT ![s][t] = Tail(@)]
  BY DEF DropRequest, join_vars
<1>2. node \in [Server -> Node] /\ reqs \in [Server -> [Server -> Seq(AppendReq)]]
  BY Zenon DEF IInv, NodesSane, ChannelsTyped
<1>3. node' = [node EXCEPT ![s] = n] /\ n \in Node /\ n.current_term \in Nat
  BY Zenon, <1>1, <1>2 DEF Node
<1>4. reqs[s][t] # << >> /\ WormholeOK(L, s, t)
  BY <1>1 DEF LInv
<1>5. Tail(reqs[s][t]) = << >>
  <2>1. PICK m : reqs[s][t] = <<m>>
    BY <1>4 DEF WormholeOK
  <2> QED
    BY <2>1
<1>6. \A x, y \in Server : reqs'[x][y] = reqs[x][y] \/ reqs'[x][y] = << >>
  BY Zenon, <1>1, <1>2, <1>5
<1>7. \A x \in Server : LogKept(x)
  BY <1>1 DEF LogKept
<1>8. Begins(L, L)
  BY BeginsSelf
<1>9. ASSUME NEW x \in Server, NEW y \in Server PROVE WormholeOK(L, x, y)'
  BY Zenon, <1>1, <1>6, <1>7, <1>8, WormholeKept DEF LInv
<1>10. ASSUME redis_key = Nil \/ node[redis_key].state = "FOLLOWER" PROVE FALSE
  BY <1>4, <1>10 DEF LInv, Fresh, Unformed, Empty
<1>11. ASSUME n.state = "LEADER", NEW x \in n.servers \ {s} PROVE Knows(L, s, x)'
  <2>1. Knows(L, s, x)
    BY <1>11 DEF LInv, IsLeader, LeaderOK
  <2>2. x \in Server /\ n.next_index[x] \in Nat
    BY Zenon, <1>3 DEF Node
  <2> QED
    BY Zenon, <1>1, <1>7, <1>8, <2>1, <2>2, KnowsKept
<1>12. n.current_term <= 1 /\ n.current_term >= node[s].current_term
  BY <1>3 DEF LInv, NodeOK
<1>13. s = redis_key => n.state # "FOLLOWER"
  BY <1>10
<1> HIDE DEF n
<1>14. n = node[s]
  BY DEF n
<1> QED
  BY Zenon, <1>1, <1>3, <1>9, <1>10, <1>11, <1>12, <1>13, <1>14, Quiet

\* is_server_caught_up gives up on a server that is no voting member.
LEMMA RoundsOverKept ==
    ASSUME IInv, NEW L \in Seq(Entry), LInv(L), NEW s \in Server, NEW t \in Server,
           RoundsOver(s, t)
    PROVE  LInv(L)'
<1> DEFINE n == RemoveServers(node[s], {t})
<1>1. /\ node' = [node EXCEPT ![s] = n] /\ UNCHANGED <<votes_vars, append_vars, join_vars>>
      /\ t \in node[s].servers /\ t \notin node[s].voting
  BY DEF RoundsOver
<1>0. {t} \in SUBSET Server
  OBVIOUS
<1>2. node \in [Server -> Node] /\ node[s] \in Node
  BY DEF IInv, NodesSane
<1>3. /\ n \in Node /\ n.log = node[s].log /\ n.voting = node[s].voting \ {t}
      /\ n.servers = node[s].servers \ {t} /\ n.state = node[s].state
      /\ n.current_term = node[s].current_term
  <2>1. n \in Node /\ n.log = node[s].log /\ n.state = node[s].state
    BY Zenon, <1>2, <1>0, RemoveServersIs
  <2>2. n.voting = node[s].voting \ {t} /\ n.servers = node[s].servers \ {t}
    BY <1>2 DEF RemoveServers, Node
  <2>3. n.current_term = node[s].current_term
    BY Zenon, <1>2, <1>0, RemoveServersIs
  <2> QED
    BY Zenon, <2>1, <2>2, <2>3
<1>4. n.next_index = [x \in Server |-> IF x \in {t} THEN 1 ELSE node[s].next_index[x]]
  BY Zenon, <1>0, <1>2, RemoveServersIs
<1> HIDE DEF n
<1>5. n.voting = node[s].voting /\ n.current_term \in Nat
  BY Zenon, <1>1, <1>2, <1>3 DEF Node
<1>6. \A x \in Server : LogKept(x)
  BY <1>1, <1>2, <1>3 DEF LogKept
<1>7. Begins(L, L)
  BY BeginsSelf
<1>8. reqs' = reqs /\ replies' = replies /\ redis_key' = redis_key
  BY <1>1 DEF append_vars, join_vars
<1>9. ASSUME NEW x \in Server, NEW y \in Server PROVE WormholeOK(L, x, y)'
  BY Zenon, <1>6, <1>7, <1>8, WormholeKept DEF LInv
<1>10. redis_key # Nil
  BY <1>1 DEF LInv, Unformed
<1>11. ASSUME node[redis_key].state = "FOLLOWER" PROVE reqs' = Empty /\ replies' = Empty
  BY Zenon, <1>8, <1>10, <1>11 DEF LInv, Fresh
<1>12. ASSUME s = redis_key, n.state = "FOLLOWER" PROVE FALSE
  <2>1. Fresh(L, s) /\ NodeOK(L, s)
    BY Zenon, <1>3, <1>10, <1>12 DEF LInv
  <2>2. node[s].servers = {s} /\ node[s].voting = {s}
    BY <2>1, FounderVotes DEF Fresh, NodeOK
  <2> QED
    BY <1>1, <2>2
<1>13. ASSUME n.state = "LEADER", NEW x \in n.servers \ {s} PROVE Knows(L, s, x)'
  <2>1. x \in Server /\ x # t /\ x \in node[s].servers \ {s}
    BY Zenon, <1>2, <1>3 DEF Node
  <2>2. Knows(L, s, x)
    BY Zenon, <1>3, <1>13, <2>1 DEF LInv, IsLeader, LeaderOK
  <2>3. node'[s].next_index[x] = node[s].next_index[x] /\ node[s].next_index[x] \in Nat
    BY Zenon, <1>1, <1>2, <1>4, <2>1 DEF Node
  <2> QED
    BY Zenon, <1>6, <1>7, <1>8, <2>1, <2>2, <2>3, KnowsKept
<1>14. n.current_term <= 1 /\ n.current_term >= node[s].current_term
  BY <1>3, <1>5 DEF LInv, NodeOK
<1> QED
  BY Zenon, <1>1, <1>3, <1>5, <1>8, <1>9, <1>10, <1>11, <1>12, <1>13, <1>14, Quiet

\* handle_membership_request: the leader takes over what the joining server has.
LEMMA HandleMembershipRequestKept ==
    ASSUME IInv, OneLeader, NEW L \in Seq(Entry), LInv(L), NEW m \in joins,
           HandleMembershipRequest(m)
    PROVE  LInv(L)'
<1>0. PICK s \in Server, z \in Server, last \in Nat :
             m = [src |-> z, dst |-> s, last_log_index |-> last]
  BY DEF IInv, ChannelsTyped, MembershipReq
<1> DEFINE old == node[s]
           n == AddServer(old, z, last)
<1>1. /\ m.src = z /\ m.dst = s /\ m.last_log_index = last
      /\ last = Len(node[z].log)
  BY <1>0 DEF HandleMembershipRequest, OneLeader
<1>2. /\ UNCHANGED <<votes_vars, append_vars, redis_key>>
      /\ node' = node \/ (IsLeader(s) /\ z # s /\ node' = [node EXCEPT ![s] = n])
  BY Zenon, <1>1 DEF HandleMembershipRequest
<1>3. CASE node' = node
  BY <1>2, <1>3, SameKept
<1>4. CASE IsLeader(s) /\ z # s /\ node' = [node EXCEPT ![s] = n]
  <2>1. node \in [Server -> Node] /\ old \in Node /\ old.state = "LEADER"
    BY <1>1, <1>4 DEF IInv, NodesSane, IsLeader
  <2>0. old \in Node
    BY <2>1
  <2> HIDE DEF old
  <2>a. n \in Node /\ n.log = old.log /\ n.voting = old.voting
    BY Zenon, <2>0, AddServerIs
  <2>b. n.state = old.state /\ n.current_term = old.current_term
    BY Zenon, <2>0, AddServerIs
  <2>2. /\ n \in Node /\ n.log = old.log /\ n.voting = old.voting /\ n.state = old.state
        /\ n.current_term = old.current_term
    BY Zenon, <2>a, <2>b
  <2>c. n.servers = old.servers \cup {z}
    BY Zenon, <2>0, AddServerIs
  <2>d. n.next_index = [old.next_index EXCEPT ![z] = last + 1]
    BY Zenon, <2>0, AddServerIs
  <2>3. /\ n.servers = old.servers \cup {z}
        /\ n.next_index = [old.next_index EXCEPT ![z] = last + 1]
    BY Zenon, <2>c, <2>d
  <2> HIDE DEF n
  <2>4. LeaderOK(L, s) /\ NodeOK(L, s)
    BY <1>1, <1>4 DEF LInv
  <2>5. \A x \in Server : LogKept(x)
    BY Zenon, <1>1, <1>4, <2>1, <2>2 DEF LogKept, old
  <2>6. Begins(L, L)
    BY BeginsSelf
  <2>7. reqs' = reqs /\ replies' = replies /\ redis_key' = redis_key
    BY <1>2 DEF append_vars
  <2>8. ASSUME NEW x \in Server, NEW y \in Server PROVE WormholeOK(L, x, y)'
    BY Zenon, <2>5, <2>6, <2>7, WormholeKept DEF LInv
  <2>9. redis_key = s /\ redis_key # Nil /\ node[redis_key].state # "FOLLOWER"
    BY Zenon, <1>1, <2>1, <2>4, NilAssumption DEF LeaderOK, old
  <2>10. ASSUME NEW x \in n.servers \ {s} PROVE Knows(L, s, x)'
    <3>0. node'[s] = n /\ old.next_index \in [Server -> Nat] /\ old.servers \in SUBSET Server
      BY Zenon, <1>1, <1>4, <2>1 DEF Node
    <3>1. CASE x = z
      <4>1. node'[s].next_index[x] - 1 = Len(node[x].log) /\ Len(node[x].log) <= Len(L)
        BY <1>1, <2>3, <3>0, <3>1 DEF LInv, NodeOK, Begins
      <4>2. node'[x].log = node[x].log
        BY Zenon, <1>1, <1>4, <2>1, <3>1
      <4>3. InStep(x, node[s].next_index[x] - 1)'
        BY <4>1, <4>2 DEF InStep
      <4> QED
        BY <4>1, <4>3 DEF Knows
    <3>2. CASE x # z
      <4>1. x \in old.servers \ {s} /\ x \in Server
        BY <2>3, <3>0, <3>2
      <4>2. node'[s].next_index[x] = node[s].next_index[x] /\ node[s].next_index[x] \in Nat
        BY Zenon, <1>1, <2>3, <3>0, <3>2, <4>1 DEF old
      <4>3. Knows(L, s, x)
        BY <2>4, <4>1 DEF LeaderOK, old
      <4> QED
        BY Zenon, <2>5, <2>6, <2>7, <4>1, <4>2, <4>3, KnowsKept
    <3> QED
      BY <3>1, <3>2
  <2>11. n.current_term <= 1 /\ n.current_term >= node[s].current_term
    BY <2>1, <2>2, <2>4 DEF NodeOK, Node, old
  <2>12. n.log = node[s].log /\ n.voting = node[s].voting /\ n.state = node[s].state
    BY <2>2 DEF old
  <2>13. n.state # "FOLLOWER"
    BY <2>1, <2>2
  <2> QED
    BY Zenon, <1>1, <1>2, <1>4, <2>2, <2>7, <2>8, <2>9, <2>10, <2>11, <2>12, <2>13, Quiet
<1> QED
  BY <1>2, <1>3, <1>4

\* A round of the leader's thread for t: the entries that follow the end of t's log.
LEMMA SendAppendEntriesKept ==
    ASSUME IInv, OneLeader, NEW L \in Seq(Entry), LInv(L), NEW s \in Server, NEW t \in Server,
           SendAppendEntries(s, t)
    PROVE  LInv(L)' /\ node' = [node EXCEPT ![s] = [@ EXCEPT !.logs_match = node'[s].logs_match]]
<1> DEFINE old == node[s]
           prev == old.next_index[t] - 1
           match == old.match_index[t] = prev
           entries == IF match THEN EntriesAfter(old.log, prev) ELSE << >>
           req == AppendRequest(old, prev, entries)
           X == IF match /\ t \notin old.voting THEN old.logs_match \cup {t}
                ELSE old.logs_match \ {t}
           n == [old EXCEPT !.logs_match = X]
<1>1. /\ node \in [Server -> Node] /\ Sane(old) /\ old \in Node
      /\ reqs \in [Server -> [Server -> Seq(AppendReq)]]
      /\ replies \in [Server -> [Server -> Seq(AppendReply)]]
  BY Zenon, SaneTypes DEF IInv, NodesSane, ChannelsTyped
<1>2. /\ old.log \in Seq(Entry) /\ Len(old.log) \in Nat /\ old.current_term \in Nat
      /\ prev \in Nat /\ X \in SUBSET Server
  <2> HIDE DEF old, match
  <2>0. Sane(old)
    BY <1>1
  <2>1. /\ old.log \in Seq(Entry) /\ Len(old.log) \in Nat /\ old.current_term \in Nat
        /\ old.next_index \in [Server -> Nat] /\ old.next_index[t] > 0
    BY <2>0, SaneTypes DEF Sane
  <2>2. X \in SUBSET Server
    BY Zenon, <1>1 DEF Node
  <2>3. prev \in Nat
    BY <2>1
  <2> QED
    BY <2>1, <2>2, <2>3
<1>a. old \in Node
  BY <1>1
<1>b. X \in SUBSET Server
  BY <1>2
<1>3. IsLeader(s) /\ t \in old.servers \ {s} /\ reqs[s][t] = << >> /\ replies[t][s] = << >>
  <2>1. Len(reqs[s][t]) + Len(replies[t][s]) < MaxInFlight
    BY Zenon DEF SendAppendEntries
  <2>2. Len(reqs[s][t]) \in Nat /\ Len(replies[t][s]) \in Nat
    BY <1>1
  <2>3. Len(reqs[s][t]) = 0 /\ Len(replies[t][s]) = 0
    <3>1. MaxInFlight \in Nat /\ MaxInFlight <= 1
      BY BoundAssumption DEF OneLeader
    <3> DEFINE i == Len(reqs[s][t])
               k == Len(replies[t][s])
    <3>2. i \in Nat /\ k \in Nat /\ i + k < MaxInFlight
      BY Zenon, <2>1, <2>2
    <3> HIDE DEF i, k
    <3>3. i = 0 /\ k = 0
      BY <3>1, <3>2
    <3> QED
      BY <3>3 DEF i, k
  <2> QED
    BY <1>1, <2>3 DEF SendAppendEntries
<1>4. LeaderOK(L, s) /\ NodeOK(L, s)
  BY <1>3 DEF LInv
<1>5. /\ Knows(L, s, t) /\ s = redis_key /\ s \in Candidates /\ old.log = L
      /\ old.current_term = 1 /\ old.state = "LEADER"
  BY <1>3, <1>4 DEF LeaderOK, IsLeader
<1>6. prev <= Len(L) /\ InStep(t, prev)
  BY <1>3, <1>5 DEF Knows
<1>7. ~(match /\ prev > Len(old.log))
  BY <1>2, <1>5, <1>6
<1>8. /\ node' = [node EXCEPT ![s] = n]
      /\ reqs' \in {reqs, [reqs EXCEPT ![s][t] = Append(@, req)]}
      /\ UNCHANGED <<votes_vars, replies, join_vars>>
  BY Zenon, <1>1, <1>7 DEF SendAppendEntries
<1>9. node' = [node EXCEPT ![s] = [@ EXCEPT !.logs_match = node'[s].logs_match]]
  <2> HIDE DEF X
  <2>1. node'[s].logs_match = X
    BY Zenon, <1>1, <1>8 DEF Node
  <2> QED
    BY Zenon, <1>8, <2>1
<1>10. LInv(L)'
  <2> HIDE DEF X, old
  <2>1. /\ n \in Node /\ n.log = old.log /\ n.voting = old.voting /\ n.state = old.state
        /\ n.current_term = old.current_term /\ n.servers = old.servers
        /\ n.next_index = old.next_index
    BY Zenon, <1>a, <1>b, LogsMatchIs
  <2> HIDE DEF n
  <2>2. /\ entries \in Seq(Entry) /\ prev + Len(entries) <= Len(L)
        /\ \A k \in 1..Len(entries) : entries[k] = L[prev + k]
    <3>1. CASE match
      BY Zenon, <1>2, <1>5, <1>6, <3>1, EntriesAfterIs
    <3>2. CASE ~match
      BY <1>2, <1>6, <3>2
    <3> QED
      BY Zenon, <3>1, <3>2
  <2> HIDE DEF entries, match
  <2>3. req \in AppendReq
    BY Zenon, <1>1, <1>2, <2>2, AppendRequestTyped
  <2>4. /\ req.term = 1 /\ req.prev_log_index = prev /\ req.entries = entries
        /\ prev > 0 => req.prev_log_term = L[prev].term
    <3> HIDE DEF prev
    <3>1. prev \in Nat /\ prev <= Len(old.log) /\ Len(old.log) \in Nat
      BY Zenon, <1>2, <1>5, <1>6
    <3>2. prev \in 1..Len(old.log) \/ prev = 0
      BY <3>1
    <3>3. prev = 0 => ~(prev \in 1..Len(old.log))
      OBVIOUS
    <3>4. req.entries = entries /\ req.term = 1
      BY Zenon, <1>5 DEF AppendRequest
    <3>5. CASE prev \in 1..Len(old.log)
      <4>1. req.prev_log_index = prev /\ req.prev_log_term = L[prev].term
        BY Zenon, <1>5, <3>5 DEF AppendRequest
      <4> QED
        BY Zenon, <3>4, <4>1
    <3>6. CASE prev = 0
      <4>1. req.prev_log_index = prev /\ ~(prev > 0)
        BY <3>6 DEF AppendRequest
      <4> QED
        BY Zenon, <3>4, <4>1
    <3> QED
      BY Zenon, <3>2, <3>5, <3>6
  <2> HIDE DEF req, prev
  <2>a. PICK r \in AppendReq, p \in Nat : r = req /\ p = prev
    BY <1>2, <2>3
  <2>5. \A x \in Server : LogKept(x)
    BY Zenon, <1>1, <1>8, <2>1 DEF LogKept, old
  <2>6. ReqOK(L, t, r)'
    <3>1. InStep(t, p)'
      BY Zenon, <1>6, <2>5, <2>a, InStepKept
    <3> QED
      BY Zenon, <2>2, <2>4, <2>a, <3>1 DEF ReqOK
  <2>7. Begins(L, L)
    BY BeginsSelf
  <2>8. replies' = replies /\ redis_key' = redis_key
    BY <1>8 DEF join_vars
  <2>9. /\ \A x, y \in Server : <<x, y>> # <<s, t>> => reqs'[x][y] = reqs[x][y]
        /\ reqs'[s][t] \in {<< >>, <<r>>}
    <3>1. CASE reqs' = reqs
      BY <1>3, <3>1
    <3>2. CASE reqs' = [reqs EXCEPT ![s][t] = Append(@, req)]
      <4>1. reqs'[s][t] = Append(reqs[s][t], r)
        BY Zenon, <1>1, <2>a, <3>2
      <4>2. Append(<< >>, r) = <<r>>
        OBVIOUS
      <4> QED
        BY Zenon, <1>1, <1>3, <3>2, <4>1, <4>2
    <3> QED
      BY Zenon, <1>8, <3>1, <3>2
  <2>10. ASSUME NEW x \in Server, NEW y \in Server PROVE WormholeOK(L, x, y)'
    <3>1. CASE reqs'[x][y] = reqs[x][y]
      BY Zenon, <2>5, <2>7, <2>8, <3>1, WormholeKept DEF LInv
    <3>2. CASE reqs'[x][y] # reqs[x][y]
      <4>1. x = s /\ y = t /\ reqs'[s][t] = <<r>>
        BY Zenon, <1>3, <2>9, <3>2
      <4>2. replies'[t][s] = << >> /\ redis_key' = s /\ t # s /\ s \in Candidates
        BY Zenon, <1>3, <1>5, <2>8
      <4> QED
        BY Zenon, <2>6, <4>1, <4>2 DEF WormholeOK
    <3> QED
      BY <3>1, <3>2
  <2>11. redis_key # Nil /\ node[redis_key].state # "FOLLOWER"
    BY <1>5, NilAssumption DEF old
  <2>12. ASSUME NEW x \in n.servers \ {s} PROVE Knows(L, s, x)'
    <3>1. x \in old.servers \ {s} /\ x \in Server
      BY Zenon, <1>1, <2>1 DEF Node
    <3>2. Knows(L, s, x)
      BY <1>4, <3>1 DEF LeaderOK, old
    <3>3. node'[s].next_index[x] = node[s].next_index[x] /\ node[s].next_index[x] \in Nat
      BY Zenon, <1>1, <1>8, <2>1, <3>1 DEF old, Node
    <3> QED
      BY Zenon, <2>5, <2>7, <2>8, <3>1, <3>2, <3>3, KnowsKept
  <2>13. n.current_term <= 1 /\ n.current_term >= node[s].current_term
    BY <1>5, <2>1 DEF old
  <2>14. n.log = node[s].log /\ n.voting = node[s].voting /\ n.state = node[s].state
    BY <2>1 DEF old
  <2>15. n.state # "FOLLOWER"
    BY <1>5, <2>1
  <2> QED
    BY Zenon, <1>8, <2>1, <2>8, <2>10, <2>11, <2>12, <2>13, <2>14, <2>15, Quiet
<1> QED
  BY <1>9, <1>10

\* Committing, a leader stays leader: its own ADD_MEMBER is the first entry.
LEMMA LeaderCommitted ==
    ASSUME NEW n, Sane(n), n.state = "LEADER", NEW new \in Nat,
           \A i \in 2..Len(n.log) : n.log[i].server # n.self_id
    PROVE  CommitLogEntries(n, new).state = "LEADER"
<1>1. /\ n \in Node /\ n.commit_index <= Len(n.log) /\ n.commit_index \in Nat
      /\ Len(n.log) \in Nat /\ n.commit_index > 0
  BY SaneTypes DEF Sane
<1> DEFINE index == NewCommitIndex(n, new)
<1>2. index \in Nat /\ index <= Len(n.log)
  BY Zenon, <1>1, NewCommitIndexIs
<1>3. CommitLogEntries(n, new).state = IF index > n.commit_index /\ Joins(n, index)
                                       THEN "FOLLOWER" ELSE n.state
  BY Zenon, <1>1, CommitLogEntriesIs
<1> HIDE DEF index
<1>4. ~Joins(n, index)
  BY <1>1, <1>2 DEF Joins
<1> QED
  BY <1>3, <1>4

\* handle_append_entries_reply: the leader learns where the log of t ends.
LEMMA HandleAppendEntriesReplyKept ==
    ASSUME IInv, NEW L \in Seq(Entry), LInv(L), NEW s \in Server, NEW t \in Server,
           HandleAppendEntriesReply(s, t)
    PROVE  /\ LInv(L)'
           /\ node' = [node EXCEPT ![s] = node'[s]] /\ redis_key' = redis_key
           /\ Idle(node[s], node'[s]) \/ Commits(node[s], node'[s])
           /\ Heard(s)
<1>1. /\ node \in [Server -> Node] /\ Sane(node[s]) /\ node[s] \in Node
      /\ node[s].self_id = s
      /\ replies \in [Server -> [Server -> Seq(AppendReply)]]
  BY Zenon, SaneTypes DEF IInv, NodesSane, ChannelsTyped
<1>2. replies[t][s] # << >> /\ IsRunning(s) /\ WormholeOK(L, s, t)
  BY Zenon DEF HandleAppendEntriesReply, LInv
<1>3. PICK m \in AppendReply : replies[t][s] = <<m>> /\ ReplyOK(L, t, m) /\ s = redis_key /\ t # s
  BY <1>2 DEF WormholeOK
<1>4. Head(replies[t][s]) = m /\ Tail(replies[t][s]) = << >>
  BY <1>3
<1>5. m.term = 1 /\ m.success \in BOOLEAN /\ m.last_log_index \in Nat
  BY <1>3 DEF AppendReply, ReplyOK
<1>6. redis_key # Nil /\ node[redis_key].state # "FOLLOWER"
  <2>1. redis_key # Nil
    BY <1>3, NilAssumption
  <2>2. replies # Empty
    BY <1>2 DEF Empty
  <2> QED
    BY <2>1, <2>2 DEF LInv, Fresh
<1>7. NodeOK(L, s) /\ node[s].state \in {"INIT_SERVER", "LEADER"}
  BY Zenon, <1>2, <1>3, <1>6 DEF LInv, NodeOK, IsRunning, Running
<1> DEFINE old == node[s]
           last == m.last_log_index
           match == IF m.success THEN last ELSE old.match_index[t]
           k == Counted(old, t, last, match)
           counts == /\ m.term = old.current_term
                     /\ IsLeader(s)
                     /\ t \in old.servers
           n == IF ~counts THEN MatchTerms(old, m.term) ELSE k
           done == IF counts /\ m.success /\ last > n.commit_index
                   THEN CommitLogEntries(n, last) ELSE n
<1>8. /\ node' = [node EXCEPT ![s] = done]
      /\ replies' = [replies EXCEPT ![t][s] = Tail(@)]
      /\ UNCHANGED <<votes_vars, reqs, join_vars>>
  BY Zenon, <1>4 DEF HandleAppendEntriesReply, Counted
<1>9. /\ reqs' = reqs /\ redis_key' = redis_key /\ replies'[t][s] = << >>
      /\ \A x, y \in Server : <<x, y>> # <<t, s>> => replies'[x][y] = replies[x][y]
  BY Zenon, <1>1, <1>4, <1>8 DEF join_vars
<1>10. Begins(L, L)
  BY BeginsSelf
<1>a. ASSUME NEW j, node' = [node EXCEPT ![s] = j],
             Idle(old, j) \/ Commits(old, j),
             \A x \in Server : \/ j.match_index[x] = old.match_index[x]
                               \/ x = t /\ j.match_index[x] = last
      PROVE  /\ node' = [node EXCEPT ![s] = node'[s]] /\ redis_key' = redis_key
             /\ Idle(node[s], node'[s]) \/ Commits(node[s], node'[s])
             /\ Heard(s)
  <2>1. node'[s] = j
    BY Zenon, <1>1, <1>a
  <2>2. Restartable = {} => last = Len(node[t].log)
    BY <1>3 DEF ReplyOK, InStep
  <2>3. Heard(s)
    BY Zenon, <1>a, <2>1, <2>2 DEF Heard
  <2> QED
    BY Zenon, <1>9, <1>a, <2>1, <2>3
<1>11. ASSUME NEW j \in Node, node' = [node EXCEPT ![s] = j], j.log = old.log,
              j.voting = old.voting, j.state = old.state, j.current_term = 1,
              j.state = "LEADER" =>
                 \A x \in j.servers \ {s} :
                    \/ x = t /\ j.next_index[x] = last + 1
                    \/ /\ x # t /\ x \in old.servers
                       /\ j.next_index[x] = old.next_index[x]
       PROVE  LInv(L)'
  <2>1. \A x \in Server : LogKept(x)
    BY <1>1, <1>11 DEF LogKept
  <2>2. ASSUME NEW x \in Server, NEW y \in Server PROVE WormholeOK(L, x, y)'
    BY Zenon, <1>9, <1>10, <2>1, WormholeKept DEF LInv
  <2>3. ASSUME j.state = "LEADER", NEW x \in j.servers \ {s} PROVE Knows(L, s, x)'
    <3>1. node'[s] = j /\ x \in Server /\ old.next_index \in [Server -> Nat]
      BY Zenon, <1>1, <1>11 DEF Node
    <3>2. CASE x = t /\ j.next_index[x] = last + 1
      <4>1. InStep(t, last)'
        BY Zenon, <1>3, <2>1, InStepKept DEF ReplyOK
      <4>2. node'[s].next_index[t] - 1 = last /\ last <= Len(L)
        BY <1>3, <1>5, <3>1, <3>2 DEF ReplyOK
      <4> QED
        BY Zenon, <3>2, <4>1, <4>2 DEF Knows
    <3>3. CASE x # t /\ x \in old.servers /\ j.next_index[x] = old.next_index[x]
      <4>1. Knows(L, s, x)
        BY Zenon, <1>11, <2>3, <3>3 DEF LInv, LeaderOK, IsLeader
      <4>2. replies'[x][s] = replies[x][s]
        BY Zenon, <1>9, <3>1, <3>3
      <4> QED
        BY Zenon, <1>10, <2>1, <3>1, <3>3, <4>1, <4>2, KnowsKept
    <3> QED
      BY Zenon, <1>11, <2>3, <3>2, <3>3
  <2>4. j.state # "FOLLOWER" /\ j.current_term <= 1 /\ j.current_term >= node[s].current_term
    <3>1. node[s].current_term <= 1 /\ node[s].current_term \in Nat
      BY Zenon, <1>1, <1>7 DEF NodeOK, Node
    <3>2. j.state # "FOLLOWER"
      BY Zenon, <1>7, <1>11
    <3>3. j.current_term = 1
      BY Zenon, <1>11
    <3> QED
      BY <3>1, <3>2, <3>3
  <2>5. \A y \in Server : \A x \in Server \ {s} : replies'[y][x] = replies[y][x]
    BY <1>9
  <2>6. UNCHANGED <<votes_vars, redis_key>>
    BY Zenon, <1>8, <1>9
  <2> HIDE DEF last
  <2> QED
    BY Zenon, <1>6, <1>11, <2>2, <2>3, <2>4, <2>5, <2>6, Quiet
<1>12. CASE counts
  <2>1. old.state = "LEADER" /\ LeaderOK(L, s) /\ t \in old.servers
    BY <1>12 DEF IsLeader, LInv
  <2>2. old.current_term = 1 /\ \A i \in 2..Len(old.log) : old.log[i].server # s
    BY <2>1 DEF LeaderOK
  <2>3. match \in Nat /\ old.next_index \in [Server -> Nat] /\ Sane(old) /\ old \in Node
        /\ last \in Nat /\ old.self_id = s
    BY Zenon, <1>1, <1>5 DEF Node
  <2>4. match \in Nat /\ last \in Nat
    BY <2>3
  <2>5. Sane(old) /\ old \in Node
    BY <2>3
  <2> HIDE DEF old, match, last
  <2>6. /\ k \in Node /\ k.log = old.log /\ k.voting = old.voting /\ k.state = old.state
        /\ k.current_term = old.current_term /\ k.servers = old.servers
        /\ k.self_id = old.self_id
    BY <2>4, <2>5, CountedIs
  <2>a. k.commit_index = old.commit_index /\ k.is_changing = old.is_changing
    BY <2>4, <2>5, CountedIs
  <2>7. \A x \in Server : k.next_index[x] = IF x = t THEN last + 1 ELSE old.next_index[x]
    BY <2>4, <2>5, CountedIndexes
  <2>b. \A x \in Server : \/ k.match_index[x] = old.match_index[x]
                          \/ x = t /\ k.match_index[x] = last
    <3>1. \A x \in Server : k.match_index[x] = IF x = t THEN match ELSE old.match_index[x]
      BY <2>4, <2>5, CountedIndexes
    <3> QED
      BY Zenon, <3>1 DEF match
  <2>8. Sane(k)
    BY <2>4, <2>5, CountedFollows DEF Follows
  <2> HIDE DEF k
  <2> DEFINE c == CommitLogEntries(k, last)
  <2>9. k.commit_index <= Len(k.log)
    BY <2>8 DEF Sane
  <2>10. /\ c \in Node /\ c.log = k.log /\ c.voting = k.voting
         /\ c.current_term = k.current_term /\ c.servers = k.servers
         /\ c.next_index = k.next_index
    BY Zenon, <2>4, <2>6, <2>9, CommitLogEntriesIs
  <2>11. c.state = "LEADER"
    BY Zenon, <2>1, <2>2, <2>3, <2>4, <2>6, <2>8, LeaderCommitted
  <2>c. Commits(k, c) /\ c.match_index = k.match_index
    <3> DEFINE index == NewCommitIndex(k, last)
    <3>1. /\ c.commit_index = IF index <= k.commit_index THEN k.commit_index ELSE index
          /\ c.commit_index >= k.commit_index /\ c.commit_index <= Len(k.log)
      BY Zenon, <2>4, <2>6, <2>9, CommitLogEntriesIs
    <3>2. c.is_changing =
             IF /\ index > k.commit_index /\ k.state = "LEADER"
                /\ \E i \in k.commit_index + 1 .. index : k.log[i].command # "RAFT_NOOP"
             THEN FALSE ELSE k.is_changing
      BY Zenon, <2>4, <2>6, <2>9, CommitLogEntriesIs
    <3>3. c.match_index = k.match_index
      BY Zenon, <2>4, <2>6, <2>9, CommitLogEntriesIs
    <3>4. index \in Nat /\ k.commit_index \in Nat /\ k.state = "LEADER"
      BY Zenon, <2>1, <2>4, <2>6, <2>8, <2>9, NewCommitIndexIs, SaneTypes
    <3> HIDE DEF index, c
    <3>5. CASE index <= k.commit_index
      <4>1. c.commit_index = k.commit_index /\ k.commit_index + 1 .. c.commit_index = {}
        BY <3>1, <3>4, <3>5
      <4>0. ~(index > k.commit_index)
        BY <3>4, <3>5
      <4>2. c.is_changing = k.is_changing
        BY Zenon, <3>2, <4>0
      <4> QED
        BY Zenon, <2>10, <2>11, <3>1, <3>3, <3>4, <4>1, <4>2 DEF Commits
    <3>6. CASE ~(index <= k.commit_index)
      <4>1. c.commit_index = index /\ index > k.commit_index
        BY <3>1, <3>4, <3>6
      <4> QED
        BY Zenon, <2>10, <2>11, <3>1, <3>2, <3>3, <3>4, <4>1 DEF Commits
    <3> QED
      BY <3>5, <3>6
  <2> HIDE DEF c
  <2>d. Idle(old, k) /\ Commits(old, c)
    BY Zenon, <2>1, <2>6, <2>a, <2>c DEF Idle, Commits
  <2>12. node' = [node EXCEPT ![s] = k] \/ node' = [node EXCEPT ![s] = c]
    BY Zenon, <1>8, <1>12 DEF c
  <2>13. \A x \in old.servers \ {s} :
            \/ x = t /\ k.next_index[x] = last + 1
            \/ x # t /\ x \in old.servers /\ k.next_index[x] = old.next_index[x]
    BY Zenon, <2>5, <2>7 DEF Node
  <2>14. CASE node' = [node EXCEPT ![s] = k]
    <3>1. LInv(L)'
      BY Zenon, <1>11, <2>1, <2>2, <2>6, <2>13, <2>14
    <3> QED
      BY Zenon, <1>a, <2>b, <2>d, <2>14, <3>1
  <2>15. CASE node' = [node EXCEPT ![s] = c]
    <3>1. LInv(L)'
      BY Zenon, <1>11, <2>1, <2>2, <2>6, <2>10, <2>11, <2>13, <2>15
    <3> QED
      BY Zenon, <1>a, <2>b, <2>c, <2>d, <2>15, <3>1
  <2> QED
    BY <2>12, <2>14, <2>15
<1>13. CASE ~counts
  <2> DEFINE j == MatchTerms(old, 1)
  <2>1. node' = [node EXCEPT ![s] = j]
    BY Zenon, <1>5, <1>8, <1>13
  <2>2. old \in Node /\ old.current_term \in Nat /\ old.current_term <= 1
    BY Zenon, <1>1, <1>7 DEF Node, NodeOK
  <2>3. old.state = "LEADER" => old.current_term = 1 /\ t \notin old.servers
    BY Zenon, <1>5, <1>13 DEF LInv, LeaderOK, IsLeader
  <2>4. old.state \in {"INIT_SERVER", "LEADER"}
    BY <1>7
  <2> HIDE DEF old
  <2>5. /\ j \in Node /\ j.log = old.log /\ j.voting = old.voting /\ j.servers = old.servers
        /\ j.next_index = old.next_index
    BY <2>2, MatchTermsIs
  <2>6. /\ j.current_term = IF 1 > old.current_term THEN 1 ELSE old.current_term
        /\ j.state = IF 1 > old.current_term /\ old.state \in {"LEADER", "CANDIDATE"}
                     THEN "FOLLOWER" ELSE old.state
    BY <2>2, MatchTermsIs
  <2>a. /\ j.commit_index = old.commit_index /\ j.is_changing = old.is_changing
        /\ j.match_index = old.match_index
    BY <2>2, MatchTermsIs
  <2> HIDE DEF j
  <2>7. j.current_term = 1 /\ j.state = old.state
    BY <2>2, <2>3, <2>4, <2>6
  <2>8. LInv(L)'
    BY Zenon, <1>11, <2>1, <2>3, <2>5, <2>7
  <2>9. Idle(old, j)
    BY Zenon, <2>5, <2>7, <2>a DEF Idle
  <2> QED
    BY Zenon, <1>a, <2>1, <2>8, <2>9, <2>a
<1> QED
  BY <1>12, <1>13

-----------------------------------------------------------------------------
(* A follower's log grows along the leader's                               *)

\* The worker of t is done with the request of the leader s: its log is still a
\* beginning of the leader's, and the reply says where it ends.
LEMMA ReplyLeadsOn ==
    ASSUME IInv, NEW L \in Seq(Entry), LInv(L), NEW s \in Server, NEW t \in Server,
           NEW n \in Node, NEW success \in BOOLEAN, Reply(s, t, n, success),
           NEW m, reqs[s][t] = <<m>>, replies[t][s] = << >>,
           s = redis_key, s \in Candidates, t # s,
           n.current_term = 1, n.state \in {"INIT_SERVER", "FOLLOWER"},
           n.state = "FOLLOWER" => t \notin Candidates \/ MaxTerm <= 1,
           Begins(n.log, L), n.voting = Added(n.log)
    PROVE  LInv(L)'
<1> DEFINE reply == [term |-> n.current_term, success |-> success,
                     last_log_index |-> Len(n.log)]
<1>1. /\ node \in [Server -> Node]
      /\ reqs \in [Server -> [Server -> Seq(AppendReq)]]
      /\ replies \in [Server -> [Server -> Seq(AppendReply)]]
  BY DEF IInv, NodesSane, ChannelsTyped
<1>2. /\ node' = [node EXCEPT ![t] = n]
      /\ reqs' = [reqs EXCEPT ![s][t] = Tail(@)]
      /\ replies' = IF ~IsRunning(s) THEN replies
                    ELSE [replies EXCEPT ![t][s] = Append(@, reply)]
      /\ UNCHANGED <<votes_vars, join_vars>>
  BY DEF Reply
<1>3. redis_key' = redis_key /\ vote_reqs' = vote_reqs /\ vote_replies' = vote_replies
  BY <1>2 DEF votes_vars, join_vars
<1>4. node'[t] = n /\ \A x \in Server \ {t} : node'[x] = node[x]
  BY <1>1, <1>2
<1>5. /\ reqs'[s][t] = << >>
      /\ \A x, y \in Server : <<x, y>> # <<s, t>> => /\ reqs'[x][y] = reqs[x][y]
                                                     /\ replies'[y][x] = replies[y][x]
  <2>1. Tail(<<m>>) = << >>
    OBVIOUS
  <2>2. reqs'[s][t] = << >>
    BY Zenon, <1>1, <1>2, <2>1
  <2>3. ASSUME NEW x \in Server, NEW y \in Server, <<x, y>> # <<s, t>>
        PROVE  reqs'[x][y] = reqs[x][y] /\ replies'[y][x] = replies[y][x]
    BY Zenon, <1>1, <1>2, <2>3
  <2> QED
    BY <2>2, <2>3
<1>6. n.log \in Seq(Entry) /\ Len(n.log) \in Nat
  BY DEF Node
<1>7. reply \in AppendReply /\ reply.term = 1 /\ reply.last_log_index = Len(n.log)
  BY <1>6 DEF AppendReply
<1> HIDE DEF reply
<1>8. replies'[t][s] = IF IsRunning(s) THEN <<reply>> ELSE << >>
  <2>1. Append(<< >>, reply) = <<reply>>
    OBVIOUS
  <2>2. CASE IsRunning(s)
    BY Zenon, <1>1, <1>2, <2>1, <2>2
  <2>3. CASE ~IsRunning(s)
    BY <1>2, <2>3
  <2> QED
    BY <2>2, <2>3
<1>9. PICK r \in AppendReply : r = reply
  BY <1>7
<1>10. ReplyOK(L, t, r)'
  BY Zenon, <1>4, <1>7, <1>9 DEF ReplyOK, InStep, Begins
<1>11. Begins(L, L)
  BY BeginsSelf
<1>12. ASSUME NEW x \in Server, NEW y \in Server PROVE WormholeOK(L, x, y)'
  <2>1. CASE x = s /\ y = t
    <3>1. replies'[t][s] = << >> \/ replies'[t][s] = <<r>>
      BY <1>8, <1>9
    <3> QED
      BY Zenon, <1>3, <1>5, <1>10, <2>1, <3>1 DEF WormholeOK
  <2>2. CASE x # s
    <3>1. reqs[x][y] = << >> /\ replies[y][x] = << >>
      BY Zenon, <2>2 DEF LInv, WormholeOK
    <3> QED
      BY Zenon, <1>5, <2>2, <3>1 DEF WormholeOK
  <2>3. CASE x = s /\ y # t
    <3>1. LogKept(y) /\ WormholeOK(L, x, y)
      BY Zenon, <1>4, <2>3 DEF LogKept, LInv
    <3>2. reqs'[x][y] = reqs[x][y] /\ replies'[y][x] = replies[y][x]
      BY <1>5, <2>3
    <3> QED
      BY Zenon, <1>3, <1>11, <3>1, <3>2, WormholeKept
  <2> QED
    BY <2>1, <2>2, <2>3
<1>13. ASSUME NEW x \in Server PROVE NodeOK(L, x)'
  <2>1. CASE x = t
    BY <1>3, <1>4, <2>1, BoundAssumption DEF NodeOK
  <2>2. CASE x # t
    BY Zenon, <1>3, <1>4, <1>11, <2>2, NodeKept DEF LInv
  <2> QED
    BY <2>1, <2>2
<1>14. ASSUME NEW x \in Server, IsLeader(x)' PROVE LeaderOK(L, x)'
  <2>1. x # t /\ node'[x] = node[x] /\ IsLeader(x) /\ LeaderOK(L, x)
    BY Zenon, <1>4, <1>14 DEF IsLeader, LInv
  <2>2. x = s /\ IsRunning(s)
    BY <2>1 DEF LeaderOK, IsLeader, IsRunning, Running
  <2>3. ASSUME NEW y \in node[x].servers \ {x} PROVE Knows(L, x, y)'
    <3>1. y \in Server /\ node[x].next_index[y] \in Nat /\ Knows(L, x, y)
      <4>1. node[x] \in Node
        BY <1>1
      <4>2. y \in Server /\ node[x].next_index[y] \in Nat
        BY Zenon, <4>1 DEF Node
      <4> QED
        BY Zenon, <2>1, <4>2 DEF LeaderOK
    <3>2. CASE y = t
      <4>1. <<reply>> # << >>
        OBVIOUS
      <4>2. replies'[y][x] # << >>
        BY Zenon, <1>8, <2>2, <3>2, <4>1
      <4> QED
        BY Zenon, <2>1, <3>1, <4>2 DEF Knows
    <3>3. CASE y # t
      <4>1. LogKept(y) /\ replies'[y][x] = replies[y][x]
        BY Zenon, <1>4, <1>5, <3>1, <3>3 DEF LogKept
      <4> QED
        BY Zenon, <1>11, <2>1, <3>1, <4>1, KnowsKept
    <3> QED
      BY <3>2, <3>3
  <2> QED
    BY Zenon, <1>3, <2>1, <2>3 DEF LeaderOK
<1>15. redis_key # Nil /\ node'[redis_key].state # "FOLLOWER"
  <2>1. reqs # Empty
    <3>1. <<m>> # << >> /\ Empty[s][t] = << >>
      BY DEF Empty
    <3> QED
      BY Zenon, <3>1
  <2>2. redis_key # Nil
    BY NilAssumption
  <2> QED
    BY Zenon, <1>4, <2>1, <2>2 DEF LInv, Fresh
<1> QED
  BY Zenon, <1>3, <1>12, <1>13, <1>14, <1>15 DEF LInv

\* Nothing of the log is removed.
LEMMA NothingCut ==
    ASSUME NEW n \in Node
    PROVE  LET c == RemoveEntries(n, Len(n.log)) IN
           /\ c \in Node /\ c.log = n.log /\ c.voting = n.voting
           /\ c.state = n.state /\ c.current_term = n.current_term
           /\ c.commit_index = n.commit_index /\ c.self_id = n.self_id
           /\ ~CannotAddBack(n, Len(n.log))
<1> DEFINE k == Len(n.log)
           c == RemoveEntries(n, k)
<1>1. n.log \in Seq(Entry) /\ k \in Nat /\ k \in 0..Len(n.log)
  BY DEF Node
<1>2. Cut(n, k) = << >> /\ SubSeq(n.log, 1, k) = n.log
  BY <1>1 DEF Cut
<1>3. Back(n, k) = {} /\ Gone(n, k) = {}
  BY <1>2 DEF Back, Gone, FirstIs
<1>4. ~CannotAddBack(n, k)
  BY <1>1 DEF CannotAddBack
<1>5. /\ c \in Node /\ c.log = SubSeq(n.log, 1, k)
      /\ c.voting = (n.voting \ (Back(n, k) \cup Gone(n, k))) \cup Back(n, k)
      /\ c.state = n.state /\ c.current_term = n.current_term
      /\ c.commit_index = n.commit_index /\ c.self_id = n.self_id
  BY Zenon, <1>1, RemoveEntriesIs
<1> HIDE DEF c
<1>6. c.voting = n.voting
  BY <1>3, <1>5
<1> QED
  BY Zenon, <1>2, <1>4, <1>5, <1>6 DEF c, k

\* What a follower keeps when the request begins at the end of its log: all of it.
LEMMA AllKept ==
    ASSUME NEW L \in Seq(Entry), NEW n, Sane(n), Begins(n.log, L), NEW m \in AppendReq,
           m.prev_log_index = Len(n.log) \/ n.log = << >>,
           m.prev_log_index > 0 => m.prev_log_term = L[m.prev_log_index].term
    PROVE  KeptIndex(n, m) = Len(n.log)
<1> DEFINE p == m.prev_log_index
<1>1. /\ n.commit_index \in Nat /\ n.commit_index <= Len(n.log) /\ Len(n.log) \in Nat
      /\ p \in Nat /\ n.log \in Seq(Entry)
  BY SaneTypes DEF AppendReq
<1>2. CASE n.log = << >>
  <2>1. Len(n.log) = 0
    BY <1>2
  <2> QED
    BY <1>1, <2>1 DEF KeptIndex, Matches
<1>3. CASE p = Len(n.log) /\ p > n.commit_index
  <2>1. p \in 1..Len(n.log) /\ n.log[p].term = m.prev_log_term
    BY <1>1, <1>3 DEF Begins
  <2> QED
    BY <1>3, <2>1 DEF KeptIndex, Matches
<1>4. CASE p = Len(n.log) /\ ~(p > n.commit_index)
  BY <1>1, <1>4 DEF KeptIndex
<1> QED
  BY <1>2, <1>3, <1>4

\* handle_append_entries_request: the log of a follower is never cut, and the entries
\* it appends are the ones that follow in the leader's log.
LEMMA HandleAppendEntriesRequestKept ==
    ASSUME IInv, OneLeader, NEW L \in Seq(Entry), LInv(L), NEW s \in Server, NEW t \in Server,
           HandleAppendEntriesRequest(s, t)
    PROVE  /\ LInv(L)'
           /\ node' = [node EXCEPT ![t] = node'[t]]
           /\ node'[t].state \in {"INIT_SERVER", "FOLLOWER"}
           /\ t # redis_key /\ redis_key' = redis_key
           /\ Len(node[t].log) <= Len(node'[t].log)
<1>1. /\ node \in [Server -> Node] /\ Sane(node[t]) /\ node[t] \in Node
      /\ node[t].self_id = t
      /\ reqs \in [Server -> [Server -> Seq(AppendReq)]]
      /\ replies \in [Server -> [Server -> Seq(AppendReply)]]
  BY Zenon, SaneTypes DEF IInv, NodesSane, ChannelsTyped
<1>2. reqs[s][t] # << >> /\ IsRunning(t) /\ WormholeOK(L, s, t)
  BY Zenon DEF HandleAppendEntriesRequest, LInv
<1>3. /\ s = redis_key /\ s \in Candidates /\ t # s /\ replies[t][s] = << >>
      /\ \E m \in AppendReq : reqs[s][t] = <<m>> /\ ReqOK(L, t, m)
  BY <1>2 DEF WormholeOK
<1>4. PICK m \in AppendReq : reqs[s][t] = <<m>> /\ ReqOK(L, t, m)
  BY <1>3
<1>5. Head(reqs[s][t]) = m
  BY <1>4
<1> DEFINE n == MatchTerms(node[t], m.term)
           told == SetLeader(n, s)
           cut == RemoveEntries(told, KeptIndex(n, m))
           grown == AppendEntries(cut, m.entries)
           done == IF grown.commit_index < m.leader_commit
                   THEN CommitLogEntries(grown, m.leader_commit) ELSE grown
<1>6. \/ m.term < n.current_term
      \/ CannotAddBack(n, KeptIndex(n, m))
      \/ ~Consistent(cut, m) /\ Reply(s, t, cut, FALSE)
      \/ Consistent(cut, m) /\ Reply(s, t, done, TRUE)
  BY Zenon, <1>5 DEF HandleAppendEntriesRequest
<1>7. /\ m.term = 1 /\ m.prev_log_index \in Nat /\ m.leader_commit \in Nat
      /\ m.entries \in Seq(Entry) /\ Len(m.entries) \in Nat
  BY <1>4 DEF AppendReq, ReqOK
<1>8. /\ NodeOK(L, t) /\ node[t].state \in {"INIT_SERVER", "FOLLOWER"}
  <2>1. NodeOK(L, t) /\ ~IsLeader(t)
    BY <1>3 DEF LInv, LeaderOK
  <2> QED
    BY Zenon, <1>2, <2>1 DEF NodeOK, IsLeader, IsRunning, Running
<1>9. /\ n \in Node /\ Sane(n) /\ n.log = node[t].log /\ n.voting = node[t].voting
      /\ n.state = node[t].state /\ n.current_term = 1
      /\ n.commit_index = node[t].commit_index /\ n.self_id = t
  <2> DEFINE old == node[t]
  <2>1. old \in Node /\ Sane(old)
    BY <1>1
  <2>2. old.current_term \in Nat /\ old.current_term <= 1 /\ old.state \in {"INIT_SERVER", "FOLLOWER"}
    BY Zenon, <1>1, <1>8 DEF Node, NodeOK
  <2> HIDE DEF old
  <2> DEFINE j == MatchTerms(old, 1)
  <2>3. /\ j \in Node /\ j.log = old.log /\ j.voting = old.voting
        /\ j.current_term = IF 1 > old.current_term THEN 1 ELSE old.current_term
        /\ j.state = IF 1 > old.current_term /\ old.state \in {"LEADER", "CANDIDATE"}
                     THEN "FOLLOWER" ELSE old.state
        /\ j.commit_index = old.commit_index /\ j.self_id = old.self_id
    BY Zenon, <2>1, MatchTermsIs
  <2>4. Sane(j)
    BY <2>1, MatchTermsFollows DEF Follows
  <2> HIDE DEF j
  <2>5. j.current_term = 1 /\ j.state = old.state
    BY <2>2, <2>3
  <2>6. n = j
    BY <1>7 DEF j, old
  <2> QED
    BY Zenon, <1>1, <2>3, <2>4, <2>5, <2>6 DEF old
<1> HIDE DEF n
<1>10. KeptIndex(n, m) = Len(n.log)
  BY Zenon, <1>4, <1>8, <1>9, AllKept DEF ReqOK, InStep, NodeOK
<1>11. ~(m.term < n.current_term) /\ ~CannotAddBack(n, KeptIndex(n, m))
  BY <1>7, <1>9, <1>10, NothingCut
<1>12. /\ told \in Node /\ told.log = n.log /\ told.voting = n.voting /\ told.state = n.state
       /\ told.current_term = n.current_term /\ told.commit_index = n.commit_index
       /\ told.self_id = n.self_id
  BY Zenon, <1>9, SetLeaderIs
<1> HIDE DEF told
<1>13. /\ cut \in Node /\ cut.log = told.log /\ cut.voting = told.voting
       /\ cut.state = told.state /\ cut.current_term = told.current_term
       /\ cut.commit_index = told.commit_index /\ cut.self_id = told.self_id
  <2>1. told \in Node /\ cut = RemoveEntries(told, Len(told.log))
    BY Zenon, <1>10, <1>12
  <2> HIDE DEF cut
  <2> DEFINE c == RemoveEntries(told, Len(told.log))
  <2>2. /\ c \in Node /\ c.log = told.log /\ c.voting = told.voting
        /\ c.state = told.state /\ c.current_term = told.current_term
        /\ c.commit_index = told.commit_index /\ c.self_id = told.self_id
    BY Zenon, <2>1, NothingCut
  <2> QED
    BY Zenon, <2>1, <2>2
<1> HIDE DEF cut
<1>14. /\ cut.log = node[t].log /\ cut.voting = node[t].voting
       /\ cut.state \in {"INIT_SERVER", "FOLLOWER"} /\ cut.current_term = 1
       /\ cut.log \in Seq(Entry) /\ Begins(cut.log, L) /\ cut.voting = Added(cut.log)
       /\ cut.commit_index <= Len(cut.log) /\ cut.commit_index \in Nat
  <2>1. node[t].log \in Seq(Entry) /\ n.commit_index <= Len(n.log) /\ n.commit_index \in Nat
    BY Zenon, <1>1, <1>9, SaneTypes
  <2> QED
    BY Zenon, <1>8, <1>9, <1>12, <1>13, <2>1 DEF NodeOK
<1>15. t \notin Candidates \/ MaxTerm <= 1
  BY <1>3 DEF OneLeader
<1>16. CASE ~Consistent(cut, m) /\ Reply(s, t, cut, FALSE)
  <2>1. LInv(L)'
    BY Zenon, <1>3, <1>4, <1>13, <1>14, <1>15, <1>16, ReplyLeadsOn
  <2>2. node'[t] = cut /\ node' = [node EXCEPT ![t] = node'[t]]
    BY Zenon, <1>1, <1>16 DEF Reply
  <2>3. redis_key' = redis_key
    BY Zenon, <1>16 DEF Reply, join_vars
  <2>4. Len(node[t].log) <= Len(node'[t].log)
    BY <1>14, <2>2
  <2> QED
    BY Zenon, <1>3, <1>14, <2>1, <2>2, <2>3, <2>4
<1>17. CASE Consistent(cut, m) /\ Reply(s, t, done, TRUE)
  <2>1. m.prev_log_index = Len(cut.log)
    <3>1. CASE cut.log = << >>
      <4>1. Len(cut.log) = 0
        BY <3>1
      <4> QED
        BY <1>17, <4>1 DEF Consistent, Matches
    <3>2. CASE cut.log # << >>
      BY Zenon, <1>4, <1>14, <3>2 DEF ReqOK, InStep
    <3> QED
      BY <3>1, <3>2
  <2> DEFINE es == m.entries
  <2>2. /\ es \in Seq(Entry) /\ Len(cut.log) + Len(es) <= Len(L)
        /\ \A k \in 1..Len(es) : es[k] = L[Len(cut.log) + k]
    BY Zenon, <1>4, <1>7, <2>1 DEF ReqOK
  <2>3. Proper(es)
    <3>1. Proper(L)
      BY DEF LInv
    <3>2. DOMAIN L = 1..Len(L) /\ DOMAIN es = 1..Len(es) /\ Len(cut.log) \in Nat
      BY <1>7, <1>14
    <3>3. \A k \in 1..Len(es) : Len(cut.log) + k \in DOMAIN L
      <4> DEFINE c == Len(cut.log)
                 d == Len(es)
      <4>1. c \in Nat /\ d \in Nat /\ Len(L) \in Nat
        BY <1>7, <3>2
      <4>0. c + d <= Len(L)
        BY Zenon, <2>2
      <4> HIDE DEF c, d
      <4>2. \A k \in 1..d : c + k \in 1..Len(L)
        BY <4>0, <4>1
      <4> QED
        BY <3>2, <4>2 DEF c, d
    <3>4. Settled(es)
      BY Zenon, <2>2, <3>1, <3>2, SettledStretch DEF Proper
    <3> QED
      BY Zenon, <2>2, <3>1, <3>2, <3>3, <3>4 DEF Proper
  <2> HIDE DEF es
  <2> DEFINE g == AppendEntries(cut, es)
             X == Deleted(es) \cup Anew(cut, es)
  <2>4. /\ g \in Node /\ g.log = cut.log \o es
        /\ g.voting = (cut.voting \ X) \cup Added(es)
        /\ g.state = cut.state /\ g.current_term = cut.current_term
        /\ g.commit_index = cut.commit_index
    BY Zenon, <1>13, <2>2, AppendEntriesIs
  <2>5. Begins(cut.log \o es, L)
    BY Zenon, <1>14, <2>2, BeginsGrown
  <2>6. Added(cut.log \o es) = (Added(cut.log) \ X) \cup Added(es)
    <3>1. Anew(cut, es) \in SUBSET Added(es)
      BY DEF Anew
    <3> QED
      BY <1>14, <2>2, <2>3, <3>1, AddedAppended
  <2> HIDE DEF g
  <2>7. Begins(g.log, L) /\ g.voting = Added(g.log)
    BY Zenon, <1>14, <2>4, <2>5, <2>6
  <2>8. g.commit_index <= Len(g.log)
    <3>1. Len(cut.log \o es) = Len(cut.log) + Len(es) /\ Len(es) \in Nat /\ Len(cut.log) \in Nat
      BY <1>14, <2>2
    <3> QED
      BY <1>14, <2>4, <3>1
  <2>a. Len(node[t].log) <= Len(g.log)
    <3>1. Len(cut.log \o es) = Len(cut.log) + Len(es) /\ Len(es) \in Nat /\ Len(cut.log) \in Nat
      BY <1>14, <2>2
    <3> QED
      BY <1>14, <2>4, <3>1
  <2>9. grown = g
    BY DEF g, es
  <2> HIDE DEF grown
  <2> DEFINE c == CommitLogEntries(g, m.leader_commit)
  <2>10. /\ c \in Node /\ c.log = g.log /\ c.voting = g.voting
         /\ c.current_term = g.current_term
    BY Zenon, <1>7, <2>4, <2>8, CommitLogEntriesIs
  <2>11. c.state \in {"FOLLOWER", g.state}
    BY Zenon, <1>7, <2>4, <2>8, CommitLogEntriesIs
  <2>12. done = g \/ done = c
    BY <2>9
  <2> HIDE DEF c, done
  <2>13. /\ done \in Node /\ done.current_term = 1 /\ done.state \in {"INIT_SERVER", "FOLLOWER"}
         /\ Begins(done.log, L) /\ done.voting = Added(done.log)
    BY Zenon, <1>14, <2>4, <2>7, <2>10, <2>11, <2>12
  <2>14. LInv(L)'
    BY Zenon, <1>3, <1>4, <1>15, <1>17, <2>13, ReplyLeadsOn
  <2>15. node'[t] = done /\ node' = [node EXCEPT ![t] = node'[t]]
    BY Zenon, <1>1, <1>17 DEF Reply
  <2>16. redis_key' = redis_key
    BY Zenon, <1>17 DEF Reply, join_vars
  <2>17. Len(node[t].log) <= Len(node'[t].log)
    BY Zenon, <2>a, <2>10, <2>12, <2>15
  <2> QED
    BY Zenon, <1>3, <2>13, <2>14, <2>15, <2>16, <2>17
<1> QED
  BY Zenon, <1>6, <1>11, <1>16, <1>17
=============================================================================
