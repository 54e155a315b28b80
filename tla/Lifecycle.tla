----------------------------- MODULE Lifecycle -----------------------------
(* The life of an xApp that links the library: rft_init, the thread that runs
   trigger_election_timeout, and rft_shutdown (src/src/rft.c), with the key in Redis
   (src/src/static/redis.c) that says whom a new xApp has to ask.

   Each server has three threads here: the election thread, the worker that handles
   messages, and the thread of the xApp that calls rft_shutdown.  They meet in me.state,
   in the condition variable follower_cond and in ok2run.  Logs are left out (module
   Raft has them): a vote may be refused for no reason seen here, and joining a cluster
   is one step of a leader that has a majority. *)
EXTENDS Naturals, FiniteSets

CONSTANTS
    Server,
    NULL,          \* no server
    Stops,         \* the servers whose xApp may call rft_shutdown
    Faulty,        \* the servers that may be killed
    MaxTerm,       \* bound: terms
    MaxTries,      \* bound: rounds of send_membership_request before its 20 seconds are over
    MaxStarts,     \* bound: processes started
    MaxClusters    \* bound: clusters bootstrapped

ASSUME NULLAssumption == NULL \notin Server

VARIABLES
    key,        \* the server whose endpoint Redis holds
    watch,      \* what a server's WATCH has seen: "no", "clean" or "dirty"
    members,    \* the raft configuration of each cluster
    starts,     \* processes started so far
    state,      \* me.state, or "DOWN" without a process
    term,       \* me.current_term
    voted_for,
    cluster,    \* the cluster the server is in, 0 for none
    election,   \* where the election thread is
    target,     \* the endpoint send_membership_request is connected to
    asked,      \* whom a membership request is on its way to
    tries,      \* rounds of send_membership_request
    worker,     \* does the worker still take messages?
    shutdown    \* where rft_shutdown is, "no" before the call (ok2run = 1)

redis == <<key, watch>>
raft == <<state, term, voted_for, cluster>>
joining == <<target, asked, tries>>
vars == <<redis, members, starts, raft, election, joining, worker, shutdown>>

Clusters == 1..MaxClusters
Up(s) == state[s] # "DOWN"
Ok2run(s) == shutdown[s] = "no"

\* rft_shutdown deletes the key under raft_state_lock
LockedByShutdown(s) == shutdown[s] \in {"watch", "get", "exec"}

Majority(Q, c) == 2 * Cardinality(Q) > Cardinality(members[c])

\* a majority of the leader's cluster follows it
HasQuorum(l) ==
    Majority({v \in members[cluster[l]] : cluster[v] = cluster[l] /\ worker[v] /\ term[v] <= term[l]},
             cluster[l])

-----------------------------------------------------------------------------
(* Redis *)

Touched(w) == [s \in Server |-> IF w[s] = "clean" THEN "dirty" ELSE w[s]]

\* redis_sync_set_key
SetKey(s) ==
    /\ key' = s
    /\ watch' = Touched(watch)

\* redis_sync_set_if_no_key
SetIfNoKey(s) ==
    /\ key = NULL
    /\ SetKey(s)

-----------------------------------------------------------------------------
(* follower_cond, on which the election thread and rft_shutdown wait; the election thread
   then sets a new election timeout and is back at the top of its loop *)

\* pthread_cond_signal wakes one waiting thread; with none, nothing happens
SignalFollower(s) ==
    \/ /\ election[s] = "wait"
       /\ election' = [election EXCEPT ![s] = "top"]
       /\ UNCHANGED shutdown
    \/ /\ shutdown[s] = "wait"
       /\ shutdown' = [shutdown EXCEPT ![s] = "lock"]
       /\ UNCHANGED election
    \/ /\ election[s] # "wait"
       /\ shutdown[s] # "wait"
       /\ UNCHANGED <<election, shutdown>>

BecomeFollower(s) ==
    /\ state' = [state EXCEPT ![s] = "FOLLOWER"]
    /\ SignalFollower(s)

-----------------------------------------------------------------------------
(* the process *)

Fresh(s, st, thread) ==
    /\ state' = [state EXCEPT ![s] = st]
    /\ term' = [term EXCEPT ![s] = 0]
    /\ voted_for' = [voted_for EXCEPT ![s] = NULL]
    /\ cluster' = [cluster EXCEPT ![s] = 0]
    /\ election' = [election EXCEPT ![s] = thread]
    /\ target' = [target EXCEPT ![s] = NULL]
    /\ asked' = [asked EXCEPT ![s] = NULL]
    /\ tries' = [tries EXCEPT ![s] = 0]
    /\ worker' = [worker EXCEPT ![s] = thread # "none"]
    /\ shutdown' = [shutdown EXCEPT ![s] = "no"]
    /\ watch' = [watch EXCEPT ![s] = "no"]
    /\ UNCHANGED <<key, members>>

\* rft_init starts the threads
Start(s) ==
    /\ ~Up(s)
    /\ starts < MaxStarts
    /\ starts' = starts + 1
    /\ Fresh(s, "INIT_SERVER", "top")

\* the process is killed, or ends after rft_shutdown
Crash(s) ==
    /\ Up(s)
    /\ s \in Faulty \/ shutdown[s] = "done"
    /\ UNCHANGED starts
    /\ Fresh(s, "DOWN", "none")

-----------------------------------------------------------------------------
(* the election thread *)

\* The loop ends, or reads me.state under raft_state_lock and goes to the case of it.
\* A follower only leaves its case with an election (BecomeCandidate).
Loop(s) ==
    /\ election[s] = "top"
    /\ \/ /\ ~Ok2run(s)
          /\ election' = [election EXCEPT ![s] = "end"]
       \/ /\ Ok2run(s)
          /\ state[s] \in {"LEADER", "INIT_SERVER"}
          /\ election' = [election EXCEPT ![s] = IF state[s] = "LEADER" THEN "connect" ELSE "init"]
    /\ UNCHANGED <<redis, members, starts, raft, joining, worker, shutdown>>

\* bootstrap_rft_cluster: whoever sets the key is a cluster of its own and a follower in
\* it; everyone else goes on to send_membership_request
Bootstrap(s) ==
    /\ election[s] = "init"
    /\ \/ \E c \in Clusters :
             /\ members[c] = {}
             /\ \A d \in 1..(c - 1) : members[d] # {}
             /\ SetIfNoKey(s)
             /\ members' = [members EXCEPT ![c] = {s}]
             /\ cluster' = [cluster EXCEPT ![s] = c]
             /\ state' = [state EXCEPT ![s] = "FOLLOWER"]
             /\ election' = [election EXCEPT ![s] = "top"]
             /\ UNCHANGED <<term, voted_for, shutdown>>
       \/ /\ key # NULL
          /\ election' = [election EXCEPT ![s] = "discover"]
          /\ UNCHANGED <<redis, members, raft, shutdown>>
    /\ UNCHANGED <<starts, joining, worker>>

\* One round of send_membership_request: the test of its loop, which reads neither ok2run
\* nor the key of a cluster that is gone, and the GET of the key.
Discover(s) ==
    /\ election[s] = "discover"
    /\ IF state[s] # "INIT_SERVER"
       THEN /\ election' = [election EXCEPT ![s] = "top"]
            /\ target' = [target EXCEPT ![s] = NULL]
            /\ tries' = [tries EXCEPT ![s] = 0]
       ELSE /\ election' = [election EXCEPT ![s] = "ask"]
            /\ target' = [target EXCEPT ![s] = IF key # NULL THEN key ELSE @]
            /\ UNCHANGED tries
    /\ UNCHANGED <<redis, members, starts, raft, asked, worker, shutdown>>

\* ... the request over the wormhole, if it is connected, and the wait
Ask(s) ==
    /\ election[s] = "ask"
    /\ tries[s] < MaxTries
    /\ tries' = [tries EXCEPT ![s] = @ + 1]
    /\ election' = [election EXCEPT ![s] = "discover"]
    /\ asked' = [asked EXCEPT ![s] =
                    IF state[s] = "INIT_SERVER" /\ target[s] # NULL /\ state[target[s]] # "DOWN"
                    THEN target[s] ELSE @]
    /\ UNCHANGED <<redis, members, starts, raft, target, worker, shutdown>>

\* The stop timer, left out.
GiveUpNever(s) ==
    /\ FALSE
    /\ UNCHANGED vars

\* ... and its end: the process exits when the 20 seconds are over
GiveUp(s) ==
    /\ election[s] = "ask"
    /\ UNCHANGED starts
    /\ Fresh(s, "DOWN", "none")

\* become_candidate, and each further round of its loop: with the vote of s alone it may be
\* leader at once, otherwise it waits on raft_state_cond for the votes
BecomeCandidate(s) ==
    /\ \/ election[s] = "top" /\ Ok2run(s) /\ state[s] = "FOLLOWER"
       \/ election[s] = "candidate" /\ state[s] = "CANDIDATE"
    /\ ~LockedByShutdown(s)
    /\ term[s] < MaxTerm
    /\ term' = [term EXCEPT ![s] = @ + 1]
    /\ voted_for' = [voted_for EXCEPT ![s] = s]
    /\ IF Majority({s}, cluster[s])
       THEN /\ state' = [state EXCEPT ![s] = "LEADER"]
            /\ election' = [election EXCEPT ![s] = "top"]
       ELSE /\ state' = [state EXCEPT ![s] = "CANDIDATE"]
            /\ election' = [election EXCEPT ![s] = "candidate"]
    /\ UNCHANGED <<redis, members, starts, cluster, joining, worker, shutdown>>

\* the loop of become_candidate, which does not read ok2run, ends
CandidateEnds(s) ==
    /\ election[s] = "candidate"
    /\ state[s] # "CANDIDATE"
    /\ ~LockedByShutdown(s)
    /\ election' = [election EXCEPT ![s] = "top"]
    /\ UNCHANGED <<redis, members, starts, raft, joining, worker, shutdown>>

\* the case of a leader: it puts its endpoint into the key ...
SetLeaderKey(s) ==
    /\ election[s] = "connect"
    /\ SetKey(s)
    /\ election' = [election EXCEPT ![s] = "sleep"]
    /\ UNCHANGED <<members, starts, raft, joining, worker, shutdown>>

\* ... and waits for follower_cond, whatever me.state is by now
WaitFollower(s) ==
    /\ election[s] = "sleep"
    /\ election' = [election EXCEPT ![s] = "wait"]
    /\ UNCHANGED <<redis, members, starts, raft, joining, worker, shutdown>>

\* pthread_cond_wait may return without a signal
SpuriousWakeUp(s) ==
    /\ election[s] = "wait"
    /\ election' = [election EXCEPT ![s] = "top"]
    /\ UNCHANGED <<redis, members, starts, raft, joining, worker, shutdown>>

-----------------------------------------------------------------------------
(* the worker: a message that arrives after ok2run was reset is the last it handles *)

TakesMessage(s) ==
    /\ worker[s]
    /\ ~LockedByShutdown(s)
    /\ worker' = [worker EXCEPT ![s] = Ok2run(s)]

\* match_terms
MatchTerms(s, t) ==
    /\ term' = [term EXCEPT ![s] = t]
    /\ IF state[s] \in {"LEADER", "CANDIDATE"}
       THEN BecomeFollower(s)
       ELSE UNCHANGED <<state, election, shutdown>>

\* handle_vote_request, with the test of the logs left open
HandleVoteRequest(s, c) ==
    /\ state[c] = "CANDIDATE"
    /\ s \in members[cluster[c]]
    /\ cluster[s] = cluster[c]
    /\ TakesMessage(s)
    /\ \/ /\ term[s] < term[c]
          /\ MatchTerms(s, term[c])
          /\ \E v \in {c, NULL} : voted_for' = [voted_for EXCEPT ![s] = v]
       \/ /\ term[s] = term[c]
          /\ voted_for[s] = NULL
          /\ voted_for' = [voted_for EXCEPT ![s] = c]
          /\ UNCHANGED <<term, state, election, shutdown>>
    /\ UNCHANGED <<redis, members, starts, cluster, joining>>

\* handle_vote_reply: the last vote that was missing
HandleVoteReply(s) ==
    /\ state[s] = "CANDIDATE"
    /\ Majority({v \in members[cluster[s]] : voted_for[v] = s /\ term[v] = term[s] /\ cluster[v] = cluster[s]},
                cluster[s])
    /\ TakesMessage(s)
    /\ state' = [state EXCEPT ![s] = "LEADER"]
    /\ UNCHANGED <<redis, members, starts, term, voted_for, cluster, election, joining, shutdown>>

\* A request of leader l, whose raft_server threads run until ok2run is reset.  A candidate
\* of l's term stays one: handle_append_entries_request leaves the state to match_terms.
HandleAppendEntriesRequest(s, l) ==
    /\ state[l] = "LEADER"
    /\ Ok2run(l)
    /\ cluster[s] = cluster[l]
    /\ TakesMessage(s)
    /\ \/ /\ term[s] < term[l]
          /\ MatchTerms(s, term[l])
          /\ voted_for' = [voted_for EXCEPT ![s] = NULL]
       \/ /\ term[s] >= term[l]
          /\ UNCHANGED <<term, voted_for, state, election, shutdown>>
    /\ UNCHANGED <<redis, members, starts, cluster, joining>>

\* handle_membership_request of leader l, the replication to s that follows, and the end of
\* it in s: with ADD_MEMBER of itself applied, s becomes a follower.  A server that was a
\* member before it restarted is sent the entries without asking.
JoinCluster(s, l) ==
    /\ state[s] = "INIT_SERVER"
    /\ state[l] = "LEADER"
    /\ asked[s] = l \/ s \in members[cluster[l]]
    /\ Ok2run(l)
    /\ worker[l]
    /\ HasQuorum(l)
    /\ TakesMessage(s)
    /\ members' = [members EXCEPT ![cluster[l]] = @ \union {s}]
    /\ cluster' = [cluster EXCEPT ![s] = cluster[l]]
    /\ term' = [term EXCEPT ![s] = term[l]]
    /\ asked' = [asked EXCEPT ![s] = NULL]
    /\ BecomeFollower(s)
    /\ UNCHANGED <<redis, starts, voted_for, target, tries>>

-----------------------------------------------------------------------------
(* rft_shutdown *)

\* ok2run = 0; a leader waits for a follower to take over
BeginShutdown(s) ==
    /\ s \in Stops
    /\ Up(s)
    /\ shutdown[s] = "no"
    /\ shutdown' = [shutdown EXCEPT ![s] = IF state[s] = "LEADER" THEN "wait" ELSE "signal"]
    /\ UNCHANGED <<redis, members, starts, raft, election, joining, worker>>

\* The wait without the timeout.
WaitTimeoutNever(s) ==
    /\ FALSE
    /\ UNCHANGED vars

\* ... for two election timeouts
WaitTimeout(s) ==
    /\ shutdown[s] = "wait"
    /\ shutdown' = [shutdown EXCEPT ![s] = "lock"]
    /\ UNCHANGED <<redis, members, starts, raft, election, joining, worker>>

\* still leader under raft_state_lock?
LockState(s) ==
    /\ shutdown[s] = "lock"
    /\ shutdown' = [shutdown EXCEPT ![s] =
                       IF state[s] = "LEADER" /\ s \in members[cluster[s]] THEN "watch" ELSE "signal"]
    /\ UNCHANGED <<redis, members, starts, raft, election, joining, worker>>

\* redis_sync_safe_ep_del: WATCH ...
Watch(s) ==
    /\ shutdown[s] = "watch"
    /\ shutdown' = [shutdown EXCEPT ![s] = "get"]
    /\ watch' = [watch EXCEPT ![s] = "clean"]
    /\ UNCHANGED <<key, members, starts, raft, election, joining, worker>>

\* ... GET: nothing to do, and the WATCH ends, if the key holds another endpoint or none ...
GetKey(s) ==
    /\ shutdown[s] = "get"
    /\ IF key = s
       THEN /\ shutdown' = [shutdown EXCEPT ![s] = "exec"]
            /\ UNCHANGED watch
       ELSE /\ shutdown' = [shutdown EXCEPT ![s] = "signal"]
            /\ watch' = [watch EXCEPT ![s] = "no"]
    /\ UNCHANGED <<key, members, starts, raft, election, joining, worker>>

\* The same without the test of the WATCH: a plain DEL.
DeleteKeyUnwatched(s) ==
    /\ shutdown[s] = "exec"
    /\ key' = NULL
    /\ shutdown' = [shutdown EXCEPT ![s] = "signal"]
    /\ watch' = [Touched(watch) EXCEPT ![s] = "no"]
    /\ UNCHANGED <<members, starts, raft, election, joining, worker>>

\* ... MULTI, DEL, EXEC: the deletion happens only if nobody has written the key since
DeleteKey(s) ==
    /\ shutdown[s] = "exec"
    /\ IF watch[s] = "clean"
       THEN /\ key' = NULL
            /\ watch' = [Touched(watch) EXCEPT ![s] = "no"]
       ELSE /\ watch' = [watch EXCEPT ![s] = "no"]
            /\ UNCHANGED key
    /\ shutdown' = [shutdown EXCEPT ![s] = "signal"]
    /\ UNCHANGED <<members, starts, raft, election, joining, worker>>

\* the signals to the threads, and free( binfo )
EndShutdown(s) ==
    /\ shutdown[s] = "signal"
    /\ shutdown' = [shutdown EXCEPT ![s] = "done"]
    /\ election' = [election EXCEPT ![s] = IF @ = "wait" THEN "top" ELSE @]
    /\ UNCHANGED <<redis, members, starts, raft, joining, worker>>

-----------------------------------------------------------------------------
ElectionThread(s) ==
    \/ Loop(s)
    \/ Bootstrap(s)
    \/ Discover(s)
    \/ Ask(s)
    \/ GiveUp(s)
    \/ BecomeCandidate(s)
    \/ CandidateEnds(s)
    \/ SetLeaderKey(s)
    \/ WaitFollower(s)

Worker(s) ==
    \/ HandleVoteReply(s)
    \/ \E x \in Server :
          \/ HandleVoteRequest(s, x)
          \/ HandleAppendEntriesRequest(s, x)
          \/ JoinCluster(s, x)

Shutdown(s) ==
    \/ WaitTimeout(s)
    \/ LockState(s)
    \/ Watch(s)
    \/ GetKey(s)
    \/ DeleteKey(s)
    \/ EndShutdown(s)

Next == \E s \in Server :
    \/ Start(s)
    \/ Crash(s)
    \/ ElectionThread(s)
    \/ SpuriousWakeUp(s)
    \/ Worker(s)
    \/ BeginShutdown(s)
    \/ Shutdown(s)

Init ==
    /\ key = NULL
    /\ watch = [s \in Server |-> "no"]
    /\ members = [c \in Clusters |-> {}]
    /\ starts = 0
    /\ state = [s \in Server |-> "DOWN"]
    /\ term = [s \in Server |-> 0]
    /\ voted_for = [s \in Server |-> NULL]
    /\ cluster = [s \in Server |-> 0]
    /\ election = [s \in Server |-> "none"]
    /\ target = [s \in Server |-> NULL]
    /\ asked = [s \in Server |-> NULL]
    /\ tries = [s \in Server |-> 0]
    /\ worker = [s \in Server |-> FALSE]
    /\ shutdown = [s \in Server |-> "no"]

\* Each thread runs; a message may stay on its way for ever.
Fairness == \A s \in Server : WF_vars(ElectionThread(s)) /\ WF_vars(Shutdown(s))

Spec == Init /\ [][Next]_vars /\ Fairness

-----------------------------------------------------------------------------
\* Once the GET of redis_sync_safe_ep_del has found the server's own endpoint, the key holds it
\* for as long as the WATCH has seen no write.
WatchedKey ==
    /\ watch \in [Server -> {"no", "clean", "dirty"}]
    /\ shutdown \in [Server -> {"no", "wait", "lock", "watch", "get", "exec", "signal", "done"}]
    /\ \A s \in Server : shutdown[s] = "exec" /\ watch[s] = "clean" => key = s

\* The transaction of redis_sync_safe_ep_del: rft_shutdown only ever deletes the key while it
\* holds the endpoint of the server that shuts down, also when a new leader sets the key
\* between the GET and the EXEC of the old one.
KeyDeletedByOwner == [][key # NULL /\ key' = NULL => shutdown[key] = "exec"]_vars

\* An xApp that starts gets somewhere: it bootstraps a cluster, joins one, or exits within the
\* 20 seconds of send_membership_request, also when the server the key names is dead, is not
\* the leader, or deletes the key.  Only a shutdown before that ends the thread first.
StartEnds ==
    \A s \in Server : state[s] = "INIT_SERVER" ~> (state[s] # "INIT_SERVER" \/ election[s] = "end")

\* rft_shutdown returns, also in a leader nobody takes over from and in one whose
\* election thread takes the signal rft_shutdown waits for.
ShutdownReturns == \A s \in Server : shutdown[s] # "no" ~> (shutdown[s] = "done" \/ ~Up(s))

\* "just stops running this thread and waits for a signal originated when it became
\* follower" (src/src/rft.c:2035): the election thread of a follower does not go on waiting.
ElectionThreadWakes ==
    \A s \in Server :
        (state[s] = "FOLLOWER" /\ election[s] = "wait") ~> (state[s] # "FOLLOWER" \/ election[s] # "wait")

\* The server that sets the key "will become the leader as no other replica was able to set
\* that key before" (src/src/rft.c:239): all servers are in one cluster.
OneCluster == \A s, t \in Server : 0 \in {cluster[s], cluster[t]} \/ cluster[s] = cluster[t]

\* "set myself as the leader to allow new xApps join the cluster" (src/src/rft.c:2041): if a
\* server stays the only leader, the key comes to name it.
KeyNamesLeader ==
    \A s \in Server :
        <>[](state[s] = "LEADER" /\ Ok2run(s) /\ \A t \in Server \ {s} : state[t] # "LEADER")
            => <>[](key = s)

\* "controls if all run loops should keep running" (src/src/rft.c:136): no thread is in a use of
\* binfo when rft_shutdown has freed it.
BinfoInUse ==
    \A s \in Server : shutdown[s] = "done" => election[s] \notin {"init", "discover", "ask", "connect"}
=============================================================================
