# A verification of RFT

RFT makes xApps fault tolerant: a Raft cluster agrees on who its members are,
and each xApp, the primary of its own state, replicates that state
asynchronously to other members. This directory holds TLA+ modules of the
library (`src/src`), model-checked with TLC on small instances and, in part,
proved with TLAPS for all instances.

## The system

Every process runs these threads over one `raft_state_t me` (`rft.c`):

| thread | what it does | lock |
|---|---|---|
| xApp threads | `rft_enqueue_msg` puts received messages in the ring of tasks; `rft_replicate` logs and applies a command; `rft_shutdown` | `wlock`, `raft_state_lock` |
| worker | takes a message from the ring and runs its handler | `raft_state_lock` |
| election thread (`trigger_election_timeout`) | bootstraps or asks to join, starts elections, as leader writes the Redis key and sleeps | `raft_state_lock` |
| one `raft_server` thread per other member | while leader: sends APPEND_ENTRIES at every heartbeat, ends catch-ups, removes silent members | `raft_state_lock`, `index_lock` |
| snapshot threads (`snapshot.c`) | read a snapshot from a forked child and compact the log | `raft_snapshot_lock`, `raft_log_lock` |
| `state_replication` | sends the xApp's log, or a snapshot of its state, to its replicas | `replica_lock` |

All state is in memory. The raft log carries NOOPs and ADD/DEL_MEMBER commands
only; it is kept in a ring (`logring.c`) with an offset, compacted after
snapshots. The configuration (`config.c`) is an array of `server_t` with voting
status, `next_index` and `match_index`; it changes when a command is
*appended*. RMR carries messages: VOTE_REQ through the routing table to all
xApps, APPEND_ENTRIES on one wormhole per member, replies back to the sender.
Redis holds one key, the server new xApps ask to join.

What is hard here: votes and terms that do not survive a restart; entries sent
again to a follower that already has them (there is no comparison of indexes
when appending); a follower that cuts its log back to its commit index at
every mismatch; configuration changes that must be undone; flags
(`is_changing`) that do not move with leadership; compaction, entry by entry,
between appends and cuts; snapshots of a forked child that are labelled, sent
and installed while both logs move on; a lock given up inside the loop over the
replicas; three locks and a fourth taken in two orders; condition variables
signalled once, two threads waiting on one; a key in Redis that leaders, new
xApps and a leader that leaves write without agreement.

`PROJECT.json` lists the parts of the system ("components"), the places where
it is exposed ("hazards") with the properties that cover them, and for every
definition the source lines it models ("map").

## Modules

| module | models | state |
|---|---|---|
| `Election` | leader election over a fixed set of voting members | role, term, vote, votes counted and sent |
| `RaftNode` | one server as a record and what the code does to it: `config.c` and `log.c` as operators, `match_terms`, `become_leader`, commit and apply | none |
| `Raft` | a cluster: one action per critical section of a thread, messages, joins, crashes | a `RaftNode` record per server, messages under way, the Redis key |
| `RaftRefinement` | a formed cluster, and that `Raft` implements `Election` there | |
| `RaftLog` | `logring.c`, the operations of `log.c` on it, the compaction thread | the ring, its offsets, the progress of snapshot and thread |
| `LogSpec` | what `RaftLog` implements: a bounded sequence with a base | |
| `RingBuf` | `ringbuf.c` as `rft.c` uses it: several producers, the blocking worker | head, tail, cells, `cond_th`, where each thread is |
| `Queue` | what `RingBuf` implements: a bounded FIFO queue | |
| `RaftSnapshot` | snapshots sent to a server that is behind, composed with the two logs (`snapshot.c`, `config.c:734-823`, `send_raft_snapshot`, its handlers) | a log with snapshot and configuration at the leader and at the server, messages |
| `Replication` | the replication of an xApp's state: `rft_replicate`, `state_replication`, the handlers, the xApp log and its snapshots, the array of members and the choice of replicas | the primary's log, tables and threads; index and state of each backup; messages |
| `HashTable` | `hashtable.c`, used by `Replication` | none |
| `Lifecycle` | start, election thread and shutdown of each xApp, and the key in Redis | the key, WATCHes, where each thread is, role, term and vote |
| `MC*` | the instances TLC checks | |
| `ElectionProofs`, `RaftLogProofs`, `ReplicationProofs` | theorems on the module of that name | |
| `ProcessProofs` | theorems on `RingBuf` and on `Lifecycle` (as `Life`) | |
| `RaftProofs`, `RaftSequenceProofs`, `RaftMembershipProofs` | theorems on `Raft`, each module extending the one before | |
| `RaftElectionProofs` | theorems on `Raft` and `Election`, extending `RaftProofs` | |

Names are those of the code where TLA+ allows. Operators marked "Mutant" are
faulty variants of the definition below them; each property is confirmed to
fail when one replaces the original.

### Correspondence

*Election, Raft.* A handler runs under `raft_state_lock` from start to end and
is one action. `become_candidate` is one action per round of its loop. A round
of a `raft_server` thread up to its sleep is `SendAppendEntries`; preparing a
request (under `index_lock`) and sending it are one step. `CaughtUp`,
`HeartbeatTimeout` and `GiveUp` are the places where the thread appends a
command. `state` has two values the code has not: "DOWN" (the process has
ended, also by a fatal error) and "HUNG" (it waits for a lock it holds). The
clock is left open: a timeout may expire whenever the code waits for one, and
`timed_out` of `handle_vote_request` is either. `replica_servers`, which commits
refresh, is read by no raft action and left out. Entries have no index field:
their position is their index, which `append_log_entry` sets.

*Messages.* Vote messages that were sent may be handled late, again, or never.
A wormhole keeps order; its requests and replies are lost where a run says so
(`Lossy`), or when a process is not running. With `MaxInFlight = 1` a reply
arrives within a heartbeat.

*RaftLog.* `raft_log_lock` is held within one action, except that
`check_raft_log_consistency` may wait for `raft_snapshot_lock` while holding it
(`worker = "waiting"`). The compaction thread takes one step to read the
snapshot and one per entry. Sizes are powers of two, so `& mask` is `% Size`.
`commit_index` and `last_applied` advance together and are one variable.

*RingBuf.* Every access to `head` and `tail` is a step, in program order; a
critical section of `cond_lock` is one step. The width of the indexes is the
constant `Width`.

*RaftSnapshot.* The leader and one server `f` that joins with an empty log. The
other members follow at once; `NewLeader` is one of them taking over with the
same log and any snapshot it may have: of what was committed, with the configuration
of all that was in its log when it was taken, `f` included. `committed` is the highest index a leader has committed. `take_raft_snapshot` (the child's copy is
`pipe`) is part of the append that triggers it; reading the pipe and compacting
is one step, as is preparing and sending a message. `AskAgain` is a membership
request that is repeated during the catch-up.

*Replication.* One primary. A command is the context it changes, and the state
of an xApp the sequence of commands it applied, so that a snapshot is such a
sequence too, with the contexts that are not `PRIMARY` in `ctxtab` missing.
`rft_replicate` is two steps, since it calls `apply_command_cb` after the log
is unlocked; its `role` argument is taken to be what `get_role` returns.
`state_replication` takes a step wherever it gives up a lock: it picks a
replica, reads its index and the log, serializes the snapshot, sends. A
`server_t` is an object (server, generation), so that a server that was removed
and added again is told from its former self; `FreeServer` is the end of its
`raft_server` thread. What raft decides about the members is free
(`Membership`). `replica_index` is a field of the backup's `server_t` of the
primary: when that is made anew (`NewServerOfPrimary`: `Learn` after `Forget`, or
`CommitRaftConfigSnapshot`) the index starts at 0 and the xApp's state stays; `kept`
remembers that state for the properties. The roles a backup enters in its own tables are left out.

*Lifecycle.* `election` is the place of `trigger_election_timeout` in its loop,
including the calls that bootstrap, discover and ask; `shutdown` that of
`rft_shutdown`. Each command to Redis is a step; `watch` is what Redis knows of
a WATCH. Logs are left out: votes may be refused, and a leader with a majority
adds a server in one step. Wake-ups of the timed wait in `rft_shutdown` and
spurious ones are steps.

## Runs

Passing runs (all invariants and properties in the `.cfg`):

| run | instance | shows |
|---|---|---|
| `election` | 3 voting members, one of which formed the cluster, and an outsider, 3 terms | the inductive invariant, one leader and one vote per term, no more votes than members |
| `raft_elections` | formed cluster of 3, which may lose servers, requests and replies | the same with logs and configurations; the cluster implements `Election` |
| `raft_conflict` | second leader, third candidate, a member removed, requests lost | logs match, a leader has what is committed, configurations follow logs, `match_index` is sound, no fatal exit |
| `raft_membership` | 3 xApps from nothing, one unreachable, one suspected, stopped and restarted | one of them starts the cluster; logs and configurations during joins; nothing is applied twice |
| `raft_join_live` | 2 servers join, no faults, fairness | joins complete, one change at a time, the leader commits |
| `raft_log` | ring of 4, indexes to 7 | order, lookup, compaction, `LogSpec` |
| `ring_buf` | 2 producers, ring of 4, indexes modulo 8 | FIFO queue, no lost wake-up, progress |
| `raft_snapshot` | 2 terms, 4 entries, snapshots from the second entry on, 1 loss, 2 snapshots on their way | the server's log and configuration are the leader's after any mix of snapshots and entries, it commits only what a leader has; it catches up |
| `replication` | a replica that may be removed, added again and restarted, 2 contexts in one bucket, 2 commands, a snapshot from the first on, lost messages, a failing pipe | since its `server_t` of the primary was made, a backup applies the commands in order and once; no index a replica answers ends the primary; no cell of the replica array is freed; everything is shipped in the end |
| `lifecycle` | formed cluster of 3, a may shut down, c may be killed, one process starts again, 2 clusters | only its owner deletes the key; a start and a shutdown come to an end |

Runs in which the code does not do what one of its comments says; the findings
in `PROJECT.json` quote the comment:

| run | what happens |
|---|---|
| `committed_removed` | a follower cuts an entry that is committed, unknown to it, and helps to elect a leader without it |
| `lost_signal` | a leader steps down while its election thread writes the key; the signal comes before the wait and the follower never runs for leader again |

The properties are stated of what the code keeps, so some runs leave cases
out. TLC finds these violated when the cases are let in:

| property | case | what happens |
|---|---|---|
| `ElectionSafety` | `FormedSpec`, `Faulty` and `Restartable` = {a}, `Candidates` = {b, c} | a votes, restarts without its memory and votes again in the term |
| `AppliedOnce` | `Spec` with two servers, `LateJoins` | a late membership request sets `next_index` back and entries are applied twice |
| `LogMatching` | `AloneSpec` with three servers, term 2, `Candidates` = {b} | a joining server gets the same entries from the old and the new leader |
| `ConfigOfLog` | `FormedSpec` with d booting, `Candidates` = {b}, `Suspects` = {d} | the removal of a server without a vote is undone by giving it one |
| `OneChangeAtATime` | `FormedSpec`, `MaxLog` = 7, `Candidates` = {b}, `Suspects` = {a, c} | a new leader starts a change while one of its predecessor is uncommitted |
| `NoSelfDeadlock` | `FormedSpec` with `Server` = `Four`, `MaxTerm` = 2, `MaxLog` = 4, `MaxBusy` = 1, `Candidates` = {b} | a server without a log that is asked for its vote takes `raft_state_lock` twice (`log.c:477`; the comment at `log.c:474` expects a caller without it) |
| `MatchIndexSound` | `ElectedSpec`, `MaxTerm` = 2, `MaxLog` = 6, `MaxBusy` = 2, `Lossy` = {"REPLY"} | an entry whose reply was lost is appended twice, `match_index` passes the leader's log (`log.c:300`; `types.h:158` calls it the highest index known to be replicated) |
| `NoLockCycle` | constants of `raft_log`, `MaxIndex` = 5 | worker and compaction thread wait for each other's lock (`log.c:378`; the order is stated at `config.c:786`) |
| `ExtractBlocks` | `RingBuf` with `Spec`, `Spurious` = FALSE | a late signal wakes the worker on an empty ring and it exits (`ringbuf.c:338`) |
| `BackupPrefix` | `replication` with two xApp threads | a snapshot is forked between append and apply of another thread's command (`rft.c:526-534`) |
| `BackupPrefix` | `replication` with `SharedMeid`, `ThreeCommands`, `Threshold` = 1 | the second context of an equipment is never entered in `ctxtab` and missing in the snapshot (`rft.c:513`) |
| `BackupAppliesOnce` | `replication` | a raft snapshot makes the backup's `server_t` of the primary anew with `replica_index` 0 (`config.c:207`, `792-806`), and a request that is sent again is applied again (`rft.c:1829-1857`) |
| `BackupPrefix` | `replication` with `FaultySpec`, `PipeFaults` = {"data"}, `ThreeCommands`, `MaxFaults` = 0 | the old snapshot is sent with data that was read in part (`snapshot.c:413-436`) |
| `RejoinIndexOk` | `replication` | a server that asks again while it catches up brings its raft index as `master_index`, and the primary exits (`config.c:164`; the comment at `config.c:161` expects 0) |
| `NoRangeExit` | `replication` with `FaultySpec`, `RejoinIndexes` = {0} | a primary that restarted is answered with the index of its former log, and exits |
| `ReplicaIndexGrows` | `replication` with `MaxFaults` = 0 | a late snapshot sets a backup's index back, and its state with it (`types.h:171` says it grows); with a fault, so does a raft snapshot |
| `KeyNamesLeader` | constants of `lost_signal` | a leader that was deposed overwrites its successor's key, which the successor does not write again (`rft.c:2041`) |
| `OneCluster` | `lifecycle` without `Faulty` | the leader that leaves deletes the key, and an xApp that starts founds a second cluster (`rft.c:236-240`) |
| `BinfoInUse` | `lifecycle` | `rft_shutdown` frees `binfo` under an election thread that still asks to join (`rft.c:2424`) |
| `TermIncreases` | `raft_snapshot` | installing a snapshot of an earlier term lowers `current_term` (`config.c:800`; `types.h:123`) |
| `LabelIsEntryTerm` | `raft_snapshot` | a snapshot carries the current term, not that of its last entry (`config.c:765`; `mtl.h:166`) |
| `MemberIsFollower` | `raft_snapshot` | a server that gets its own ADD_MEMBER inside a snapshot does not apply it and stays `INIT_SERVER` |
| `CatchesUpAlways` | `raft_snapshot`, `MaxLog` = 5, no loss, 1 snapshot on its way | a new leader and the server do not agree on the term of the entry before, which one of them has compacted, for ever |
| `OneChangeAtATime` | the constants of `raft_membership` | a leader gives up on an unreachable server, which takes no flag, while another change is uncommitted |

`OneChangeAtATime` thus holds only where `raft_join_live` checks it: one leader,
every server reachable, all changes through `is_changing`. The documented rule
("only one at a time is allowed", `types.h:191`) is not kept in general.

A candidate that meets a leader of its own term also keeps naming its former
leader: `become_candidate` raises the term and keeps `current_leader`, and
`match_terms` clears it, and ends the candidacy, for a higher term only (the
comment at `rft.c:1728` says that a change of term cleans it). Servers that are
followers do not show this.

*Bounds.* `MaxTerm` leaves room for one or two further elections (term 1 is that
of the server that formed the cluster), which is what
two leaders with conflicting logs need. `MaxLog` bounds only configuration
changes and leaves room for one or two of them. `MaxBusy` bounds the wormholes
with messages under way; with 1, a request is answered (or lost) before the next one is
sent, while votes and elections still come in between. Runs start from a
cluster that was formed (`JoinedInit`), or one in which a second leader was
elected (`ElectedInit`, `ReelectedInit`), or one leader alone (`AloneInit`). TLC
reaches each of these states, from `Init` or from the one before it; only
`ReelectedInit` also leaves out the old vote messages, which may go unhandled. Which servers may time out, stop or restart is chosen
per run. A ring of four wraps around several times within the bounds; the code
has at least 16 cells, for which see the proofs. Deadlock is checked in
`raft_join_live`; elsewhere behaviours end at the bounds, or because the
process exits.

In `raft_snapshot` four entries are enough for a snapshot of the leader, one of
the server, a change of `x` between them and a new leader that sends its own. In
`replication` two commands are enough for one that is shipped as an entry and
one that is in a snapshot, `MaxFaults` for one backup that restarts, forgets the primary or installs a raft
snapshot, `RejoinIndexes` = {0, 1} for a membership request that brings an index
within the log or beyond it,
`Capacity` = 3 for a ring that may be full; `BackupPrefix` and `NoRangeExit` are
proved for all sizes. `lifecycle` starts from a cluster whose leader was just
elected again and whose election thread has not seen it yet (`FormedInit` of
`MCLifecycle`), since its hazards are about this thread; `MaxTerm` = 4 leaves
room for one more election, `MaxTries` for one repeated membership request.

*Fairness.* Each thread runs on: the election thread, each wormhole (a
`raft_server` thread and the workers at its ends), the end of a catch-up, the
handling of membership requests, the worker of the ring and a producer that
has begun. This is what the scheduler and the heartbeat timer give when
messages are not lost; no fairness is assumed of timeouts or failures. In
`RaftSnapshot` the threads of both sides run, and a message that is not lost is
handled. In `Replication` any message may be lost, but
`state_replication` sends again at every turn, and a message that is sent again
and again arrives (strong fairness of sending and handling, for each replica); the
primary's threads run (weak fairness). A command by the xApp, and a change of the
membership, is never owed. In `Lifecycle` the election thread and `rft_shutdown` run; that
a message arrives, or that a server is elected, is not assumed.

## Proofs

*Elections* (`ElectionProofs`), from `VotingAssumption`, `NilAssumption` and
`MaxTermAssumption` (finite set of servers, any bound on terms), for a fixed set of
voting members that may stop but do not restart. The cluster was formed by one of
them, which elected itself when it was alone and leads in term 1. `ElectionSafety`
is not inductive: that a leader has a majority must be traced to votes cast.
`Inv` adds that a granting reply is remembered by its sender as long as its
term lasts, that a flag `voted_for_me` comes from such a reply or from the
candidate itself, that `rcv_votes` is the number of flags, and that elections are
held for later terms than the first. Two majorities of `Voting` meet (a fact on
cardinalities), and the server in both voted once.

*The log* (`RaftLogProofs`), for any size of ring and any threshold. `Inv` says
that the cells from the tail on hold consecutive indexes that end at
`last_log_index`, that all other cells are NULL, and how the oldest index, the
offset and the entries still to be removed add up in each phase of a
snapshot. It is inductive together with `SnapshotMeetsLog` and
`CompactionFinds` (`IInv`): the thread finds an entry because what it has
yet to remove is applied, and the worker removes only what is not. One lemma
per ring operation shows that order is kept; `GetFinds` follows. `Implementation`
is the refinement of `LogSpec`: under `IInv` the entries in the ring are the
abstract sequence, and each step is one of its steps or leaves it alone.

*The task ring* (`ProcessProofs`), from `SizeAssumption`, `NullAssumption` and
`SpuriousAssumption`, for any number of producers, any size and any width of the
indexes that the size divides. `CellsInUse` and `NoLostWakeup` become inductive
with what the threads hold between two accesses: who has `wlock`, that a producer
past its check has a free cell besides the one that stays empty, that the cell at
`head` is written before `head` advances, and that a worker that waits is counted
in `cond_th`. The refinement of `Queue` follows: the cells from `tail` to `head`
are the queue, and only the steps that advance an index change it. Most of the
lemmas are on remainders, for indexes that wrap around.

*State replication* (`ReplicationProofs`), from `ReplicationAssumption` and
`Restrictions`: one xApp thread and no equipment with two contexts (the table above
has what happens otherwise). For any number of replicas, commands, contexts, buckets
and faults, and any indexes in membership requests. `BackupPrefix`
is not inductive: what a backup will apply is on its way in messages, in the
hands of `state_replication`, in the snapshot, in the pipe and in the hash
tables from which the child takes its snapshot. `Inv` says of each that it is of
the log: a message has the commands that follow its index, a snapshot has the
first `last_index` commands and nothing was compacted beyond it, every context
in the log is `PRIMARY`, the xApp has applied all but the command in progress,
and an index at the primary is within the log or comes from a membership request.
What a backup had before its `server_t` of the primary was made comes before the
commands it applied since. One lemma per action keeps it;
lemmas on the chains of the hash table, and on prefixes of sequences, carry
the data. `NoRangeExit` is a conjunct: an index within the log is what keeps
the unsigned difference from wrapping around, so that only an index of a membership
request can end the primary. `ReplicasNotFreed`
needs only that the configuration is an array of objects with the primary in it;
what it rests on is a lemma that `get_replica_servers` chooses objects of the
configuration, whatever their number.

*The key* (`ProcessProofs`), from `NULLAssumption` of `Lifecycle`, for any number
of servers, terms and clusters. The theorems are stated of `Life`, an instance of
`Lifecycle`, since `RingBuf` has some of the same names. `WatchedKey` says that a server about to delete the key,
whose WATCH is unbroken, is the one the key names: GET found it, and every
write breaks the WATCHes of others. `KeyDeletedByOwner` follows, step by step.

*The cluster* (`RaftProofs`), from the assumptions of `RaftNode` and `Raft`, for any
servers, bounds and faults, with no restriction. `IInv` strengthens `TypeOK`: a
server that is more than `INIT_SERVER` has committed an entry, so that a candidate
has a last entry whose term it can send. Each operator of `RaftNode` has a lemma
that says what it returns field by field, and the actions are reasoned about through these.
`CommittedStable` follows: `KeptIndex` never cuts below `commit_index`, and
`commit_index` never moves back.

*Membership under one leader* (`RaftSequenceProofs`, which has the invariant and the
steps at which the leader's log does not grow, and `RaftMembershipProofs`). The properties of the logs fail for this code when leaders change,
as the tables above show, so the theorems assume `OneLeader`: only one server's
election timeout expires, or there is only one term; the reply to a request comes
before the next request and is not lost; a membership request says what its
sender's log holds. Servers boot, join, are suspected, given up, removed, stop and
restart with empty logs, and requests are lost, in any number. None of `LogMatching`,
`AppliedAgree`, `ConfigOfLog` and `AppliedOnce` is inductive,
because the code appends what a request brings without a look at indexes. `MInv`
says that there is one sequence of entries `L` of which every log is a beginning;
that the leader's log is `L`; that a request on its way to `t` brings the entries of
`L` that follow the end of `t`'s log, unless `t` has restarted and its log is
empty; that a reply on its way says where `t`'s log ends, as `next_index` does when none is; and that
every `voting` array is what the commands of its log add up to. One
lemma per action keeps it (`OneSequence`), and the four follow. `DInv`
(`LeaderInvariance`) adds that the leader has one change open at most and holds
`is_changing` meanwhile, that `match_index` is within the log it is about, and that only
servers that fail or time out are down; this gives `NoFatalExit` (when servers whose
join times out count as failing), `OneChangeAtATime` (every server
reachable, since giving up takes no flag) and `MatchIndexSound` (no restarts, since
`match_index` is not set back when a member starts again).

*Elections in the cluster* (`RaftElectionProofs`), for a formed cluster
(`JoinedSpec`) of any number of servers, led by any of them, with any log that is
not empty, and `ConfigStable`: no server is suspected, unreachable or restarted.
Election timeouts expire at all servers, messages of both directions are lost, late
or repeated, several requests are in flight, and servers stop. `Refinement` shows
that `Raft` implements `Election`, with the roles, terms, votes and vote messages as
the refinement mapping. `SInv(K)` is the invariant it needs: the configuration of
every server stays the whole set, because the first `K` entries are committed
everywhere, what comes after them is NOOPs, and no request reaches back to them; so
what is cut, appended or applied changes no configuration. Each action of `Raft` then
is an action of `Election` or changes nothing it sees. `OneLeaderPerTerm` takes
`ElectionSafety` of `ElectionProofs` through this mapping to the cluster.

*Only model-checked*, and why:

- `LogMatching`, `AppliedAgree`, `LeaderCompleteness`, `MatchIndexSound` and
  `ConfigOfLog` with a second leader (`raft_conflict`): they hold on the instances of that run and
  fail on others (`committed_removed` and the table of cases), so that there is no
  theorem for all constants.
- `ElectionSafety` while the configuration changes: two leaders may count different
  majorities, and `is_changing`, which is to prevent it, stays behind at a change of
  leader (`OneChangeAtATime` in the table).
- `FollowsLeader` of `RaftSnapshot`: its logs are compacted on both sides at
  any time, and its invariant is not worked out.
- What the recursive definitions compute for every input, where a proof needs
  induction over data: `RaftSequenceProofs` instead keeps what it needs of them in its
  invariant, and `ReplicationProofs` states what one turn of a loop does.
- Liveness (`JoinCompletes`, `LeaderCommits`, `WorkerTakes`, `ShippingEnds`,
  `CatchesUp`, `StartEnds`, `ShutdownReturns`), which is out of reach of the proof
  system, as `ENABLED` is.

## Not modelled

- `queue.c`, `hashtable_delete`, `get_full_replicated_log_index`, a ring that is
  read with a timeout: the library does not use them.
- Logging, byte order and buffers (`mtl.c`), random numbers: no state a
  property could be about.
- The loss of the connection to Redis: the process ends, which the models have
  as a crash.
- Retries of `rft_send_msg`: a send succeeds or the message is lost.
- The clock. Timeouts expire whenever the code waits for one, so that nothing
  is shown about how long anything takes, nor that the rounds of a catch-up end.
- The sleep of a `raft_server` thread on `leader_cond`: a missed broadcast costs
  an election, as a comment in the code accepts.
- Preparing and sending an AppendEntries request as two steps of `Raft`: a
  request may leave with a later term and commit index than it was prepared with.
- GLOBAL replication, and several primaries that replicate to each other: their
  logs and indexes are separate per primary. `Replication` does not ask who
  leads: a backup that restarts and is not added again by a leader that
  is also its primary is sent its state with the next command only.
