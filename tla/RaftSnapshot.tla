---------------------------- MODULE RaftSnapshot ----------------------------
(* The transfer of raft snapshots: a leader whose log is compacted brings a server up to
   date with a snapshot of its configuration and the entries after it
   (src/src/rft.c, src/src/snapshot.c, src/src/config.c, src/src/log.c).

   The leader and one server, "f", are modelled; f starts with an empty log and joins.  The
   other members follow every leader at once, so that one of them can take over with the
   same log, but with snapshots of its own.  The configuration is the status of f and of
   another server, "x", that joins and leaves.  Compaction is one step (module RaftLog has
   its steps), and a request is not sent again while one is answered, except a snapshot
   (module Raft has what happens to entries that arrive twice). *)
EXTENDS Naturals, Sequences, SequencesExt

CONSTANTS
    Threshold,     \* cthresh, the entries a log may hold before a snapshot is taken
    NULL,
    MaxLog,        \* bound: entries
    MaxTerm,       \* bound: terms
    MaxLost,       \* bound: requests lost
    MaxInFlight    \* bound: snapshots on their way

VARIABLES
    history,   \* every entry the leaders have appended
    committed, \* the highest index a leader has committed
    leader,    \* log and state of the leader
    f,         \* ... and of the server f
    index,     \* [next |-> .., match |-> ..], what the leader knows of f
    reqs,      \* requests to f, in order
    replies,   \* ... and its replies
    lost

vars == <<history, committed, leader, f, index, reqs, replies, lost>>

Noop(t) == [term |-> t, cmd |-> "NOOP", server |-> NULL]
Change(t, cmd, s) == [term |-> t, cmd |-> cmd, server |-> s]

-----------------------------------------------------------------------------
(* a log with a snapshot before it, and the configuration that follows it *)

NoServers == [s \in {"f", "x"} |-> "none"]
NoSnapshot == [last_index |-> 0, last_term |-> 0, config |-> NoServers]
NewLog == [term |-> 0, base |-> 0, log |-> <<>>, commit |-> 0, config |-> NoServers,
           snapshot |-> NoSnapshot, pipe |-> NULL, state |-> "INIT_SERVER"]

LastIndex(n) == n.base + Len(n.log)
HasEntry(n, i) == i \in (n.base + 1)..LastIndex(n)
EntryAt(n, i) == n.log[i - n.base]

\* a configuration entry takes effect when it is appended ...
Appended(config, e) ==
    IF e.cmd = "NOOP" THEN config
    ELSE [config EXCEPT ![e.server] = IF e.cmd = "ADD_MEMBER" THEN "VOTING" ELSE "none"]

\* ... and is undone when it is removed
Removed(config, e) ==
    IF e.cmd = "NOOP" THEN config
    ELSE [config EXCEPT ![e.server] = IF e.cmd = "ADD_MEMBER" THEN "none" ELSE "VOTING"]

ConfigOf(entries) == FoldLeft(Appended, NoServers, entries)

\* ... with f in it as well, when status is NON_VOTING
ConfigWith(entries, status) ==
    LET config == ConfigOf(entries)
    IN  [config EXCEPT !["f"] = IF @ = "none" THEN status ELSE @]

\* create_raft_config_snapshot: the configuration as it is, under the last applied index
\* and the current term
Snapshot(n) == [last_index |-> n.commit, last_term |-> n.term, config |-> n.config]

\* append_raft_log_entry: take_raft_snapshot comes first, when the log is long
AppendEntry(n, e) ==
    [n EXCEPT !.pipe = IF Len(n.log) > Threshold /\ @ = NULL THEN Snapshot(n) ELSE @,
              !.log = Append(@, e),
              !.config = Appended(@, e)]

\* parent_raft_thread and compact_raft_log
Compacted(n) ==
    [n EXCEPT !.snapshot = n.pipe,
              !.base = n.pipe.last_index,
              !.log = SubSeq(@, n.pipe.last_index - n.base + 1, Len(@)),
              !.pipe = NULL]

\* remove_raft_conflicting_entries, which stops at the entry that matches or is committed
KeptIndex(n, prev) ==
    IF prev.index \in (n.commit + 1)..LastIndex(n) /\ EntryAt(n, prev.index).term = prev.term
    THEN prev.index
    ELSE n.commit

RemoveConflicts(n, prev) ==
    IF n.log = <<>> \/ (prev.index = LastIndex(n) /\ EntryAt(n, prev.index).term = prev.term)
    THEN n
    ELSE LET kept == KeptIndex(n, prev) - n.base
         IN  [n EXCEPT !.log = SubSeq(@, 1, kept),
                       !.config = FoldRight(LAMBDA e, c : Removed(c, e),
                                            SubSeq(n.log, kept + 1, Len(n.log)), @)]

\* check_raft_log_consistency: an entry that is not in the log is looked for in the label
\* of the snapshot
PrevOf(n, i) ==
    IF HasEntry(n, i) THEN [index |-> i, term |-> EntryAt(n, i).term]
    ELSE [index |-> n.snapshot.last_index, term |-> n.snapshot.last_term]

\* The same without a look at the label.
ConsistentInLog(n, prev) ==
    \/ prev = [index |-> 0, term |-> 0]
    \/ HasEntry(n, prev.index) /\ EntryAt(n, prev.index).term = prev.term

Consistent(n, prev) == PrevOf(n, prev.index) = prev

\* The same, of all entries, whatever the leader has committed.
CommitAll(n, i) ==
    [n EXCEPT !.commit = LastIndex(n),
              !.state = IF \E k \in (n.commit + 1)..LastIndex(n) :
                              EntryAt(n, k).cmd = "ADD_MEMBER" /\ EntryAt(n, k).server = "f"
                        THEN "FOLLOWER" ELSE @]

\* raft_commit_log_entries of a follower: with ADD_MEMBER of itself applied, it is one
CommitUpTo(n, i) ==
    LET to == IF i < LastIndex(n) THEN i ELSE LastIndex(n)
    IN  IF to <= n.commit THEN n
        ELSE [n EXCEPT !.commit = to,
                       !.state = IF \E k \in (n.commit + 1)..to :
                                       EntryAt(n, k).cmd = "ADD_MEMBER" /\ EntryAt(n, k).server = "f"
                                 THEN "FOLLOWER" ELSE @]

\* commit_raft_config_snapshot: nothing of the log or the configuration is kept, and the
\* term becomes the one of the label
Installed(n, s) ==
    [n EXCEPT !.base = s.last_index,
              !.log = <<>>,
              !.term = s.last_term,
              !.commit = s.last_index,
              !.config = s.config,
              !.snapshot = s]

-----------------------------------------------------------------------------
(* the leader *)

\* f has asked to join: raft_config_add_server as NON_VOTING, with last_log_index 0
Init ==
    /\ history = <<Noop(1)>>
    /\ committed = 0
    /\ leader = [NewLog EXCEPT !.term = 1, !.log = <<Noop(1)>>, !.config["f"] = "NON_VOTING",
                               !.state = "LEADER"]
    /\ f = NewLog
    /\ index = [next |-> 1, match |-> 0]
    /\ reqs = <<>>
    /\ replies = <<>>
    /\ lost = 0

LogsMatch == index.match = index.next - 1

LeaderAppends(e) ==
    /\ Len(history) < MaxLog
    /\ history' = Append(history, e)
    /\ leader' = AppendEntry(leader, e)

\* one change at a time (set_configuration_changing)
Changing == \E i \in (leader.commit + 1)..Len(history) : history[i].cmd # "NOOP"

\* the catch-up of f is over
CaughtUp ==
    /\ leader.config["f"] = "NON_VOTING"
    /\ LogsMatch
    /\ index.match > 0
    /\ ~Changing
    /\ LeaderAppends(Change(leader.term, "ADD_MEMBER", "f"))
    /\ UNCHANGED <<committed, f, index, reqs, replies, lost>>

\* x joins or leaves
ChangeX ==
    /\ ~Changing
    /\ LeaderAppends(Change(leader.term, IF leader.config["x"] = "none" THEN "ADD_MEMBER" ELSE "DEL_MEMBER", "x"))
    /\ UNCHANGED <<committed, f, index, reqs, replies, lost>>

\* raft_commit_log_entries: an entry of its own term is in a majority of the members
Commit ==
    \E i \in (leader.commit + 1)..LastIndex(leader) :
        /\ EntryAt(leader, i).term = leader.term
        /\ leader' = [leader EXCEPT !.commit = i]
        /\ committed' = IF i > committed THEN i ELSE committed
        /\ UNCHANGED <<history, f, index, reqs, replies, lost>>

LeaderCompacts ==
    /\ leader.pipe # NULL
    /\ leader' = Compacted(leader)
    /\ UNCHANGED <<history, committed, f, index, reqs, replies, lost>>

\* serialize_raft_log_entries finds no entry: ENODATA
NeedsSnapshot == LogsMatch /\ index.next \in 1..leader.base

SnapshotRequest ==
    [type |-> "RAFT_SNAPSHOT_REQ", term |-> leader.term, snapshot |-> leader.snapshot]

\* send_append_entries: entries once the logs are known to match, a heartbeat before
AppendRequest ==
    [type |-> "APPEND_ENTRIES_REQ", term |-> leader.term,
     prev |-> PrevOf(leader, index.next - 1),
     entries |-> IF LogsMatch THEN SubSeq(leader.log, index.next - leader.base, Len(leader.log)) ELSE <<>>,
     leader_commit |-> leader.commit]

\* One round of the raft_server thread of f
Send ==
    /\ leader.config["f"] # "none"
    /\ replies = <<>>
    /\ IF NeedsSnapshot
       THEN /\ Len(reqs) < MaxInFlight
            /\ reqs' = Append(reqs, SnapshotRequest)
       ELSE /\ reqs = <<>>
            /\ reqs' = <<AppendRequest>>
    /\ UNCHANGED <<history, committed, leader, f, index, replies, lost>>

\* handle_append_entries_reply, also for the reply to a snapshot; the commit it leads to is
\* the action Commit
HandleReply ==
    /\ replies # <<>>
    /\ LET r == Head(replies)
       IN  index' = IF r.to = leader.term /\ r.term = leader.term
                    THEN [next |-> r.last_index + 1,
                          match |-> IF r.success THEN r.last_index ELSE index.match]
                    ELSE index
    /\ replies' = Tail(replies)
    /\ UNCHANGED <<history, committed, leader, f, reqs, lost>>

\* The membership request of an f that is not a member yet and makes no progress:
\* raft_config_add_server sets the indexes, also of a server it has already
AskAgain ==
    /\ f.state = "INIT_SERVER"
    /\ reqs = <<>>
    /\ replies = <<>>
    /\ leader' = [leader EXCEPT !.config["f"] = IF @ = "none" THEN "NON_VOTING" ELSE @]
    /\ index' = [next |-> LastIndex(f) + 1, match |-> LastIndex(f)]
    /\ UNCHANGED <<history, committed, f, reqs, replies, lost>>

\* Another member, with the same log, has become leader.  It may have committed and
\* compacted less.  Its snapshot was taken when its log had m entries: it has the
\* configuration of all of them, and a term the member had at the time.  Of f it knows what
\* was added in the log, or that it is non-voting, from a snapshot or a term it led.
NewLeader ==
    /\ leader.term < MaxTerm
    /\ Len(history) < MaxLog
    /\ \E c \in 0..committed :
       \E b \in 0..c :
       \E m \in IF b = 0 THEN {0} ELSE b..Len(history) :
       \E t \in IF b = 0 THEN {0} ELSE history[m].term..leader.term :
       \E known \in {"none", "NON_VOTING"} :
       \E before \in IF b = 0 THEN {"none"} ELSE {"none", known} :
       \E n \in {[NewLog EXCEPT
                     !.term = leader.term + 1,
                     !.base = b,
                     !.log = SubSeq(history, b + 1, Len(history)),
                     !.commit = c,
                     !.config = ConfigWith(history, known),
                     !.snapshot = [last_index |-> b, last_term |-> t,
                                   config |-> ConfigWith(SubSeq(history, 1, m), before)],
                     !.state = "LEADER"]} :
          leader' = AppendEntry(n, Noop(n.term))
    /\ history' = Append(history, Noop(leader.term + 1))
    /\ index' = [next |-> Len(history) + 2, match |-> 0]
    /\ replies' = <<>>
    /\ UNCHANGED <<committed, f, reqs, lost>>

-----------------------------------------------------------------------------
(* the server f *)

Reply(m, t, ok, last) ==
    replies' = Append(replies, [to |-> m.term, term |-> t, success |-> ok, last_index |-> last])

\* handle_append_entries_request and handle_raft_snapshot_request of an old term
HandleOutdated(m) ==
    /\ m.term < f.term
    /\ Reply(m, f.term, FALSE, LastIndex(f))
    /\ UNCHANGED f

HandleAppendEntries(m) ==
    /\ m.type = "APPEND_ENTRIES_REQ"
    /\ m.term >= f.term
    /\ \E n \in {RemoveConflicts([f EXCEPT !.term = m.term], m.prev)} :
          /\ f' = IF Consistent(n, m.prev)
                  THEN CommitUpTo(FoldLeft(AppendEntry, n, m.entries), m.leader_commit)
                  ELSE n
          /\ Reply(m, m.term, Consistent(n, m.prev), LastIndex(f'))

\* install_raft_snapshot refuses the snapshot it has, and any while it takes one itself.
\* The reply has the term of the request, whatever the label says.
HandleRaftSnapshot(m) ==
    /\ m.type = "RAFT_SNAPSHOT_REQ"
    /\ m.term >= f.term
    /\ LET new == \/ m.snapshot.last_index # f.snapshot.last_index
                  \/ m.snapshot.last_term # f.snapshot.last_term
           n == [f EXCEPT !.term = m.term]
       IN  /\ f' = IF f.pipe = NULL /\ new THEN Installed(n, m.snapshot) ELSE n
           /\ Reply(m, m.term, f.pipe = NULL /\ new, LastIndex(f'))

HandleRequest ==
    /\ reqs # <<>>
    /\ \E m \in {Head(reqs)} :
          \/ HandleOutdated(m)
          \/ HandleAppendEntries(m)
          \/ HandleRaftSnapshot(m)
    /\ reqs' = Tail(reqs)
    /\ UNCHANGED <<history, committed, leader, index, lost>>

LoseRequest ==
    /\ reqs # <<>>
    /\ lost < MaxLost
    /\ lost' = lost + 1
    /\ reqs' = Tail(reqs)
    /\ UNCHANGED <<history, committed, leader, f, index, replies>>

FollowerCompacts ==
    /\ f.pipe # NULL
    /\ f' = Compacted(f)
    /\ UNCHANGED <<history, committed, leader, index, reqs, replies, lost>>

-----------------------------------------------------------------------------
Next ==
    \/ CaughtUp
    \/ ChangeX
    \/ Commit
    \/ LeaderCompacts
    \/ Send
    \/ HandleReply
    \/ AskAgain
    \/ NewLeader
    \/ HandleRequest
    \/ LoseRequest
    \/ FollowerCompacts

\* Each thread runs and what is sent arrives, but for the requests that are lost.
Fairness ==
    /\ WF_vars(Send)
    /\ WF_vars(HandleRequest)
    /\ WF_vars(HandleReply)
    /\ WF_vars(LeaderCompacts)
    /\ WF_vars(FollowerCompacts)

Spec == Init /\ [][Next]_vars /\ Fairness

-----------------------------------------------------------------------------
\* Whatever mix of snapshots and entries f was sent, and whatever both sides compact
\* meanwhile: its log continues its snapshot and is the leaders' log, it has committed
\* nothing that no leader has, and once it has the whole log it has the leader's
\* configuration of it.
FollowsLeader ==
    /\ LastIndex(f) <= Len(history)
    /\ \A i \in (f.base + 1)..LastIndex(f) : EntryAt(f, i) = history[i]
    /\ f.base <= f.commit /\ f.commit <= LastIndex(f) /\ f.commit <= committed
    /\ LastIndex(f) = Len(history) => f.config["x"] = leader.config["x"]

\* If the leader stays, f is brought up to date, by entries or by a snapshot of what is
\* compacted already, also when f refuses a snapshot because it is taking one itself.
CatchesUp ==
    [](leader.term = 1) => <>[](LastIndex(f) = Len(history) /\ f.commit = leader.commit)

\* "Persistent latest term server has seen (initialized to 0 on first boot, increases
\* monotonically)" (src/include/types.h:123): also when a snapshot is installed.
TermIncreases == [][f'.term >= f.term]_vars

\* "term of the snapshot's last log entry" (src/include/mtl.h:166)
LabelIsEntryTerm ==
    \A i \in 1..Len(history) : leader.snapshot.last_index = i => leader.snapshot.last_term = history[i].term

\* A member is brought up to date by the next leader as well.
CatchesUpAlways ==
    <>[](f.state = "FOLLOWER") => <>[](LastIndex(f) = Len(history) /\ f.commit = leader.commit)

\* A server that is a voting member of its own configuration is no longer joining.
MemberIsFollower ==
    (f.config["f"] = "VOTING" /\ f.commit = Len(history)) ~> f.state = "FOLLOWER"
=============================================================================
