----------------------------- MODULE Replication -----------------------------
(***************************************************************************)
(* The replication of an xApp's state (rft.c, log.c, snapshot.c and        *)
(* config.c): the xApp's threads call rft_replicate at the primary, the    *)
(* state_replication thread ships the log, or a snapshot made by a forked  *)
(* child once the log was compacted, to the replicas that                  *)
(* get_replica_servers chose, and each of those applies what it is sent.   *)
(*                                                                         *)
(* A command is named by the context it changes.  The state of the xApp is *)
(* the sequence of commands it applied.                                    *)
(***************************************************************************)
EXTENDS Integers, Sequences, FiniteSets

CONSTANTS
    Self,          \* the primary
    Replica,       \* the other xApps
    Initial,       \* those that are members at first, in the array's order
    Thread,        \* the xApp's threads that call rft_replicate
    Context,       \* contexts of the commands
    Workload,      \* the commands that are replicated, in their order
    MeidOf,        \* the managed equipment of every context
    Buckets,       \* size of ctxtab and of roletab
    HashCode,      \* the bucket of every context and equipment
    NumReplicas,   \* num_replicas (PARTIAL replication)
    Threshold,     \* entries in the log before a snapshot is taken
    Capacity,      \* size of the log ring
    PipeFaults,    \* reads of the snapshot pipe that may fail
    RejoinIndexes, \* last_log_index of a known server's membership request
    MaxInFlight,   \* bound on the messages to or from a replica
    MaxFaults,     \* bound on the servers added or forgotten and the restarts
    NULL           \* no object, command, value, snapshot

Meid == {MeidOf[c] : c \in Context}

ASSUME ReplicationAssumption ==
    /\ Self \notin Replica /\ Initial \in Seq(Replica)
    /\ NumReplicas \in Nat \ {0} /\ Threshold \in Nat /\ Capacity \in Nat
    /\ DOMAIN MeidOf = Context
    /\ HashCode \in [Context \cup Meid -> 0 .. Buckets - 1]
    /\ PipeFaults \subseteq {"meta", "data"}
    /\ RejoinIndexes \subseteq Nat
    /\ Workload \in Seq(Context) /\ MaxInFlight \in Nat \ {0}
    /\ MaxFaults \in Nat
    /\ NULL \notin Context /\ NULL # "PRIMARY"

VARIABLES
    xlog,          \* every command the primary appended
    removed,       \* how many of them compaction took out of the ring
    state,         \* the commands the primary's xApp applied
    caller,        \* thread -> the command it appended and did not apply yet
    ctxtab,        \* role of the contexts (hash table)
    roletab,       \* role of the equipments (hash table)
    pipe,          \* what the child wrote, NULL if no snapshot is in progress
    compacting,    \* parent_xapp_thread holds xapp_snapshot_lock
    snapshot,      \* xapp_snapshot
    exited,        \* the fatal error that ended the primary
    config,        \* array of server objects
    voting,        \* those with status VOTING_MEMBER
    leaving,       \* removed objects whose raft_server thread still runs
    master_index,  \* object -> index the primary believes replicated
    replica_servers, \* [len, servers]
    pending,       \* a configuration entry is appended and not applied
    repl,          \* the state_replication thread
    requests,      \* replica -> messages to it
    replies,       \* replica -> indexes it answered
    knows,         \* replicas whose configuration has a server_t of the primary
    replica_index, \* replica -> replica_index of its server_t of the primary
    copy,          \* replica -> the commands of the primary it applied
    kept,          \* replica -> what of copy is older than its server_t of the primary
    joining,       \* replicas whose membership request is on its way
    faults         \* how many servers were added, forgotten or restarted

log == <<xlog, removed, pipe, compacting, snapshot>>
app == <<state, caller, ctxtab, roletab>>
members == <<config, voting, leaving, pending>>
backups == <<knows, replica_index, copy, kept>>
history == <<joining, faults>>
vars == <<log, app, exited, members, master_index, replica_servers, repl,
          requests, replies, backups, history>>

H == INSTANCE HashTable WITH Key <- Context \cup Meid

Object == ({Self} \cup Replica) \X (0 .. MaxFaults)
Me == <<Self, 0>>

\* The objects of the configuration with the server's id (get_server).
Objects(r) == {o \in Object : o[1] = r /\ \E i \in DOMAIN config : config[i] = o}

Running == exited = ""

\* The child's copy of the xApp: the commands on the contexts whose role is
\* PRIMARY (primary_ctx_handler); a command on another context is missing.
PrimaryContexts(table) ==
    {k \in H!Keys(table) : H!Get(table, k) = "PRIMARY"}

TakeSnapshot(table) ==
    [i \in DOMAIN state |->
        IF state[i] \in PrimaryContexts(table) THEN state[i] ELSE NULL]

\* The first NumReplicas voting members that follow the primary in the array,
\* which the search goes round.
GetReplicaServers ==
    LET size == Len(config)
        n == IF NumReplicas > size THEN size - 1 ELSE NumReplicas
        me == CHOOSE i \in 1 .. size : config[i] = Me
        others == [k \in 1 .. size - 1 |-> config[((me + k - 1) % size) + 1]]
        chosen[k \in 0 .. size - 1] ==
            IF k = 0 THEN << >>
            ELSE IF others[k] \in voting /\ Len(chosen[k - 1]) < n
                 THEN Append(chosen[k - 1], others[k])
                 ELSE chosen[k - 1]
    IN  chosen[size - 1]

Asleep == [pc |-> "asleep", i |-> 0, replica |-> NULL, master |-> 0,
           msg |-> NULL]

InitialObjects == [i \in DOMAIN Initial |-> <<Initial[i], 0>>]

Init ==
    /\ xlog = << >> /\ removed = 0 /\ state = << >>
    /\ caller = [t \in Thread |-> NULL]
    /\ ctxtab = H!NewTable /\ roletab = H!NewTable
    /\ pipe = NULL /\ compacting = FALSE /\ snapshot = NULL
    /\ exited = ""
    /\ config = <<Me>> \o InitialObjects
    /\ voting = {config[i] : i \in DOMAIN config} /\ leaving = {}
    /\ master_index = [o \in Object |-> 0]
    /\ replica_servers = << >> /\ pending = TRUE
    /\ repl = Asleep
    /\ requests = [r \in Replica |-> << >>]
    /\ replies = [r \in Replica |-> << >>]
    /\ knows = {Initial[i] : i \in DOMAIN Initial}
    /\ replica_index = [r \in Replica |-> 0]
    /\ copy = [r \in Replica |-> << >>] /\ kept = copy
    /\ joining = {}
    /\ faults = 0

-----------------------------------------------------------------------------
(* rft_replicate                                                           *)

\* The roles are entered in the tables, then append_server_log_entry takes a
\* snapshot when the log is over its threshold and appends the entry; a full
\* ring is fatal.
Replicate(t) == LET command == Workload[Len(xlog) + 1] IN
    /\ Running /\ caller[t] = NULL /\ Len(xlog) < Len(Workload)
    /\ \E new \in {H!Get(roletab, MeidOf[command]) # "PRIMARY"} :
          /\ roletab' = IF new THEN H!Insert(roletab, MeidOf[command], "PRIMARY")
                        ELSE roletab
          /\ ctxtab' = IF new THEN H!Insert(ctxtab, command, "PRIMARY") ELSE ctxtab
    /\ pipe' = IF Len(xlog) - removed > Threshold /\ pipe = NULL /\ ~compacting
               THEN [last_index |-> Len(xlog), data |-> TakeSnapshot(ctxtab')]
               ELSE pipe
    /\ IF Len(xlog) - removed < Capacity
       THEN /\ xlog' = Append(xlog, command)
            /\ caller' = [caller EXCEPT ![t] = command]
            /\ UNCHANGED exited
       ELSE /\ exited' = "full"
            /\ UNCHANGED <<xlog, caller>>
    /\ UNCHANGED <<removed, compacting, snapshot, state, members, master_index,
                   replica_servers, repl, requests, replies, backups, history>>

\* The call goes on with apply_command_cb, under no lock.
ApplyCommand(t) ==
    /\ Running /\ caller[t] # NULL
    /\ state' = Append(state, caller[t])
    /\ caller' = [caller EXCEPT ![t] = NULL]
    /\ UNCHANGED <<log, ctxtab, roletab, exited, members, master_index,
                   replica_servers, repl, requests, replies, backups, history>>

-----------------------------------------------------------------------------
(* parent_xapp_thread                                                      *)

OthersThanLog == <<app, exited, members, master_index, replica_servers, repl,
                   requests, replies, backups, history>>

\* It reads what the child wrote and starts the compaction under
\* xapp_snapshot_lock.
ReadPipe ==
    /\ Running /\ pipe # NULL
    /\ snapshot' = pipe /\ pipe' = NULL /\ compacting' = TRUE
    /\ UNCHANGED <<xlog, removed, OthersThanLog>>

\* The metadata cannot be read: the old snapshot stays.
MetaReadFails ==
    /\ Running /\ pipe # NULL /\ "meta" \in PipeFaults
    /\ pipe' = NULL
    /\ UNCHANGED <<xlog, removed, compacting, snapshot, OthersThanLog>>

\* The data cannot be read: it was to overwrite the old snapshot's data, whose
\* last_index stays.
DataReadFails ==
    /\ Running /\ pipe # NULL /\ "data" \in PipeFaults
    /\ snapshot' = [last_index |-> IF snapshot = NULL THEN 0
                                   ELSE snapshot.last_index,
                    data |-> <<NULL>>]
    /\ pipe' = NULL
    /\ UNCHANGED <<xlog, removed, compacting, OthersThanLog>>

\* Mutant: one entry too many is removed.
CompactEntryTooMany ==
    /\ Running /\ compacting /\ removed <= snapshot.last_index
    /\ removed' = removed + 1
    /\ UNCHANGED <<xlog, pipe, compacting, snapshot, OthersThanLog>>

\* compact_server_log removes the entries one by one.
CompactEntry ==
    /\ Running /\ compacting /\ removed < snapshot.last_index
    /\ removed' = removed + 1
    /\ UNCHANGED <<xlog, pipe, compacting, snapshot, OthersThanLog>>

EndCompaction ==
    /\ Running /\ compacting /\ removed >= snapshot.last_index
    /\ compacting' = FALSE
    /\ UNCHANGED <<xlog, removed, pipe, snapshot, OthersThanLog>>

-----------------------------------------------------------------------------
(* The state_replication thread                                            *)

OthersThanRepl == <<log, app, members, master_index, replica_servers, replies,
                    backups, history>>

\* The loop over the replicas reaches the next cell that is not NULL: the
\* replica's index is read, under replica_lock, which is then released.
Turn(from) ==
    LET rest == {j \in from .. Len(replica_servers) : replica_servers[j] \in Object}
    IN  \/ rest = {} /\ repl' = Asleep
        \/ \E j \in rest :
              /\ \A k \in rest : j <= k
              /\ repl' = [pc |-> "read", i |-> j, replica |-> replica_servers[j],
                          master |-> master_index[replica_servers[j]],
                          msg |-> NULL]

\* The thread wakes up with replica_lock and waits on when there is no replica.
WakeUp ==
    /\ Running /\ repl.pc = "asleep"
    /\ IF replica_servers = << >> \/ Len(config) = 1
       THEN repl' = [repl EXCEPT !.pc = "waiting"]
       ELSE Turn(1)
    /\ UNCHANGED <<exited, requests, OthersThanRepl>>

\* A turn that sent nothing leads to the next one without replica_lock.
Unlocked == [pc |-> "pick", i |-> repl.i + 1, replica |-> NULL, master |-> 0,
             msg |-> NULL]

Pick ==
    /\ Running /\ repl.pc = "pick"
    /\ Turn(repl.i)
    /\ UNCHANGED <<exited, requests, OthersThanRepl>>

\* The entries after the replica's index are serialized, as many as fit in a
\* message; n_entries is unsigned, so an index beyond the log asks for entries
\* out of range, which is fatal.
ReadLog ==
    /\ Running /\ repl.pc = "read"
    /\ IF repl.master > Len(xlog)
       THEN exited' = "range" /\ UNCHANGED repl
       ELSE /\ UNCHANGED exited
            /\ \/ repl.master = Len(xlog) /\ repl' = Unlocked
               \/ /\ repl.master < removed
                  /\ repl' = [repl EXCEPT !.pc = "snapshot"]
               \/ /\ repl.master >= removed
                  /\ \E n \in 1 .. Len(xlog) - repl.master :
                        repl' = [repl EXCEPT !.pc = "send", !.msg =
                           [type |-> "REPLICATION_REQ", index |-> repl.master,
                            data |-> SubSeq(xlog, repl.master + 1,
                                                  repl.master + n)]]
    /\ UNCHANGED <<requests, OthersThanRepl>>

\* serialize_xapp_snapshot, under xapp_snapshot_lock.
ReadSnapshot ==
    /\ Running /\ repl.pc = "snapshot" /\ ~compacting
    /\ repl' = IF snapshot = NULL THEN Unlocked
               ELSE [repl EXCEPT !.pc = "send", !.msg =
                       [type |-> "XAPP_SNAPSHOT_REQ",
                        index |-> snapshot.last_index, data |-> snapshot.data]]
    /\ UNCHANGED <<exited, requests, OthersThanRepl>>

\* The cell of the array is read again, under replica_lock: beyond the end of
\* an array that became shorter it holds anything.  An object that was freed
\* meanwhile may still lead to its server, or the message is lost.
StillThere ==
    IF repl.i <= Len(replica_servers) THEN {replica_servers[repl.i] # NULL}
    ELSE BOOLEAN

\* RMR delivers a message or loses it.
Transmit(channel, r, msg, after) ==
    \/ after = channel
    \/ /\ Len(channel[r]) < MaxInFlight
       /\ after = [channel EXCEPT ![r] = Append(@, msg)]

Freed(o) == o \notin leaving /\ \A i \in DOMAIN config : config[i] # o

Send ==
    /\ Running /\ repl.pc = "send"
    /\ \E there \in StillThere :
          IF there THEN Transmit(requests, repl.replica[1], repl.msg, requests')
          ELSE UNCHANGED requests
    /\ Turn(repl.i + 1)
    /\ UNCHANGED <<exited, OthersThanRepl>>

-----------------------------------------------------------------------------
(* Messages                                                                *)

OthersThanBackups == <<log, app, exited, members, master_index,
                       replica_servers, repl, history>>

Reply(r, index) ==
    /\ requests' = [requests EXCEPT ![r] = Tail(@)]
    /\ Transmit(replies, r, index, replies')

\* Mutant: the replica's index is not compared.
HandleReplicationRequestBlind(r) ==
    /\ requests[r] # << >> /\ Head(requests[r]).type = "REPLICATION_REQ"
    /\ LET m == Head(requests[r]) IN
          IF r \in knows
          THEN /\ copy' = [copy EXCEPT ![r] = @ \o m.data]
               /\ replica_index' = [replica_index EXCEPT ![r] = @ + Len(m.data)]
          ELSE UNCHANGED <<copy, replica_index>>
    /\ Reply(r, IF r \in knows THEN replica_index'[r] ELSE 0)
    /\ UNCHANGED <<knows, kept, OthersThanBackups>>

\* Mutant: the answer is the next index the replica wants.
HandleReplicationRequestNext(r) ==
    /\ requests[r] # << >> /\ Head(requests[r]).type = "REPLICATION_REQ"
    /\ LET m == Head(requests[r]) IN
          IF r \in knows /\ m.index = replica_index[r]
          THEN /\ copy' = [copy EXCEPT ![r] = @ \o m.data]
               /\ replica_index' = [replica_index EXCEPT ![r] = @ + Len(m.data)]
          ELSE UNCHANGED <<copy, replica_index>>
    /\ Reply(r, IF r \in knows THEN replica_index'[r] + 1 ELSE 0)
    /\ UNCHANGED <<knows, kept, OthersThanBackups>>

\* The commands are applied only if they continue what the replica has.
HandleReplicationRequest(r) ==
    /\ requests[r] # << >> /\ Head(requests[r]).type = "REPLICATION_REQ"
    /\ LET m == Head(requests[r]) IN
          IF r \in knows /\ m.index = replica_index[r]
          THEN /\ copy' = [copy EXCEPT ![r] = @ \o m.data]
               /\ replica_index' = [replica_index EXCEPT ![r] = @ + Len(m.data)]
          ELSE UNCHANGED <<copy, replica_index>>
    /\ Reply(r, IF r \in knows THEN replica_index'[r] ELSE 0)
    /\ UNCHANGED <<knows, kept, OthersThanBackups>>

\* The snapshot is installed whatever the replica has.
HandleXappSnapshotRequest(r) ==
    /\ requests[r] # << >> /\ Head(requests[r]).type = "XAPP_SNAPSHOT_REQ"
    /\ LET m == Head(requests[r]) IN
          IF r \in knows
          THEN /\ copy' = [copy EXCEPT ![r] = m.data]
               /\ kept' = [kept EXCEPT ![r] = << >>]
               /\ replica_index' = [replica_index EXCEPT ![r] = m.index]
          ELSE UNCHANGED <<copy, kept, replica_index>>
    /\ Reply(r, IF r \in knows THEN replica_index'[r] ELSE 0)
    /\ UNCHANGED <<knows, OthersThanBackups>>

\* handle_replication_reply, and handle_xapp_snapshot_reply alike: successful
\* or not, master_index becomes the replica's index.
HandleReply(r) ==
    /\ Running /\ replies[r] # << >>
    /\ replies' = [replies EXCEPT ![r] = Tail(@)]
    /\ master_index' = [o \in Object |-> IF o \in Objects(r)
                                         THEN Head(replies[r])
                                         ELSE master_index[o]]
    /\ UNCHANGED <<log, app, exited, members, replica_servers, repl, requests,
                   backups, history>>

-----------------------------------------------------------------------------
(* Membership                                                              *)

OthersThanMembers == <<log, app, exited, requests, replies, backups>>

\* add_server: a new object, non-voting, nothing replicated.
AddServer(r) ==
    /\ Running /\ Objects(r) = {} /\ faults < MaxFaults
    /\ faults' = faults + 1
    /\ LET o == <<r, faults'>> IN
          /\ config' = Append(config, o)
          /\ master_index' = [master_index EXCEPT ![o] = 0]
    /\ UNCHANGED <<voting, leaving, pending, joining, replica_servers, repl, OthersThanMembers>>

\* The membership request of a server that is still in the configuration.
AddServerAgain(r) ==
    /\ Running /\ r \in joining /\ Objects(r) # {}
    /\ joining' = joining \ {r}
    /\ \E last_log_index \in RejoinIndexes :
          master_index' = [o \in Object |-> IF o \in Objects(r)
                                            THEN last_log_index
                                            ELSE master_index[o]]
    /\ UNCHANGED <<members, faults, replica_servers, repl,
                   OthersThanMembers>>

\* ADD_MEMBER is appended: the server votes.
SetVoting(r) ==
    /\ Running /\ Objects(r) # {} /\ ~ Objects(r) \subseteq voting
    /\ voting' = voting \cup Objects(r)
    /\ pending' = TRUE
    /\ UNCHANGED <<config, leaving, history, master_index, replica_servers, repl,
                   OthersThanMembers>>

\* remove_server, for DEL_MEMBER or because a catch-up failed.
RemoveServer(r) ==
    /\ Running
    /\ \E i \in DOMAIN config :
          /\ config[i][1] = r
          /\ config' = [k \in 1 .. Len(config) - 1 |->
                           IF k < i THEN config[k] ELSE config[k + 1]]
          /\ leaving' = leaving \cup {config[i]}
          /\ voting' = voting \ {config[i]}
          /\ pending' = (pending \/ config[i] \in voting)
    /\ UNCHANGED <<history, master_index, replica_servers, repl,
                   OthersThanMembers>>

\* Mutant: the object is freed and left in the array of replicas.
FreeServerOnly(o) ==
    /\ Running /\ o \in leaving
    /\ leaving' = leaving \ {o}
    /\ UNCHANGED <<replica_servers, config, voting, pending, history,
                   master_index, repl, OthersThanMembers>>

\* The end of a raft_server thread: under replica_lock the object is taken out
\* of the array of replicas, then it is freed.
FreeServer(o) ==
    /\ Running /\ o \in leaving
    /\ replica_servers' = [i \in DOMAIN replica_servers |->
           IF replica_servers[i] = o THEN NULL ELSE replica_servers[i]]
    /\ leaving' = leaving \ {o}
    /\ UNCHANGED <<config, voting, pending, history, master_index, repl,
                   OthersThanMembers>>

\* Mutant: replica_cond is not signalled.
UpdateReplicaServersQuietly ==
    /\ Running /\ pending
    /\ replica_servers' = GetReplicaServers
    /\ pending' = FALSE
    /\ UNCHANGED <<repl, config, voting, leaving, history, master_index,
                   OthersThanMembers>>

\* The configuration entries are applied: under replica_lock the replicas are
\* chosen again and a waiting state_replication is signalled.
UpdateReplicaServers ==
    /\ Running /\ pending
    /\ replica_servers' = GetReplicaServers
    /\ repl' = IF repl.pc = "waiting" THEN Asleep ELSE repl
    /\ pending' = FALSE
    /\ UNCHANGED <<config, voting, leaving, history, master_index,
                   OthersThanMembers>>

-----------------------------------------------------------------------------
(* The primary in a replica's configuration, and faults                    *)

\* add_server makes the replica's server_t of the primary, with replica_index
\* 0, whatever its xApp already has.
NewServerOfPrimary(r) ==
    /\ replica_index' = [replica_index EXCEPT ![r] = 0]
    /\ kept' = [kept EXCEPT ![r] = copy[r]]
    /\ UNCHANGED <<copy, requests, replies>>

\* A replica's configuration gets the primary from the raft log.
Learn(r) ==
    /\ r \notin knows /\ Objects(r) # {}
    /\ knows' = knows \cup {r}
    /\ NewServerOfPrimary(r)
    /\ UNCHANGED OthersThanBackups

\* A replica appends a DEL_MEMBER of the primary, or removes its ADD_MEMBER from
\* its log, and keeps the xApp's state.
Forget(r) ==
    /\ r \in knows /\ faults < MaxFaults
    /\ faults' = faults + 1
    /\ knows' = knows \ {r}
    /\ UNCHANGED <<replica_index, copy, kept, requests, replies, log, app, exited,
                   members, master_index, replica_servers, repl, joining>>

\* commit_raft_config_snapshot at a replica: all servers are removed and those
\* of the snapshot, the primary one of them, are added.
CommitRaftConfigSnapshot(r) ==
    /\ r \in knows /\ faults < MaxFaults
    /\ faults' = faults + 1
    /\ NewServerOfPrimary(r)
    /\ UNCHANGED <<knows, log, app, exited, members, master_index,
                   replica_servers, repl, joining>>

\* A replica comes back with no state and asks for membership again.
RestartReplica(r) ==
    /\ faults < MaxFaults
    /\ faults' = faults + 1
    /\ copy' = [copy EXCEPT ![r] = << >>]
    /\ kept' = [kept EXCEPT ![r] = << >>]
    /\ replica_index' = [replica_index EXCEPT ![r] = 0]
    /\ knows' = knows \ {r}
    /\ joining' = joining \cup {r}
    /\ UNCHANGED <<log, app, exited, members, master_index,
                   replica_servers, repl, requests, replies>>

\* The primary comes back with no state, under its old membership.
RestartPrimary ==
    /\ faults < MaxFaults
    /\ faults' = faults + 1
    /\ xlog' = << >> /\ removed' = 0 /\ state' = << >>
    /\ caller' = [t \in Thread |-> NULL]
    /\ ctxtab' = H!NewTable /\ roletab' = H!NewTable
    /\ pipe' = NULL /\ compacting' = FALSE /\ snapshot' = NULL /\ exited' = ""
    /\ master_index' = [o \in Object |-> 0]
    /\ replica_servers' = << >> /\ pending' = TRUE /\ leaving' = {}
    /\ repl' = Asleep
    /\ UNCHANGED <<config, voting, joining, requests,
                   replies, backups>>

-----------------------------------------------------------------------------
Primary ==
    \/ \E t \in Thread : Replicate(t) \/ ApplyCommand(t)
    \/ ReadPipe \/ MetaReadFails \/ CompactEntry \/ EndCompaction

StateReplication == WakeUp \/ Pick \/ ReadLog \/ ReadSnapshot \/ Send

Handle(r) == HandleReplicationRequest(r) \/ HandleXappSnapshotRequest(r)

Messages == \E r \in Replica : Handle(r) \/ HandleReply(r)

Membership ==
    \/ \E r \in Replica : AddServer(r) \/ AddServerAgain(r)
                          \/ SetVoting(r) \/ RemoveServer(r)
                          \/ Learn(r) \/ Forget(r) \/ CommitRaftConfigSnapshot(r)
                          \/ RestartReplica(r)
    \/ \E o \in Object : FreeServer(o)
    \/ UpdateReplicaServers

Next == Primary \/ StateReplication \/ Messages \/ Membership

\* The threads run; a message that is sent again and again arrives.
Fairness ==
    /\ WF_vars(StateReplication)
    /\ WF_vars(ReadPipe \/ CompactEntry \/ EndCompaction)
    /\ WF_vars(UpdateReplicaServers)
    /\ \A r \in Replica :
          /\ SF_vars(Handle(r) /\ replies' # replies)
          /\ SF_vars(Send /\ requests'[r] # requests[r])
          /\ WF_vars(HandleReply(r))
          /\ WF_vars(Learn(r))

Spec == Init /\ [][Next]_vars /\ Fairness

\* The faults the code has no answer to.
FaultySpec == Init /\ [][Next \/ DataReadFails \/ RestartPrimary]_vars

-----------------------------------------------------------------------------
(* Properties                                                              *)

Prefix(n) == SubSeq(xlog, 1, n)

Command == Context \cup {NULL}
Table == [0 .. Buckets - 1 ->
             Seq([key : Context \cup Meid, value : {"PRIMARY"}])]
Snapshot == [last_index : Nat, data : Seq(Command)]
Message == [type : {"REPLICATION_REQ", "XAPP_SNAPSHOT_REQ"}, index : Nat,
            data : Seq(Command)]

\* Variables have their types; the ring has the entries compaction left in it.
TypeOK ==
    /\ xlog \in Seq(Context) /\ removed \in 0 .. Len(xlog)
    /\ Len(xlog) - removed <= Capacity
    /\ state \in Seq(Context) /\ caller \in [Thread -> Command]
    /\ ctxtab \in Table /\ roletab \in Table
    /\ pipe \in Snapshot \cup {NULL} /\ snapshot \in Snapshot \cup {NULL}
    /\ compacting \in BOOLEAN /\ exited \in {"", "full", "range"}
    /\ master_index \in [Object -> Nat]
    /\ repl \in [pc : {"asleep", "waiting", "pick", "read", "snapshot", "send"},
                 i : Nat, replica : Object \cup {NULL}, master : Nat,
                 msg : Message \cup {NULL}]
    /\ requests \in [Replica -> Seq(Message)]
    /\ replies \in [Replica -> Seq(Nat)]
    /\ replica_index \in [Replica -> Nat]
    /\ copy \in [Replica -> Seq(Command)] /\ kept \in [Replica -> Seq(Command)]

\* Since a replica's server_t of the primary was made, its xApp has applied
\* exactly the first replica_index commands of the primary, in their order, each
\* of them once: whatever was lost, resent, compacted or restarted, and whether
\* they came one by one (handle_replication_request) or in a snapshot
\* (handle_xapp_snapshot_request).  What the xApp had before a server_t was made
\* anew (add_server) stays before them; it is nothing for the first one.
BackupPrefix ==
    \A r \in Replica : /\ replica_index[r] <= Len(xlog)
                       /\ copy[r] = kept[r] \o Prefix(replica_index[r])

\* No index a replica answered makes state_replication ask for entries out of the
\* log's range, which ends the process (serialize_log_entries): only the raft index
\* in the membership request of a server that is already a member
\* (add_server) may be beyond the log.
NoRangeExit == exited = "range" => repl.master \in RejoinIndexes

\* No cell of the replica array leads to a freed server: the raft_server thread
\* clears its cells before it frees its object.
ReplicasNotFreed ==
    \A i \in DOMAIN replica_servers :
        replica_servers[i] # NULL => ~Freed(replica_servers[i])

\* What the xApp applied is the log, less the command whose rft_replicate did
\* not call apply_command_cb yet.
StateFollowsLog ==
    /\ (\A t \in Thread : caller[t] = NULL) => state = xlog
    /\ \A t \in Thread : caller[t] # NULL => xlog = Append(state, caller[t])

\* A context is PRIMARY in ctxtab when its equipment is PRIMARY in roletab, as
\* it is once a command changed it.
RolesRecorded ==
    /\ \A k \in Context : H!Get(roletab, MeidOf[k]) = "PRIMARY" =>
                              H!Get(ctxtab, k) = "PRIMARY"
    /\ \A i \in DOMAIN xlog : H!Get(ctxtab, xlog[i]) = "PRIMARY"

\* A snapshot has the commands its last_index says.
SnapshotOfLog(s) ==
    s # NULL => /\ s.last_index \in removed .. Len(xlog)
                /\ s.data = Prefix(s.last_index)

\* A message has the commands that follow its index, or the snapshot of them.
MessageOfLog(m) ==
    /\ m.index \in 0 .. Len(xlog)
    /\ IF m.type = "REPLICATION_REQ"
       THEN /\ m.index + Len(m.data) <= Len(xlog)
            /\ m.data = SubSeq(xlog, m.index + 1, m.index + Len(m.data))
       ELSE m.data = Prefix(m.index)

\* Whatever compact_server_log removed is in the snapshot that would be sent
\* instead; no other snapshot is taken meanwhile.
Snapshots ==
    /\ SnapshotOfLog(snapshot) /\ SnapshotOfLog(pipe)
    /\ removed > 0 \/ compacting => snapshot # NULL
    /\ compacting => pipe = NULL

\* An index the primary may hold of a replica: of the log, or brought by a
\* membership request.
IndexOfLog(i) == i <= Len(xlog) \/ i \in RejoinIndexes

InTransit ==
    /\ repl.pc = "send" => repl.msg \in Message /\ MessageOfLog(repl.msg)
    /\ IndexOfLog(repl.master)
    /\ \A r \in Replica :
          /\ \A i \in DOMAIN requests[r] : MessageOfLog(requests[r][i])
          /\ \A i \in DOMAIN replies[r] : replies[r][i] \in 0 .. Len(xlog)
    /\ \A o \in Object : IndexOfLog(master_index[o])

\* The invariant behind BackupPrefix and NoRangeExit: all that is on its way
\* from rft_replicate to the replicas and back is of the log.
Inv ==
    /\ TypeOK /\ NoRangeExit /\ BackupPrefix
    /\ StateFollowsLog /\ RolesRecorded /\ Snapshots /\ InTransit

\* Once the xApp stops and the membership settles, every chosen replica comes to
\* have acknowledged the whole log, for good, whatever was lost, compacted or
\* restarted on the way, unless the primary ended (its log ring overflowed, or a
\* membership request brought an index beyond the log): a rejected request too is
\* answered with the replica's index, from which state_replication goes on.
ShippingEnds ==
    <>[](\/ ~Running
         \/ \A i \in DOMAIN replica_servers :
               replica_servers[i] # NULL =>
                   master_index[replica_servers[i]] = Len(xlog))

\* "last_log_index is ok since the server has crashed or restarted, thus master index
\* is 0 in membership request" (src/src/config.c:161): no index of a membership
\* request is beyond the primary's log either.
RejoinIndexOk == exited # "range"

\* A backup applies no command of the primary twice: it never applied more commands
\* than the primary appended.
BackupAppliesOnce == \A r \in Replica : Len(copy[r]) <= Len(xlog)

\* What a replica has of the primary's commands only grows, until it restarts:
\* types.h says of replica_index that it "increases monotonically".
ReplicaIndexGrows ==
    [][\A r \in Replica : replica_index'[r] >= replica_index[r]
                          \/ (r \in knows /\ r \notin knows')]_vars
=============================================================================
