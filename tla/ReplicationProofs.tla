-------------------------- MODULE ReplicationProofs --------------------------
(***************************************************************************)
(* The replication of an xApp's state for any number of replicas, any      *)
(* workload and any bounds: backups have prefixes of the primary's log.    *)
(***************************************************************************)
EXTENDS Replication, SequenceTheorems, WellFoundedInduction, TLAPS

\* What the theorems are about: one xApp thread calls rft_replicate, and no two
\* contexts share an equipment.
Restrictions ==
    /\ \A t, u \in Thread : t = u
    /\ \A k, l \in Context : MeidOf[k] = MeidOf[l] => k = l

Key == Context \cup Meid

-----------------------------------------------------------------------------
(* The hash table                                                          *)

\* hashtable_get finds what hashtable_insert put, and the other keys' values.
LEMMA InsertGet ==
    ASSUME NEW table \in Table, NEW k \in Key
    PROVE  /\ H!Insert(table, k, "PRIMARY") \in Table
           /\ H!Get(H!Insert(table, k, "PRIMARY"), k) = "PRIMARY"
           /\ \A l \in Key \ {k} :
                 H!Get(H!Insert(table, k, "PRIMARY"), l) = H!Get(table, l)
<1> DEFINE new == H!Insert(table, k, "PRIMARY")
           b == HashCode[k]
           elem == [key |-> k, value |-> "PRIMARY"]
           Elem == [key : Key, value : {"PRIMARY"}]
           chain == IF H!Places(table, k) = {} THEN Append(table[b], elem)
                    ELSE [i \in DOMAIN table[b] |->
                             IF i \in H!Places(table, k) THEN elem
                             ELSE table[b][i]]
<1>1. /\ table \in [0 .. Buckets - 1 -> Seq(Elem)] /\ elem \in Elem
      /\ \A l \in Key : HashCode[l] \in 0 .. Buckets - 1
  BY Zenon, ReplicationAssumption DEF Table, Key
<1>2. b \in 0 .. Buckets - 1 /\ table[b] \in Seq(Elem)
  BY Zenon, <1>1
<1>3. new = [table EXCEPT ![b] = chain]
  BY Zenon DEF H!Insert
<1>4. \A i \in 1 .. Len(table[b]) : table[b][i] \in Elem
  BY Zenon, <1>2, ElementOfSeq
<1>5. \A i \in 1 .. Len(table[b]) : table[b][i].value = "PRIMARY"
  BY <1>4
<1>6. \A i \in 1 .. Len(table[b]) : i \in H!Places(table, k) => table[b][i] = elem
  BY <1>4, <1>5, Zenon DEF H!Places, H!Chain
<1>7. /\ chain \in Seq(Elem) /\ Len(chain) >= Len(table[b])
      /\ \A i \in 1 .. Len(table[b]) : chain[i] = table[b][i]
      /\ \A i \in 1 .. Len(chain) : i > Len(table[b]) => chain[i] = elem
      /\ \E i \in 1 .. Len(chain) : chain[i] = elem
  <2> HIDE DEF elem, b, Elem
  <2>1. CASE H!Places(table, k) = {}
    BY <1>1, <1>2, <2>1, AppendProperties
  <2>2. CASE H!Places(table, k) # {}
    <3>1. PICK i \in 1 .. Len(table[b]) : i \in H!Places(table, k)
      BY <2>2, Zenon DEF H!Places, H!Chain, b
    <3>2. chain = [j \in 1 .. Len(table[b]) |-> table[b][j]]
      BY <1>2, <1>6, <2>2
    <3>3. chain = table[b]
      BY <1>2, <3>2
    <3> QED BY <1>2, <1>6, <3>1, <3>3, LenProperties
  <2> QED BY Zenon, <2>1, <2>2
<1> HIDE DEF new, chain
<1>8. /\ new \in [0 .. Buckets - 1 -> Seq(Elem)]
      /\ new[b] = chain
      /\ \A c \in 0 .. Buckets - 1 : c # b => new[c] = table[c]
  BY Zenon, <1>1, <1>2, <1>3, <1>7
<1>9. \A t \in [0 .. Buckets - 1 -> Seq(Elem)] : \A l \in Key :
          IF \E i \in 1 .. Len(t[HashCode[l]]) : t[HashCode[l]][i].key = l
          THEN H!Get(t, l) = "PRIMARY" ELSE H!Get(t, l) = NULL
  <2> SUFFICES ASSUME NEW t \in [0 .. Buckets - 1 -> Seq(Elem)], NEW l \in Key
               PROVE  IF \E i \in 1 .. Len(t[HashCode[l]]) : t[HashCode[l]][i].key = l
                      THEN H!Get(t, l) = "PRIMARY" ELSE H!Get(t, l) = NULL
    BY Zenon
  <2> DEFINE ch == t[HashCode[l]]
             places == {i \in 1 .. Len(ch) : ch[i].key = l}
  <2>1. ch \in Seq(Elem) /\ \A i \in 1 .. Len(ch) : ch[i] \in Elem
    BY Zenon, <1>1, ElementOfSeq
  <2>2. \A i \in 1 .. Len(ch) : ch[i].value = "PRIMARY"
    BY <2>1
  <2>3. H!Get(t, l) = IF places = {} THEN NULL
                      ELSE ch[CHOOSE i \in places : TRUE].value
    BY Zenon DEF H!Get, H!Places, H!Chain
  <2>4. CASE places = {}
    BY Zenon, <2>3, <2>4
  <2>5. CASE places # {}
    <3>1. (CHOOSE i \in places : TRUE) \in places
      BY Zenon, <2>5
    <3> QED BY Zenon, <2>2, <2>3, <2>5, <3>1
  <2> QED BY <2>4, <2>5
<1>10. new \in Table
  BY Zenon, <1>8 DEF Table, Key
<1>11. H!Get(new, k) = "PRIMARY"
  <2>1. \E i \in 1 .. Len(new[HashCode[k]]) : new[HashCode[k]][i].key = k
    BY <1>7, <1>8
  <2> HIDE DEF Elem, elem
  <2> QED BY Zenon, <1>8, <1>9, <2>1
<1>12. ASSUME NEW l \in Key, l # k
       PROVE  H!Get(new, l) = H!Get(table, l)
  <2>1. CASE HashCode[l] # b
    <3>1. new[HashCode[l]] = table[HashCode[l]]
      BY <1>1, <1>8, <2>1
    <3> HIDE DEF Elem
    <3>2. /\ H!Get(new, l) = IF \E i \in 1 .. Len(new[HashCode[l]]) :
                                   new[HashCode[l]][i].key = l
                             THEN "PRIMARY" ELSE NULL
          /\ H!Get(table, l) = IF \E i \in 1 .. Len(table[HashCode[l]]) :
                                     table[HashCode[l]][i].key = l
                               THEN "PRIMARY" ELSE NULL
      BY Zenon, <1>1, <1>8, <1>9
    <3> QED BY <3>1, <3>2
  <2>2. CASE HashCode[l] = b
    <3> HIDE DEF b
    <3>1. elem.key # l
      BY <1>12
    <3> HIDE DEF elem
    <3> HIDE DEF Elem
    <3>2. Len(chain) \in Nat /\ Len(table[b]) \in Nat
      BY <1>2, <1>7
    <3>3. ASSUME NEW i \in 1 .. Len(chain), chain[i].key = l
          PROVE  i \in 1 .. Len(table[b]) /\ table[b][i].key = l
      BY <1>7, <3>1, <3>2, <3>3
    <3>4. ASSUME NEW i \in 1 .. Len(table[b]), table[b][i].key = l
          PROVE  i \in 1 .. Len(chain) /\ chain[i].key = l
      BY <1>7, <3>2, <3>4
    <3>5. (\E i \in 1 .. Len(chain) : chain[i].key = l)
          <=> (\E i \in 1 .. Len(table[b]) : table[b][i].key = l)
      BY <3>3, <3>4
    <3>6. /\ H!Get(new, l) = IF \E i \in 1 .. Len(chain) : chain[i].key = l
                             THEN "PRIMARY" ELSE NULL
          /\ H!Get(table, l) = IF \E i \in 1 .. Len(table[b]) : table[b][i].key = l
                               THEN "PRIMARY" ELSE NULL
      BY Zenon, <1>1, <1>8, <1>9, <2>2
    <3> QED BY <3>5, <3>6
  <2> QED BY <2>1, <2>2
<1> QED BY <1>10, <1>11, <1>12 DEF new

\* A context whose role is PRIMARY is among those primary_ctx_handler collects.
LEMMA PrimaryCollected ==
    ASSUME NEW table \in Table, NEW k \in Context, H!Get(table, k) = "PRIMARY"
    PROVE  k \in PrimaryContexts(table)
<1>1. PICK i \in H!Places(table, k) : TRUE
  BY ReplicationAssumption DEF H!Get
<1>2. /\ HashCode[k] \in DOMAIN table /\ i \in DOMAIN table[HashCode[k]]
      /\ table[HashCode[k]][i].key = k
  BY <1>1, ReplicationAssumption DEF H!Places, H!Chain, Table
<1>3. k \in H!Keys(table)
  BY <1>2 DEF H!Keys
<1> QED BY <1>3 DEF PrimaryContexts

-----------------------------------------------------------------------------
(* The log                                                                 *)

\* A prefix of the log, or a piece of it, stays the same when an entry is
\* appended.
LEMMA AppendKeeps ==
    ASSUME NEW s \in Seq(Context), NEW k \in Context,
           NEW m \in Nat, NEW n \in Nat, n <= Len(s)
    PROVE  SubSeq(Append(s, k), m + 1, n) = SubSeq(s, m + 1, n)
<1>1. /\ Append(s, k) \in Seq(Context) /\ Len(Append(s, k)) = Len(s) + 1
      /\ \A i \in 1 .. Len(s) : Append(s, k)[i] = s[i]
  BY AppendProperties
<1> DEFINE t == Append(s, k)
<1> HIDE DEF t
<1>2. CASE m + 1 <= n
  <2>1. /\ SubSeq(t, m + 1, n) = [i \in 1 .. n - m |-> t[i + m]]
        /\ SubSeq(s, m + 1, n) = [i \in 1 .. n - m |-> s[i + m]]
    BY <1>1, <1>2 DEF t
  <2>2. \A i \in 1 .. n - m : t[i + m] = s[i + m]
    BY <1>1, <1>2 DEF t
  <2> QED BY <2>1, <2>2 DEF t
<1>3. CASE m + 1 > n
  BY <1>1, <1>3, SubSeqEmpty DEF t
<1> QED BY <1>2, <1>3

\* A prefix followed by the entries after it is a longer prefix.
LEMMA PrefixContinues ==
    ASSUME NEW s \in Seq(Context), NEW m \in Nat, NEW n \in Nat,
           m + n <= Len(s)
    PROVE  /\ SubSeq(s, 1, m) \o SubSeq(s, m + 1, m + n) = SubSeq(s, 1, m + n)
           /\ Len(SubSeq(s, m + 1, m + n)) = n
           /\ SubSeq(s, m + 1, m + n) \in Seq(Command)
           /\ SubSeq(s, 1, m) \in Seq(Command)
<1>1. s \in Seq(Command)
  BY SeqMonotonic DEF Command
<1>2. /\ \A i \in 1 .. Len(s) : s[i] \in Command
      /\ Len(s) \in Nat
  BY <1>1
<1> DEFINE x == SubSeq(s, 1, m)
           y == SubSeq(s, m + 1, m + n)
           z == SubSeq(s, 1, m + n)
<1>3. /\ x \in Seq(Command) /\ Len(x) = m /\ \A i \in 1 .. m : x[i] = s[i]
      /\ y \in Seq(Command) /\ Len(y) = n /\ \A i \in 1 .. n : y[i] = s[m + i]
      /\ z \in Seq(Command) /\ Len(z) = m + n
      /\ \A i \in 1 .. m + n : z[i] = s[i]
  <2>1. /\ \A i \in 1 .. m : s[i] \in Command
        /\ \A i \in m + 1 .. m + n : s[i] \in Command
        /\ \A i \in 1 .. m + n : s[i] \in Command
    BY <1>2
  <2>2. x \in Seq(Command) /\ Len(x) = m /\ \A i \in 1 .. m : x[i] = s[i]
    BY <2>1, SubSeqProperties
  <2>3. y \in Seq(Command) /\ Len(y) = n /\ \A i \in 1 .. n : y[i] = s[m + i]
    BY <2>1, SubSeqProperties
  <2>4. /\ z \in Seq(Command) /\ Len(z) = m + n
        /\ \A i \in 1 .. m + n : z[i] = s[i]
    BY <2>1, SubSeqProperties
  <2> QED BY Zenon, <2>2, <2>3, <2>4
<1> HIDE DEF x, y, z
<1> DEFINE w == x \o y
<1>4. /\ w \in Seq(Command) /\ Len(w) = Len(x) + Len(y)
      /\ \A i \in 1 .. Len(x) + Len(y) :
            w[i] = IF i <= Len(x) THEN x[i] ELSE y[i - Len(x)]
  <2>1. x \in Seq(Command) /\ y \in Seq(Command)
    BY <1>3
  <2>2. /\ x \o y \in Seq(Command) /\ Len(x \o y) = Len(x) + Len(y)
        /\ \A i \in 1 .. Len(x) + Len(y) :
              (x \o y)[i] = IF i <= Len(x) THEN x[i] ELSE y[i - Len(x)]
    BY <2>1, ConcatProperties
  <2> QED BY <2>2
<1> HIDE DEF w
<1>5. Len(w) = m + n /\ \A i \in 1 .. m + n : w[i] = z[i]
  <2>1. Len(w) = m + n
    BY <1>3, <1>4
  <2>2. ASSUME NEW i \in 1 .. m + n PROVE w[i] = z[i]
    <3>1. w[i] = (IF i <= m THEN x[i] ELSE y[i - m]) /\ z[i] = s[i]
      BY <1>3, <1>4
    <3>2. CASE i <= m
      <4>1. i \in 1 .. m
        BY <3>2
      <4> QED BY <1>3, <3>1, <3>2, <4>1
    <3>3. CASE ~(i <= m)
      <4>1. i - m \in 1 .. n /\ m + (i - m) = i
        BY <3>3
      <4>2. y[i - m] = s[m + (i - m)]
        BY <1>3, <4>1
      <4> QED BY <3>1, <3>3, <4>1, <4>2
    <3> QED BY <3>2, <3>3
  <2> QED BY <2>1, <2>2
<1>6. x \o y = z
  BY Zenon, <1>3, <1>4, <1>5, SeqEqual DEF w
<1> QED BY <1>3, <1>6 DEF x, y, z

-----------------------------------------------------------------------------
(* The steps                                                               *)

\* At first nothing is appended, applied or on its way.
LEMMA Initially == Init => Inv
<1> SUFFICES ASSUME Init PROVE Inv
  OBVIOUS
<1> DEFINE e == << >>
<1>1. /\ xlog = e /\ removed = 0 /\ state = e
      /\ caller = [t \in Thread |-> NULL]
      /\ ctxtab = H!NewTable /\ roletab = H!NewTable
      /\ pipe = NULL /\ snapshot = NULL /\ compacting = FALSE /\ exited = ""
      /\ master_index = [o \in Object |-> 0] /\ repl = Asleep
      /\ requests = [r \in Replica |-> e]
      /\ replies = [r \in Replica |-> e]
      /\ replica_index = [r \in Replica |-> 0]
      /\ copy = [r \in Replica |-> e] /\ kept = [r \in Replica |-> e]
  BY Zenon DEF Init
<1>2. /\ e \in Seq(Context) /\ e \in Seq(Message) /\ e \in Seq(Nat)
      /\ e \in Seq(Command) /\ Len(e) = 0 /\ DOMAIN e = {}
      /\ SubSeq(e, 1, 0) = e /\ e \o e = e
  <2>1. /\ e \in Seq(Context) /\ e \in Seq(Message) /\ e \in Seq(Nat)
        /\ e \in Seq(Command) /\ Len(e) = 0
    BY EmptySeq
  <2>2. DOMAIN e = 1 .. 0
    BY <2>1, LenProperties
  <2>3. e \o e = e
    BY <2>1, ConcatEmptySeq
  <2> QED BY <2>1, <2>2, <2>3, SubSeqEmpty
<1> HIDE DEF e
<1>3. H!NewTable \in Table
  BY DEF H!NewTable, Table
<1>4. \A k \in Key : H!Get(H!NewTable, k) = NULL
  BY ReplicationAssumption DEF H!Get, H!Places, H!Chain, H!NewTable, Key
<1>5. TypeOK
  <2>1. ctxtab \in Table /\ roletab \in Table
    BY Zenon, <1>1, <1>3
  <2>2. /\ removed = 0 /\ Len(xlog) = 0
        /\ xlog \in Seq(Context) /\ state \in Seq(Context)
        /\ pipe = NULL /\ snapshot = NULL /\ exited = ""
    BY Zenon, <1>1, <1>2
  <2>3. caller \in [Thread -> Command] /\ master_index \in [Object -> Nat]
    BY Zenon, <1>1 DEF Command
  <2>4. /\ requests \in [Replica -> Seq(Message)]
        /\ replies \in [Replica -> Seq(Nat)]
        /\ replica_index \in [Replica -> Nat]
        /\ copy \in [Replica -> Seq(Command)] /\ kept \in [Replica -> Seq(Command)]
    BY Zenon, <1>1, <1>2
  <2>5. repl \in [pc : {"asleep", "waiting", "pick", "read", "snapshot", "send"},
                  i : Nat, replica : Object \cup {NULL}, master : Nat,
                  msg : Message \cup {NULL}]
    BY Zenon, <1>1, <1>2 DEF Asleep
  <2>6. /\ removed \in 0 .. Len(xlog) /\ Len(xlog) - removed <= Capacity
    <3>1. Capacity \in Nat
      BY ReplicationAssumption
    <3>2. removed = 0 /\ Len(xlog) = 0
      BY Zenon, <1>1, <1>2
    <3> QED BY <3>1, <3>2
  <2>7. compacting \in BOOLEAN /\ exited \in {"", "full", "range"}
    BY <1>1, Zenon
  <2> QED
    BY <2>1, <2>2, <2>3, <2>4, <2>5, <2>6, <2>7, Zenon DEF TypeOK
<1>6. BackupPrefix /\ StateFollowsLog
  <2>1. \A r \in Replica : replica_index[r] = 0 /\ copy[r] = e /\ kept[r] = e
    BY Zenon, <1>1
  <2>2. BackupPrefix
    <3>1. xlog = e /\ Len(e) = 0 /\ SubSeq(e, 1, 0) = e
      BY Zenon, <1>1, <1>2
    <3>2. Len(xlog) = 0 /\ Prefix(0) = e
      BY <3>1 DEF Prefix
    <3>3. 0 <= Len(xlog)
      BY <3>2
    <3> QED BY <1>2, <2>1, <3>2, <3>3, Zenon DEF BackupPrefix
  <2>3. StateFollowsLog
    BY Zenon, <1>1 DEF StateFollowsLog
  <2> QED BY <2>2, <2>3
<1>7. RolesRecorded
  <2>1. \A k \in Context : MeidOf[k] \in Key
    BY DEF Key, Meid
  <2>2. roletab = H!NewTable /\ DOMAIN xlog = {}
    BY Zenon, <1>1, <1>2
  <2> QED
    BY <1>4, <2>1, <2>2, ReplicationAssumption DEF RolesRecorded
<1>8. removed = 0 /\ repl.master = 0 /\ Len(xlog) = 0
  BY Zenon, <1>1, <1>2 DEF Asleep
<1>9. /\ exited = "" /\ snapshot = NULL /\ pipe = NULL /\ ~compacting
      /\ repl.pc = "asleep"
  BY <1>1, Zenon DEF Asleep
<1>10. \A r \in Replica : /\ DOMAIN requests[r] = {} /\ DOMAIN replies[r] = {}
  BY Zenon, <1>1, <1>2
<1>11. \A o \in Object : master_index[o] = 0
  BY Zenon, <1>1, <1>2
<1> QED
  <2>1. NoRangeExit
    BY <1>9, Zenon DEF NoRangeExit
  <2>2. Snapshots
    <3>1. ~(removed > 0)
      BY <1>8
    <3> QED BY <1>9, <3>1, Zenon DEF Snapshots, SnapshotOfLog
  <2>3. InTransit
    <3>1. repl.master <= Len(xlog)
      BY <1>8
    <3>2. \A o \in Object : master_index[o] <= Len(xlog)
      BY <1>8, <1>11
    <3> QED BY <1>10, <1>9, <3>1, <3>2, Zenon DEF InTransit, IndexOfLog
  <2> QED
    BY <1>5, <1>6, <1>7, <2>1, <2>2, <2>3, Zenon DEF Inv

\* What was of the log is of the longer log.
LEMMA LogGrows ==
    ASSUME Inv, NEW k \in Context, xlog' = Append(xlog, k),
           UNCHANGED <<removed, compacting, snapshot, master_index, repl,
                       requests, replies, backups>>
    PROVE  /\ BackupPrefix' /\ InTransit'
           /\ \A s : SnapshotOfLog(s) => SnapshotOfLog(s)'
<1>1. /\ xlog \in Seq(Context) /\ Len(xlog) \in Nat /\ Len(xlog') = Len(xlog) + 1
      /\ replica_index \in [Replica -> Nat] /\ master_index \in [Object -> Nat]
      /\ removed \in Nat /\ repl.master \in Nat
  <2>1. xlog \in Seq(Context) /\ removed \in 0 .. Len(xlog)
    BY Zenon DEF Inv, TypeOK
  <2>2. replica_index \in [Replica -> Nat] /\ master_index \in [Object -> Nat]
    BY Zenon DEF Inv, TypeOK
  <2>3. repl.master \in Nat
    BY Zenon DEF Inv, TypeOK
  <2>4. Len(Append(xlog, k)) = Len(xlog) + 1 /\ Len(xlog) \in Nat
    BY <2>1, AppendProperties
  <2> QED BY <2>1, <2>2, <2>3, <2>4
<1>2. \A m, n \in Nat : n <= Len(xlog) =>
          SubSeq(xlog', m + 1, n) = SubSeq(xlog, m + 1, n)
  BY <1>1, AppendKeeps
<1>3. \A n \in 0 .. Len(xlog) : SubSeq(xlog', 1, n) = SubSeq(xlog, 1, n)
  <2>1. \A n \in 0 .. Len(xlog) : n \in Nat /\ n <= Len(xlog) /\ 0 \in Nat /\ 0 + 1 = 1
    BY <1>1
  <2> QED BY <1>2, <2>1
<1>4. BackupPrefix'
  <2>1. \A r \in Replica : /\ replica_index[r] <= Len(xlog)
                           /\ copy[r] = kept[r] \o SubSeq(xlog, 1, replica_index[r])
    BY Zenon DEF Inv, BackupPrefix, Prefix
  <2>2. \A r \in Replica : /\ replica_index[r] \in 0 .. Len(xlog)
                           /\ replica_index[r] <= Len(xlog')
    BY <1>1, <2>1
  <2> QED BY <1>3, <2>1, <2>2, Zenon DEF BackupPrefix, Prefix, backups
<1>5. ASSUME NEW s, SnapshotOfLog(s)
      PROVE  SnapshotOfLog(s)'
  BY <1>1, <1>3, <1>5 DEF SnapshotOfLog, Prefix
<1>6. ASSUME NEW m \in Message, MessageOfLog(m)
      PROVE  MessageOfLog(m)'
  <2>1. m.index \in 0 .. Len(xlog) /\ m.index \in Nat /\ Len(m.data) \in Nat
    BY <1>1, <1>6 DEF MessageOfLog, Message
  <2>2. CASE m.type = "REPLICATION_REQ"
    BY <1>1, <1>2, <1>6, <2>1, <2>2 DEF MessageOfLog
  <2>3. CASE m.type # "REPLICATION_REQ"
    BY <1>1, <1>3, <1>6, <2>1, <2>3 DEF MessageOfLog, Prefix
  <2> QED BY <2>2, <2>3
<1>7. (repl.pc = "send" => repl.msg \in Message /\ MessageOfLog(repl.msg))'
  <2> SUFFICES ASSUME repl.pc = "send" PROVE repl.msg \in Message /\ MessageOfLog(repl.msg)'
    OBVIOUS
  <2>1. MessageOfLog(repl.msg) /\ repl.msg \in Message
    BY DEF Inv, InTransit
  <2> QED BY <1>6, <2>1
<1>8. (\A r \in Replica :
         /\ \A i \in DOMAIN requests[r] : MessageOfLog(requests[r][i])
         /\ \A i \in DOMAIN replies[r] : replies[r][i] \in 0 .. Len(xlog))'
  <2> SUFFICES ASSUME NEW r \in Replica
               PROVE  /\ \A i \in DOMAIN requests[r] : MessageOfLog(requests[r][i])'
                      /\ \A i \in DOMAIN replies[r] : replies[r][i] \in 0 .. Len(xlog')
    OBVIOUS
  <2>1. requests[r] \in Seq(Message) /\ replies[r] \in Seq(Nat)
    BY Zenon DEF Inv, TypeOK
  <2>2. \A i \in DOMAIN requests[r] : requests[r][i] \in Message
    BY <2>1
  <2>3. \A i \in DOMAIN requests[r] : MessageOfLog(requests[r][i])
    BY DEF Inv, InTransit
  <2>4. \A i \in DOMAIN replies[r] : replies[r][i] \in 0 .. Len(xlog)
    BY DEF Inv, InTransit
  <2> QED BY <1>1, <1>6, <2>2, <2>3, <2>4
<1>9. (IndexOfLog(repl.master) /\ \A o \in Object : IndexOfLog(master_index[o]))'
  BY <1>1 DEF Inv, InTransit, IndexOfLog
<1> QED
  BY <1>4, <1>5, <1>7, <1>8, <1>9, Zenon DEF InTransit

\* A part whose variables a step leaves alone stays true.
LEMMA BackupPrefixStays ==
    ASSUME BackupPrefix, UNCHANGED <<xlog, replica_index, copy, kept>>
    PROVE  BackupPrefix'
BY Zenon DEF BackupPrefix, Prefix

\* The same for what the xApp applied and for the tables of roles.
LEMMA RolesStay ==
    ASSUME StateFollowsLog, RolesRecorded,
           UNCHANGED <<xlog, state, caller, ctxtab, roletab>>
    PROVE  StateFollowsLog' /\ RolesRecorded'
BY Zenon DEF StateFollowsLog, RolesRecorded

\* The same for the snapshots.
LEMMA SnapshotsStay ==
    ASSUME Snapshots, UNCHANGED <<xlog, removed, pipe, compacting, snapshot>>
    PROVE  Snapshots'
BY Zenon DEF Snapshots, SnapshotOfLog, Prefix

\* The same for the messages and the indexes.
LEMMA InTransitStays ==
    ASSUME InTransit,
           UNCHANGED <<xlog, repl, requests, replies, master_index>>
    PROVE  InTransit'
BY Zenon DEF InTransit, MessageOfLog, Prefix, IndexOfLog

\* A step that changes only the members and the array of replicas.
LEMMA MembershipStep ==
    ASSUME Inv,
           UNCHANGED <<log, app, exited, master_index, repl, requests, replies,
                       replica_index, copy, kept>>
    PROVE  Inv'
<1>1. TypeOK' /\ NoRangeExit'
  BY Zenon DEF Inv, TypeOK, NoRangeExit, log, app
<1> QED
  BY <1>1, BackupPrefixStays, RolesStay, SnapshotsStay, InTransitStays, Zenon
     DEF Inv, log, app

\* The xApp applies the command that was appended last.
LEMMA ApplyCommandStep ==
    ASSUME Restrictions, Inv, NEW t \in Thread, ApplyCommand(t)
    PROVE  Inv'
<1>1. /\ state' = Append(state, caller[t])
      /\ caller' = [caller EXCEPT ![t] = NULL]
      /\ caller[t] # NULL /\ caller[t] \in Context
  BY Zenon DEF ApplyCommand, Inv, TypeOK, Command
<1>2. UNCHANGED <<log, ctxtab, roletab, exited, master_index, repl, requests,
                  replies, replica_index, copy, kept>>
  BY DEF ApplyCommand, backups
<1>3. TypeOK' /\ NoRangeExit'
  <2>1. state' \in Seq(Context) /\ caller' \in [Thread -> Command]
    <3>1. state \in Seq(Context) /\ caller \in [Thread -> Command]
      BY Zenon DEF Inv, TypeOK
    <3> QED BY <1>1, <3>1, AppendProperties DEF Command
  <2> QED
    BY <1>2, <2>1, Zenon DEF Inv, TypeOK, NoRangeExit, log
<1>4. StateFollowsLog'
  <2>1. xlog = Append(state, caller[t])
    BY <1>1 DEF Inv, StateFollowsLog
  <2>2. \A u \in Thread : caller'[u] = NULL
    BY Zenon, <1>1 DEF Restrictions, Inv, TypeOK
  <2> QED
    BY <1>1, <1>2, <2>1, <2>2, Zenon DEF StateFollowsLog, log
<1>5. RolesRecorded'
  BY <1>2, Zenon DEF Inv, RolesRecorded, log
<1> QED
  BY <1>2, <1>3, <1>4, <1>5, BackupPrefixStays, SnapshotsStay, InTransitStays,
     Zenon DEF Inv, log

\* The child's copy of the xApp has the whole log.
LEMMA SnapshotHasLog ==
    ASSUME Restrictions, Inv, NEW table \in Table,
           \A u \in Thread : caller[u] = NULL,
           \A i \in DOMAIN xlog : H!Get(table, xlog[i]) = "PRIMARY"
    PROVE  TakeSnapshot(table) = xlog
<1>1. state = xlog /\ xlog \in Seq(Context)
  BY Zenon DEF Inv, TypeOK, StateFollowsLog
<1>2. \A i \in DOMAIN xlog : xlog[i] \in PrimaryContexts(table)
  BY <1>1, PrimaryCollected
<1>3. TakeSnapshot(table) = [i \in DOMAIN xlog |-> xlog[i]]
  BY <1>1, <1>2, Zenon DEF TakeSnapshot
<1> QED BY <1>1, <1>3

\* rft_replicate enters the command's context before it takes a snapshot.
LEMMA RolesEntered ==
    ASSUME Restrictions, Inv, NEW k \in Context,
           NEW new, new = (H!Get(roletab, MeidOf[k]) # "PRIMARY"),
           roletab' = IF new THEN H!Insert(roletab, MeidOf[k], "PRIMARY")
                      ELSE roletab,
           ctxtab' = IF new THEN H!Insert(ctxtab, k, "PRIMARY") ELSE ctxtab
    PROVE  /\ roletab' \in Table /\ ctxtab' \in Table
           /\ \A l \in Context : H!Get(roletab', MeidOf[l]) = "PRIMARY" =>
                                     H!Get(ctxtab', l) = "PRIMARY"
           /\ \A i \in DOMAIN xlog : H!Get(ctxtab', xlog[i]) = "PRIMARY"
           /\ H!Get(ctxtab', k) = "PRIMARY"
<1>1. /\ roletab \in Table /\ ctxtab \in Table
      /\ \A l \in Context : H!Get(roletab, MeidOf[l]) = "PRIMARY" =>
                                H!Get(ctxtab, l) = "PRIMARY"
      /\ \A i \in DOMAIN xlog : H!Get(ctxtab, xlog[i]) = "PRIMARY"
  BY Zenon DEF Inv, TypeOK, RolesRecorded
<1>2. /\ \A i \in DOMAIN xlog : xlog[i] \in Context
      /\ \A l \in Context : l \in Key /\ MeidOf[l] \in Key
      /\ \A l \in Context : l # k => MeidOf[l] # MeidOf[k]
  <2>1. xlog \in Seq(Context)
    BY Zenon DEF Inv, TypeOK
  <2>2. \A l \in Context : l # k => MeidOf[l] # MeidOf[k]
    BY Zenon DEF Restrictions
  <2>3. \A l \in Context : l \in Key /\ MeidOf[l] \in Key
    BY DEF Key, Meid
  <2> QED BY <2>1, <2>2, <2>3
<1>3. CASE new
  <2>1. /\ roletab' = H!Insert(roletab, MeidOf[k], "PRIMARY")
        /\ ctxtab' = H!Insert(ctxtab, k, "PRIMARY")
    BY <1>3, Zenon
  <2>2. /\ roletab' \in Table
        /\ \A l \in Key \ {MeidOf[k]} : H!Get(roletab', l) = H!Get(roletab, l)
    <3> DEFINE t == H!Insert(roletab, MeidOf[k], "PRIMARY")
    <3>1. t \in Table /\ \A l \in Key \ {MeidOf[k]} : H!Get(t, l) = H!Get(roletab, l)
      BY <1>1, <1>2, InsertGet
    <3> QED BY <2>1, <3>1
  <2>3. /\ ctxtab' \in Table /\ H!Get(ctxtab', k) = "PRIMARY"
        /\ \A l \in Key \ {k} : H!Get(ctxtab', l) = H!Get(ctxtab, l)
    <3> DEFINE t == H!Insert(ctxtab, k, "PRIMARY")
    <3>1. /\ t \in Table /\ H!Get(t, k) = "PRIMARY"
          /\ \A l \in Key \ {k} : H!Get(t, l) = H!Get(ctxtab, l)
      BY <1>1, <1>2, InsertGet
    <3> QED BY <2>1, <3>1
  <2>4. \A l \in Context : H!Get(ctxtab, l) = "PRIMARY" => H!Get(ctxtab', l) = "PRIMARY"
    BY <1>2, <2>3, Zenon
  <2>5. \A l \in Context : H!Get(roletab', MeidOf[l]) = "PRIMARY" =>
                               H!Get(ctxtab', l) = "PRIMARY"
    <3> SUFFICES ASSUME NEW l \in Context, H!Get(roletab', MeidOf[l]) = "PRIMARY"
                 PROVE  H!Get(ctxtab', l) = "PRIMARY"
      OBVIOUS
    <3>1. CASE l = k
      BY <2>3, <3>1, Zenon
    <3>2. CASE l # k
      <4>1. MeidOf[l] \in Key \ {MeidOf[k]}
        BY <1>2, <3>2
      <4> QED BY <1>1, <2>2, <2>4, <4>1, Zenon
    <3> QED BY <3>1, <3>2
  <2> QED BY <1>1, <1>2, <2>2, <2>3, <2>4, <2>5, Zenon
<1>4. CASE ~new
  BY <1>1, <1>4, Zenon
<1> QED BY <1>3, <1>4

\* rft_replicate appends a command, or finds the ring full.
LEMMA ReplicateStep ==
    ASSUME Restrictions, Inv, NEW t \in Thread, Replicate(t)
    PROVE  Inv'
<1> DEFINE k == Workload[Len(xlog) + 1]
           taken == Len(xlog) - removed > Threshold /\ pipe = NULL /\ ~compacting
<1>1. /\ caller[t] = NULL /\ Len(xlog) < Len(Workload)
      /\ UNCHANGED <<removed, compacting, snapshot, state, master_index, repl,
                     requests, replies, backups>>
  BY Zenon DEF Replicate
<1>2. PICK new \in {H!Get(roletab, MeidOf[k]) # "PRIMARY"} :
         /\ roletab' = IF new THEN H!Insert(roletab, MeidOf[k], "PRIMARY")
                       ELSE roletab
         /\ ctxtab' = IF new THEN H!Insert(ctxtab, k, "PRIMARY") ELSE ctxtab
  BY Zenon DEF Replicate
<1>3. pipe' = IF taken THEN [last_index |-> Len(xlog), data |-> TakeSnapshot(ctxtab')]
              ELSE pipe
  BY Zenon DEF Replicate
<1>4. \/ /\ Len(xlog) - removed < Capacity
         /\ xlog' = Append(xlog, k)
         /\ caller' = [caller EXCEPT ![t] = k]
         /\ UNCHANGED exited
      \/ exited' = "full" /\ UNCHANGED <<xlog, caller>>
  BY Zenon DEF Replicate
<1>5. /\ xlog \in Seq(Context) /\ removed \in 0 .. Len(xlog) /\ Len(xlog) \in Nat
      /\ Len(xlog) - removed <= Capacity
      /\ caller \in [Thread -> Command]
  <2>1. /\ xlog \in Seq(Context) /\ removed \in 0 .. Len(xlog)
        /\ Len(xlog) - removed <= Capacity
        /\ caller \in [Thread -> Command]
    BY Zenon DEF Inv, TypeOK
  <2> QED BY <2>1
<1>6. k \in Context
  BY <1>1, <1>5, ReplicationAssumption
<1>7. /\ roletab' \in Table /\ ctxtab' \in Table
      /\ \A l \in Context : H!Get(roletab', MeidOf[l]) = "PRIMARY" =>
                                H!Get(ctxtab', l) = "PRIMARY"
      /\ \A i \in DOMAIN xlog : H!Get(ctxtab', xlog[i]) = "PRIMARY"
      /\ H!Get(ctxtab', k) = "PRIMARY"
  BY <1>2, <1>6, RolesEntered, Zenon
<1>8. \A u \in Thread : caller[u] = NULL
  BY <1>1, Zenon DEF Restrictions
<1>9. TakeSnapshot(ctxtab') = xlog
  BY <1>7, <1>8, SnapshotHasLog, Zenon
<1>10. state = xlog
  BY <1>8, Zenon DEF Inv, StateFollowsLog
<1> HIDE DEF k
<1> DEFINE s == [last_index |-> Len(xlog), data |-> xlog]
<1>11. s \in Snapshot /\ SnapshotOfLog(s)
  <2>1. xlog \in Seq(Command)
    BY <1>5, SeqMonotonic DEF Command
  <2>2. Len(xlog) \in removed .. Len(xlog) /\ xlog = Prefix(Len(xlog))
    BY <1>5, SubSeqFull DEF Prefix
  <2> QED BY <1>5, <2>1, <2>2 DEF Snapshot, SnapshotOfLog
<1> HIDE DEF s
<1>12. pipe' = s \/ pipe' = pipe
  BY <1>3, <1>9, Zenon DEF s
<1>13. pipe' = s => ~compacting \/ pipe' = pipe
  BY <1>3, Zenon
<1> HIDE DEF taken
<1>14. ASSUME Append(xlog, k) = xlog', Len(xlog) - removed < Capacity,
              caller' = [caller EXCEPT ![t] = k], UNCHANGED exited
       PROVE  Inv'
  <2>1. BackupPrefix' /\ InTransit' /\ \A x : SnapshotOfLog(x) => SnapshotOfLog(x)'
    BY <1>1, <1>6, <1>14, LogGrows, Zenon
  <2>2. /\ xlog' \in Seq(Context) /\ Len(xlog') = Len(xlog) + 1
        /\ \A i \in 1 .. Len(xlog) : xlog'[i] = xlog[i]
        /\ xlog'[Len(xlog) + 1] = k
    <3>1. xlog \in Seq(Context)
      BY <1>5
    <3>2. /\ Append(xlog, k) \in Seq(Context) /\ Len(Append(xlog, k)) = Len(xlog) + 1
          /\ \A i \in 1 .. Len(xlog) : Append(xlog, k)[i] = xlog[i]
          /\ Append(xlog, k)[Len(xlog) + 1] = k
      BY <1>6, <3>1, AppendProperties
    <3> QED BY <1>14, <3>2, Zenon
  <2>3. TypeOK' /\ NoRangeExit'
    <3>1. removed' \in 0 .. Len(xlog') /\ Len(xlog') - removed' <= Capacity
      BY <1>1, <1>5, <1>14, <2>2, ReplicationAssumption
    <3>2. caller' \in [Thread -> Command]
      BY <1>5, <1>6, <1>14 DEF Command
    <3>3. pipe' \in Snapshot \cup {NULL}
      BY Zenon, <1>11, <1>12 DEF Inv, TypeOK
    <3> QED
      BY <1>1, <1>7, <1>14, <2>2, <3>1, <3>2, <3>3, Zenon
         DEF Inv, TypeOK, NoRangeExit, backups
  <2>4. StateFollowsLog'
    <3>1. caller'[t] = k /\ \A u \in Thread : u = t
      BY <1>5, <1>14, Zenon DEF Restrictions
    <3> QED
      BY <1>1, <1>6, <1>10, <1>14, <3>1, ReplicationAssumption, Zenon
         DEF StateFollowsLog
  <2>5. RolesRecorded'
    <3>1. \A i \in DOMAIN xlog' : i \in DOMAIN xlog \/ i = Len(xlog) + 1
      BY <1>5, <2>2
    <3>2. \A i \in DOMAIN xlog : xlog'[i] = xlog[i]
      BY <1>5, <2>2
    <3>3. \A i \in DOMAIN xlog' : H!Get(ctxtab', xlog'[i]) = "PRIMARY"
      BY <1>7, <2>2, <3>1, <3>2, Zenon
    <3> QED BY <1>7, <3>3, Zenon DEF RolesRecorded
  <2>6. Snapshots'
    BY <1>1, <1>11, <1>12, <1>13, <2>1, Zenon DEF Inv, Snapshots
  <2> QED BY <2>1, <2>3, <2>4, <2>5, <2>6, Zenon DEF Inv
<1>15. ASSUME exited' = "full", UNCHANGED <<xlog, caller>>
       PROVE  Inv'
  <2>1. TypeOK' /\ NoRangeExit'
    <3>1. pipe' \in Snapshot \cup {NULL}
      BY Zenon, <1>11, <1>12 DEF Inv, TypeOK
    <3>2. exited' \in {"", "full", "range"} /\ exited' # "range"
      BY <1>15
    <3> QED
      BY <1>1, <1>7, <1>15, <3>1, <3>2, Zenon DEF Inv, TypeOK, NoRangeExit, backups
  <2>2. RolesRecorded'
    BY <1>7, <1>15, Zenon DEF RolesRecorded
  <2>3. StateFollowsLog'
    BY <1>1, <1>15, Zenon DEF Inv, StateFollowsLog
  <2>4. Snapshots'
    <3>1. \A x : SnapshotOfLog(x) => SnapshotOfLog(x)'
      BY <1>1, <1>15, Zenon DEF SnapshotOfLog, Prefix
    <3> QED
      BY <1>1, <1>11, <1>12, <1>13, <3>1, Zenon DEF Inv, Snapshots
  <2> QED
    BY Zenon, <1>1, <1>15, <2>1, <2>2, <2>3, <2>4, BackupPrefixStays, InTransitStays,
       Zenon DEF Inv, backups
<1> QED BY <1>4, <1>14, <1>15, Zenon

\* The steps of parent_xapp_thread.
LEMMA SnapshotStep ==
    ASSUME Inv, ReadPipe \/ MetaReadFails \/ CompactEntry \/ EndCompaction
    PROVE  Inv'
<1>1. UNCHANGED <<xlog, app, exited, master_index, repl, requests, replies, backups>>
  BY Zenon DEF ReadPipe, MetaReadFails, CompactEntry, EndCompaction, OthersThanLog
<1>2. /\ removed \in 0 .. Len(xlog) /\ Len(xlog) \in Nat
      /\ Len(xlog) - removed <= Capacity /\ Capacity \in Nat
  <2>1. /\ xlog \in Seq(Context) /\ removed \in 0 .. Len(xlog)
        /\ Len(xlog) - removed <= Capacity
    BY Zenon DEF Inv, TypeOK
  <2> QED BY <2>1, ReplicationAssumption
<1>3. /\ pipe \in Snapshot \cup {NULL} /\ snapshot \in Snapshot \cup {NULL}
      /\ SnapshotOfLog(pipe) /\ SnapshotOfLog(snapshot)
      /\ removed > 0 \/ compacting => snapshot # NULL
      /\ compacting => pipe = NULL
  BY Zenon DEF Inv, TypeOK, Snapshots
<1>4. ASSUME removed' \in 0 .. Len(xlog), removed' >= removed,
             pipe' \in Snapshot \cup {NULL}, snapshot' \in Snapshot \cup {NULL},
             compacting' \in BOOLEAN, Snapshots'
      PROVE  Inv'
  <2>1. removed' \in 0 .. Len(xlog') /\ Len(xlog') - removed' <= Capacity
    BY <1>1, <1>2, <1>4
  <2>2. TypeOK' /\ NoRangeExit'
    BY <1>1, <1>4, <2>1, Zenon DEF Inv, TypeOK, NoRangeExit, app, backups
  <2> QED
    BY <1>1, <1>4, <2>2, BackupPrefixStays, RolesStay, InTransitStays, Zenon
       DEF Inv, app, backups
<1>5. ASSUME UNCHANGED removed, NEW s, SnapshotOfLog(s)
      PROVE  SnapshotOfLog(s)'
  BY <1>1, <1>5, Zenon DEF SnapshotOfLog, Prefix
<1>6. removed' = removed => removed' \in 0 .. Len(xlog) /\ removed' >= removed
  BY <1>2
<1>7. CASE ReadPipe
  <2>1. /\ removed' = removed /\ snapshot' = pipe /\ pipe # NULL
        /\ pipe' = NULL /\ compacting' = TRUE
    BY <1>7, Zenon DEF ReadPipe
  <2>2. SnapshotOfLog(snapshot)' /\ SnapshotOfLog(pipe)'
    BY <1>3, <1>5, <2>1, Zenon DEF SnapshotOfLog
  <2>3. Snapshots'
    BY <2>1, <2>2, Zenon DEF Snapshots
  <2> QED BY <1>3, <1>4, <1>6, <2>1, <2>3, Zenon
<1>8. CASE MetaReadFails
  <2>1. removed' = removed /\ UNCHANGED <<snapshot, compacting>> /\ pipe' = NULL
    BY <1>8, Zenon DEF MetaReadFails
  <2>2. SnapshotOfLog(snapshot)' /\ SnapshotOfLog(pipe)'
    BY <1>3, <1>5, <2>1, Zenon DEF SnapshotOfLog
  <2>3. Snapshots'
    BY <1>3, <2>1, <2>2, Zenon DEF Snapshots
  <2>4. compacting' \in BOOLEAN
    BY <2>1, Zenon DEF Inv, TypeOK
  <2> QED BY <1>3, <1>4, <1>6, <2>1, <2>3, <2>4, Zenon
<1>9. CASE CompactEntry
  <2>1. /\ compacting /\ removed < snapshot.last_index /\ removed' = removed + 1
        /\ UNCHANGED <<pipe, compacting, snapshot>>
    BY <1>9, Zenon DEF CompactEntry
  <2>2. pipe = NULL /\ snapshot # NULL
    BY <1>3, <2>1, Zenon
  <2>3. /\ snapshot.last_index \in removed .. Len(xlog)
        /\ snapshot.data = Prefix(snapshot.last_index)
    BY <1>3, <2>2, Zenon DEF SnapshotOfLog
  <2>4. removed < snapshot.last_index /\ removed' = removed + 1
    BY <2>1, Zenon
  <2>5. /\ removed' \in 0 .. Len(xlog) /\ removed' >= removed
        /\ snapshot.last_index \in removed' .. Len(xlog)
    BY <1>2, <2>3, <2>4
  <2>6. SnapshotOfLog(snapshot)' /\ SnapshotOfLog(pipe)'
    BY <1>1, <2>1, <2>2, <2>3, <2>5, Zenon DEF SnapshotOfLog, Prefix
  <2>7. Snapshots'
    BY <2>1, <2>2, <2>6, Zenon DEF Snapshots
  <2>8. compacting' \in BOOLEAN
    BY <2>1, Zenon DEF Inv, TypeOK
  <2> QED BY <1>3, <1>4, <2>1, <2>5, <2>7, <2>8, Zenon
<1>10. CASE EndCompaction
  <2>1. removed' = removed /\ compacting' = FALSE /\ UNCHANGED <<pipe, snapshot>>
    BY <1>10, Zenon DEF EndCompaction
  <2>2. SnapshotOfLog(snapshot)' /\ SnapshotOfLog(pipe)'
    BY <1>3, <1>5, <2>1, Zenon
  <2>3. Snapshots'
    BY <1>3, <2>1, <2>2, Zenon DEF Snapshots
  <2> QED BY <1>3, <1>4, <1>6, <2>1, <2>3, Zenon
<1> QED BY <1>7, <1>8, <1>9, <1>10

\* A channel to which a message is added has the old ones and the new one.
LEMMA MessageAdded ==
    ASSUME NEW S, NEW t \in Seq(S), NEW m \in S
    PROVE  /\ Append(t, m) \in Seq(S)
           /\ \A i \in DOMAIN Append(t, m) :
                 Append(t, m)[i] = m \/ (i \in DOMAIN t /\ Append(t, m)[i] = t[i])
<1> DEFINE a == Append(t, m)
           n == Len(t) + 1
<1>1. /\ a \in Seq(S) /\ DOMAIN a = 1 .. n /\ \A j \in 1 .. Len(t) : a[j] = t[j]
      /\ a[n] = m /\ DOMAIN t = 1 .. Len(t) /\ Len(t) \in Nat
  BY AppendProperties, LenProperties
<1>2. \A i \in 1 .. n : i \in 1 .. Len(t) \/ i = n
  BY <1>1
<1> HIDE DEF a, n
<1>3. \A i \in DOMAIN a : a[i] = m \/ (i \in DOMAIN t /\ a[i] = t[i])
  <2> TAKE i \in DOMAIN a
  <2>1. i \in 1 .. Len(t) \/ i = n
    BY <1>1, <1>2, Zenon
  <2>2. CASE i \in 1 .. Len(t)
    BY <1>1, <2>2, Zenon
  <2>3. CASE i = n
    BY <1>1, <2>3, Zenon
  <2> QED BY <2>1, <2>2, <2>3
<1> QED BY Zenon, <1>1, <1>3 DEF a

\* The messages that are left after the first, and the first, were there.
LEMMA MessageTaken ==
    ASSUME NEW S, NEW t \in Seq(S), t # << >>
    PROVE  /\ Tail(t) \in Seq(S)
           /\ \A i \in DOMAIN Tail(t) : \E j \in DOMAIN t : Tail(t)[i] = t[j]
           /\ Head(t) = t[1] /\ 1 \in DOMAIN t /\ Head(t) \in S
<1>1. /\ Tail(t) \in Seq(S) /\ Len(Tail(t)) = Len(t) - 1 /\ Head(t) \in S
      /\ \A i \in 1 .. Len(Tail(t)) : Tail(t)[i] = t[i + 1]
  BY HeadTailProperties
<1>2. /\ DOMAIN t = 1 .. Len(t) /\ DOMAIN Tail(t) = 1 .. Len(Tail(t))
      /\ Len(t) \in Nat \ {0} /\ Head(t) = t[1]
  BY <1>1, LenProperties, EmptySeq
<1> DEFINE u == Tail(t)
<1> HIDE DEF u
<1>3. \A i \in DOMAIN u : i + 1 \in DOMAIN t /\ u[i] = t[i + 1]
  BY <1>1, <1>2 DEF u
<1>4. \A i \in DOMAIN u : \E j \in DOMAIN t : u[i] = t[j]
  BY <1>3, Zenon
<1>5. 1 \in DOMAIN t
  BY <1>2
<1> QED BY <1>1, <1>2, <1>4, <1>5 DEF u

\* The states of the state_replication thread.
Shipper == [pc : {"asleep", "waiting", "pick", "read", "snapshot", "send"},
            i : Nat, replica : Object \cup {NULL}, master : Nat,
            msg : Message \cup {NULL}]

\* A step of state_replication keeps the invariant if what it read and what it
\* sends are of the log.
LEMMA ShippingStep ==
    ASSUME Inv, Running, UNCHANGED <<log, app, master_index, replies, backups, exited>>,
           repl' \in Shipper, IndexOfLog(repl'.master),
           repl'.pc = "send" => repl'.msg \in Message /\ MessageOfLog(repl'.msg),
           requests' \in [Replica -> Seq(Message)],
           \A r \in Replica : \A i \in DOMAIN requests'[r] :
               MessageOfLog(requests'[r][i])
    PROVE  Inv'
<1>1. TypeOK' /\ NoRangeExit'
  BY Zenon DEF Inv, TypeOK, NoRangeExit, Running, Shipper, log, app, backups
<1>2. \A m : MessageOfLog(m) => MessageOfLog(m)'
  BY Zenon DEF MessageOfLog, Prefix, log
<1>3. InTransit'
  BY <1>2, Zenon DEF Inv, InTransit, IndexOfLog, log
<1> QED
  BY <1>1, <1>3, BackupPrefixStays, RolesStay, SnapshotsStay, Zenon
     DEF Inv, log, app, backups

\* The loop of state_replication reads an index it holds of a replica, or sleeps.
LEMMA TurnTaken ==
    ASSUME Inv, NEW from \in Nat, Turn(from)
    PROVE  /\ repl' \in Shipper /\ IndexOfLog(repl'.master) /\ repl'.pc # "send"
<1>1. /\ Len(xlog) \in Nat
      /\ \A o \in Object : master_index[o] \in Nat /\ IndexOfLog(master_index[o])
  <2>1. xlog \in Seq(Context) /\ master_index \in [Object -> Nat]
    BY Zenon DEF Inv, TypeOK
  <2>2. \A o \in Object : IndexOfLog(master_index[o])
    BY Zenon DEF Inv, InTransit
  <2> QED BY <2>1, <2>2
<1>2. CASE repl' = Asleep
  <2>1. IndexOfLog(0)
    BY <1>1 DEF IndexOfLog
  <2> QED BY <1>2, <2>1 DEF Asleep, Shipper
<1>3. CASE repl' # Asleep
  <2>1. PICK j \in from .. Len(replica_servers) :
           /\ replica_servers[j] \in Object
           /\ repl' = [pc |-> "read", i |-> j, replica |-> replica_servers[j],
                       master |-> master_index[replica_servers[j]], msg |-> NULL]
    BY <1>3, Zenon DEF Turn
  <2>2. j \in Nat
    BY <2>1
  <2> QED BY <1>1, <2>1, <2>2 DEF Shipper
<1> QED BY <1>2, <1>3

\* Entries and snapshots are read from the log and sent.
LEMMA StateReplicationStep ==
    ASSUME Inv, StateReplication
    PROVE  Inv'
<1>1. /\ UNCHANGED <<log, app, master_index, replies, backups>>
      /\ repl \in Shipper
      /\ requests \in [Replica -> Seq(Message)]
      /\ \A r \in Replica : \A i \in DOMAIN requests[r] : MessageOfLog(requests[r][i])
      /\ IndexOfLog(repl.master) /\ Running
  BY Zenon DEF Inv, TypeOK, InTransit, Shipper, StateReplication, WakeUp, Pick,
               ReadLog, ReadSnapshot, Send, OthersThanRepl
<1>2. /\ xlog \in Seq(Context) /\ Len(xlog) \in Nat /\ removed \in 0 .. Len(xlog)
      /\ repl.master \in Nat /\ repl.i \in Nat
  <2>1. xlog \in Seq(Context) /\ removed \in 0 .. Len(xlog)
    BY Zenon DEF Inv, TypeOK
  <2> QED BY <1>1, <2>1 DEF Shipper
<1>3. Unlocked \in Shipper /\ IndexOfLog(Unlocked.master) /\ Unlocked.pc # "send"
  BY <1>2 DEF Unlocked, Shipper, IndexOfLog
<1>4. CASE WakeUp
  <2>1. UNCHANGED <<exited, requests>>
    BY <1>4, Zenon DEF WakeUp
  <2>2. CASE repl' = [repl EXCEPT !.pc = "waiting"]
    <3>1. repl' \in Shipper /\ IndexOfLog(repl'.master) /\ repl'.pc # "send"
      BY Zenon, <1>1, <2>2 DEF Shipper
    <3> QED BY <1>1, <2>1, <3>1, ShippingStep, Zenon
  <2>3. CASE Turn(1)
    <3>1. repl' \in Shipper /\ IndexOfLog(repl'.master) /\ repl'.pc # "send"
      BY <2>3, TurnTaken
    <3> QED BY <1>1, <2>1, <3>1, ShippingStep, Zenon
  <2> QED BY <1>4, <2>2, <2>3, Zenon DEF WakeUp
<1>5. CASE Pick
  <2>1. UNCHANGED <<exited, requests>> /\ Turn(repl.i)
    BY <1>5, Zenon DEF Pick
  <2>2. repl' \in Shipper /\ IndexOfLog(repl'.master) /\ repl'.pc # "send"
    BY <1>2, <2>1, TurnTaken
  <2> QED BY <1>1, <2>1, <2>2, ShippingStep, Zenon
<1>6. CASE ReadLog
  <2>1. UNCHANGED requests
    BY <1>6, Zenon DEF ReadLog
  <2>2. CASE repl.master > Len(xlog)
    <3>1. exited' = "range" /\ UNCHANGED repl
      BY <1>6, <2>2, Zenon DEF ReadLog
    <3>2. repl.master \in RejoinIndexes
      BY <1>1, <1>2, <2>2 DEF IndexOfLog
    <3>3. TypeOK' /\ NoRangeExit'
      BY <1>1, <2>1, <3>1, <3>2, Zenon DEF Inv, TypeOK, NoRangeExit, log, app, backups
    <3> QED
      BY <1>1, <2>1, <3>1, <3>3, BackupPrefixStays, RolesStay, SnapshotsStay,
         InTransitStays, Zenon DEF Inv, log, app, backups
  <2> SUFFICES ASSUME ~(repl.master > Len(xlog)) PROVE Inv'
    BY <2>2
  <2>3. /\ UNCHANGED exited
        /\ \/ repl' = Unlocked
           \/ repl' = [repl EXCEPT !.pc = "snapshot"]
           \/ \E n \in 1 .. Len(xlog) - repl.master :
                 repl' = [repl EXCEPT !.pc = "send", !.msg =
                    [type |-> "REPLICATION_REQ", index |-> repl.master,
                     data |-> SubSeq(xlog, repl.master + 1, repl.master + n)]]
    BY <1>6, Zenon DEF ReadLog
  <2>4. CASE repl' = Unlocked
    BY <1>1, <1>3, <2>1, <2>3, <2>4, ShippingStep, Zenon
  <2>5. CASE repl' = [repl EXCEPT !.pc = "snapshot"]
    <3>1. repl' \in Shipper /\ IndexOfLog(repl'.master) /\ repl'.pc # "send"
      BY Zenon, <1>1, <2>5 DEF Shipper
    <3> QED BY <1>1, <2>1, <2>3, <3>1, ShippingStep, Zenon
  <2>6. ASSUME NEW n \in 1 .. Len(xlog) - repl.master,
               repl' = [repl EXCEPT !.pc = "send", !.msg =
                    [type |-> "REPLICATION_REQ", index |-> repl.master,
                     data |-> SubSeq(xlog, repl.master + 1, repl.master + n)]]
        PROVE  Inv'
    <3> DEFINE d == SubSeq(xlog, repl.master + 1, repl.master + n)
               m == [type |-> "REPLICATION_REQ", index |-> repl.master, data |-> d]
    <3>1. n \in Nat /\ repl.master + n <= Len(xlog)
      BY <1>2
    <3>2. d \in Seq(Command) /\ Len(d) = n
      BY Zenon, <1>2, <3>1, PrefixContinues
    <3>3. d = SubSeq(xlog, repl.master + 1, repl.master + Len(d))
      BY Zenon, <3>2
    <3> HIDE DEF d
    <3>4. m \in Message /\ MessageOfLog(m)
      BY <1>1, <1>2, <3>1, <3>2, <3>3 DEF Message, MessageOfLog
    <3>5. repl' = [repl EXCEPT !.pc = "send", !.msg = m]
      BY <2>6 DEF d
    <3> HIDE DEF m
    <3>6. /\ repl' \in Shipper /\ IndexOfLog(repl'.master) /\ repl'.msg = m
      BY Zenon, <1>1, <3>4, <3>5 DEF Shipper
    <3> QED BY <1>1, <2>1, <2>3, <3>4, <3>6, ShippingStep, Zenon
  <2> QED BY <2>3, <2>4, <2>5, <2>6, Zenon
<1>7. CASE ReadSnapshot
  <2>1. UNCHANGED <<exited, requests>>
    BY <1>7, Zenon DEF ReadSnapshot
  <2>2. CASE snapshot = NULL
    <3>1. repl' = Unlocked
      BY <1>7, <2>2, Zenon DEF ReadSnapshot
    <3> QED BY <1>1, <1>3, <2>1, <3>1, ShippingStep, Zenon
  <2>3. CASE snapshot # NULL
    <3> DEFINE m == [type |-> "XAPP_SNAPSHOT_REQ",
                     index |-> snapshot.last_index, data |-> snapshot.data]
    <3>1. repl' = [repl EXCEPT !.pc = "send", !.msg = m]
      BY <1>7, <2>3, Zenon DEF ReadSnapshot
    <3>2. /\ snapshot \in Snapshot
          /\ snapshot.last_index \in removed .. Len(xlog)
          /\ snapshot.data = Prefix(snapshot.last_index)
      BY <2>3, Zenon DEF Inv, TypeOK, Snapshots, SnapshotOfLog
    <3>3. m \in Message /\ MessageOfLog(m)
      BY <1>2, <3>2 DEF Message, MessageOfLog, Snapshot
    <3> HIDE DEF m
    <3>4. /\ repl' \in Shipper /\ IndexOfLog(repl'.master) /\ repl'.msg = m
      BY Zenon, <1>1, <3>1, <3>3 DEF Shipper
    <3> QED BY <1>1, <2>1, <3>3, <3>4, ShippingStep, Zenon
  <2> QED BY <2>2, <2>3
<1>8. CASE Send
  <2>1. UNCHANGED exited /\ repl.pc = "send" /\ Turn(repl.i + 1)
    BY <1>8, Zenon DEF Send
  <2>2. repl' \in Shipper /\ IndexOfLog(repl'.master) /\ repl'.pc # "send"
    <3>1. repl.i + 1 \in Nat
      BY <1>2
    <3> QED BY <2>1, <3>1, TurnTaken
  <2>3. repl.msg \in Message /\ MessageOfLog(repl.msg)
    BY <2>1, Zenon DEF Inv, InTransit
  <2>4. CASE UNCHANGED requests
    BY <1>1, <2>1, <2>2, <2>4, ShippingStep, Zenon
  <2>5. CASE requests' = [requests EXCEPT ![repl.replica[1]] = Append(@, repl.msg)]
    <3>1. /\ requests' \in [Replica -> Seq(Message)]
          /\ \A r \in Replica : \A i \in DOMAIN requests'[r] :
                \/ requests'[r][i] = repl.msg
                \/ i \in DOMAIN requests[r] /\ requests'[r][i] = requests[r][i]
      <4> DEFINE f == requests
                 m == repl.msg
                 q == repl.replica[1]
      <4>1. /\ f \in [Replica -> Seq(Message)] /\ m \in Message
            /\ requests' = [f EXCEPT ![q] = Append(f[q], m)]
        BY <1>1, <2>3, <2>5, Zenon
      <4> HIDE DEF f, m, q
      <4>2. \A r \in Replica :
               /\ f[r] \in Seq(Message) /\ Append(f[r], m) \in Seq(Message)
               /\ \A i \in DOMAIN Append(f[r], m) :
                     \/ Append(f[r], m)[i] = m
                     \/ i \in DOMAIN f[r] /\ Append(f[r], m)[i] = f[r][i]
        <5> TAKE r \in Replica
        <5>1. f[r] \in Seq(Message)
          BY <4>1
        <5> QED BY <4>1, <5>1, MessageAdded
      <4>3. \A r \in Replica :
               requests'[r] = f[r] \/ requests'[r] = Append(f[r], m)
        BY <4>1
      <4>4. requests' \in [Replica -> Seq(Message)]
        BY Zenon, <4>1, <4>2
      <4>5. \A r \in Replica : \A i \in DOMAIN requests'[r] :
               requests'[r][i] = m \/ (i \in DOMAIN f[r] /\ requests'[r][i] = f[r][i])
        <5> TAKE r \in Replica
        <5>1. CASE requests'[r] = f[r]
          BY <5>1, Zenon
        <5>2. CASE requests'[r] = Append(f[r], m)
          BY <4>2, <5>2, Zenon
        <5> QED BY <4>3, <5>1, <5>2
      <4> QED BY <4>4, <4>5, Zenon DEF f, m
    <3>2. \A r \in Replica : \A i \in DOMAIN requests'[r] :
             MessageOfLog(requests'[r][i])
      BY <1>1, <2>3, <3>1, Zenon
    <3> QED BY <1>1, <2>1, <2>2, <3>1, <3>2, ShippingStep, Zenon
  <2> QED BY <1>8, <2>4, <2>5, Zenon DEF Send, Transmit
<1> QED BY <1>4, <1>5, <1>6, <1>7, <1>8 DEF StateReplication

\* A replica that keeps a prefix of the log and answers with an index of it.
LEMMA ReplyStep ==
    ASSUME Inv, NEW r \in Replica, requests[r] # << >>, NEW index \in 0 .. Len(xlog),
           Reply(r, index), UNCHANGED <<log, app, exited, master_index, repl>>,
           replica_index' \in [Replica -> Nat], copy' \in [Replica -> Seq(Command)],
           kept' \in [Replica -> Seq(Command)], BackupPrefix'
    PROVE  Inv'
<1>1. /\ requests \in [Replica -> Seq(Message)] /\ replies \in [Replica -> Seq(Nat)]
      /\ requests' = [requests EXCEPT ![r] = Tail(requests[r])]
      /\ xlog \in Seq(Context)
      /\ \/ replies' = replies
         \/ replies' = [replies EXCEPT ![r] = Append(replies[r], index)]
      /\ \A q \in Replica :
            /\ \A i \in DOMAIN requests[q] : MessageOfLog(requests[q][i])
            /\ \A i \in DOMAIN replies[q] : replies[q][i] \in 0 .. Len(xlog)
  BY Zenon DEF Inv, TypeOK, InTransit, Reply, Transmit
<1>2. requests[r] \in Seq(Message) /\ replies[r] \in Seq(Nat) /\ index \in Nat
  <2>1. index \in Nat
    BY <1>1
  <2> QED BY <1>1, <2>1, Zenon
<1>3. /\ requests' \in [Replica -> Seq(Message)]
      /\ \A q \in Replica : \A i \in DOMAIN requests'[q] : MessageOfLog(requests'[q][i])
  <2> DEFINE t == Tail(requests[r])
  <2>1. t \in Seq(Message) /\ \A i \in DOMAIN t : \E j \in DOMAIN requests[r] : t[i] = requests[r][j]
    BY <1>2, MessageTaken
  <2>2. \A i \in DOMAIN t : MessageOfLog(t[i])
    BY <1>1, <2>1, Zenon
  <2> HIDE DEF t
  <2>3. requests' \in [Replica -> Seq(Message)]
    BY <1>1, <2>1 DEF t
  <2>4. \A q \in Replica : requests'[q] = IF q = r THEN t ELSE requests[q]
    BY <1>1 DEF t
  <2>5. ASSUME NEW q \in Replica, NEW i \in DOMAIN requests'[q]
        PROVE  MessageOfLog(requests'[q][i])
    <3>1. CASE q = r
      BY <2>2, <2>4, <2>5, <3>1, Zenon
    <3>2. CASE q # r
      BY <1>1, <2>4, <2>5, <3>2, Zenon
    <3> QED BY <3>1, <3>2
  <2> QED BY <2>3, <2>5
<1>4. /\ replies' \in [Replica -> Seq(Nat)]
      /\ \A q \in Replica : \A i \in DOMAIN replies'[q] : replies'[q][i] \in 0 .. Len(xlog)
  <2>1. CASE replies' = replies
    BY <1>1, <2>1, Zenon
  <2>2. CASE replies' = [replies EXCEPT ![r] = Append(replies[r], index)]
    <3> DEFINE t == Append(replies[r], index)
    <3>1. /\ t \in Seq(Nat)
          /\ \A i \in DOMAIN t : t[i] = index \/ (i \in DOMAIN replies[r] /\ t[i] = replies[r][i])
      BY <1>2, MessageAdded
    <3>2. \A i \in DOMAIN t : t[i] \in 0 .. Len(xlog)
      BY <1>1, <3>1, Zenon
    <3> HIDE DEF t
    <3>3. replies' \in [Replica -> Seq(Nat)]
      BY <1>1, <2>2, <3>1 DEF t
    <3>4. \A q \in Replica : replies'[q] = IF q = r THEN t ELSE replies[q]
      BY <1>1, <2>2 DEF t
    <3>5. ASSUME NEW q \in Replica, NEW i \in DOMAIN replies'[q]
          PROVE  replies'[q][i] \in 0 .. Len(xlog)
      <4>1. CASE q = r
        BY <3>2, <3>4, <3>5, <4>1, Zenon
      <4>2. CASE q # r
        BY <1>1, <3>4, <3>5, <4>2, Zenon
      <4> QED BY <4>1, <4>2
    <3> QED BY <3>3, <3>5
  <2> QED BY <1>1, <2>1, <2>2
<1>5. TypeOK' /\ NoRangeExit'
  BY <1>3, <1>4, Zenon DEF Inv, TypeOK, NoRangeExit, log, app
<1>6. \A m : MessageOfLog(m) => MessageOfLog(m)'
  BY Zenon DEF MessageOfLog, Prefix, log
<1>7. InTransit'
  BY <1>3, <1>4, <1>6, Zenon DEF Inv, InTransit, IndexOfLog, log
<1> QED
  BY <1>5, <1>7, RolesStay, SnapshotsStay, Zenon DEF Inv, log, app

\* A replica applies what continues its prefix, or takes the snapshot's.
LEMMA HandleStep ==
    ASSUME Inv, NEW r \in Replica, Handle(r)
    PROVE  Inv'
<1> DEFINE m == Head(requests[r])
           index == IF r \in knows THEN replica_index'[r] ELSE 0
<1>1. /\ requests[r] # << >> /\ Reply(r, index)
      /\ UNCHANGED <<log, app, exited, master_index, repl>>
  BY Zenon DEF Handle, HandleReplicationRequest, HandleXappSnapshotRequest,
               OthersThanBackups
<1>2. /\ xlog \in Seq(Context) /\ Len(xlog) \in Nat
      /\ replica_index \in [Replica -> Nat] /\ copy \in [Replica -> Seq(Command)]
      /\ kept \in [Replica -> Seq(Command)]
      /\ \A q \in Replica : /\ replica_index[q] <= Len(xlog)
                            /\ copy[q] = kept[q] \o Prefix(replica_index[q])
  <2>1. /\ xlog \in Seq(Context) /\ replica_index \in [Replica -> Nat]
        /\ copy \in [Replica -> Seq(Command)] /\ kept \in [Replica -> Seq(Command)]
        /\ BackupPrefix
    BY Zenon DEF Inv, TypeOK
  <2> QED BY <2>1 DEF BackupPrefix
<1>3. m \in Message /\ MessageOfLog(m)
  <2>1. /\ requests \in [Replica -> Seq(Message)]
        /\ \A i \in DOMAIN requests[r] : MessageOfLog(requests[r][i])
    BY Zenon DEF Inv, TypeOK, InTransit
  <2>2. requests[r] \in Seq(Message)
    BY <2>1
  <2>3. m = requests[r][1] /\ 1 \in DOMAIN requests[r] /\ m \in Message
    BY <1>1, <2>2, MessageTaken
  <2> QED BY <2>1, <2>3, Zenon
<1>4. ASSUME NEW d \in Seq(Command), NEW n \in 0 .. Len(xlog), NEW old \in Seq(Command),
             d = old \o Prefix(n), copy' = [copy EXCEPT ![r] = d],
             kept' = [kept EXCEPT ![r] = old],
             replica_index' = [replica_index EXCEPT ![r] = n]
      PROVE  Inv'
  <2>1. /\ copy' \in [Replica -> Seq(Command)] /\ replica_index' \in [Replica -> Nat]
        /\ kept' \in [Replica -> Seq(Command)] /\ index \in 0 .. Len(xlog)
    BY <1>2, <1>4
  <2>2. \A q \in Replica : /\ replica_index'[q] = IF q = r THEN n ELSE replica_index[q]
                           /\ copy'[q] = IF q = r THEN d ELSE copy[q]
                           /\ kept'[q] = IF q = r THEN old ELSE kept[q]
    BY Zenon, <1>2, <1>4
  <2>3. n <= Len(xlog)
    BY <1>2
  <2>4. \A q \in Replica : /\ replica_index'[q] <= Len(xlog)
                           /\ copy'[q] = kept'[q] \o Prefix(replica_index'[q])
    BY Zenon, <1>2, <1>4, <2>2, <2>3
  <2>5. BackupPrefix'
    BY <1>1, <2>4, Zenon DEF BackupPrefix, Prefix, log
  <2> HIDE DEF index
  <2> QED BY <1>1, <2>1, <2>5, ReplyStep, Zenon
<1>5. CASE UNCHANGED <<copy, kept, replica_index>>
  <2>1. /\ copy' \in [Replica -> Seq(Command)] /\ replica_index' \in [Replica -> Nat]
        /\ kept' \in [Replica -> Seq(Command)] /\ index \in 0 .. Len(xlog)
    BY <1>2, <1>5
  <2>2. BackupPrefix'
    BY <1>1, <1>5, BackupPrefixStays, Zenon DEF Inv, log
  <2> HIDE DEF index
  <2> QED BY <1>1, <2>1, <2>2, ReplyStep, Zenon
<1>6. CASE HandleReplicationRequest(r)
  <2>1. m.type = "REPLICATION_REQ" /\ UNCHANGED kept
    BY <1>6, Zenon DEF HandleReplicationRequest
  <2>2. CASE r \in knows /\ m.index = replica_index[r]
    <3>1. /\ copy' = [copy EXCEPT ![r] = copy[r] \o m.data]
          /\ replica_index' = [replica_index EXCEPT ![r] = replica_index[r] + Len(m.data)]
      BY <1>6, <2>2, Zenon DEF HandleReplicationRequest
    <3> DEFINE i == replica_index[r]
               n == Len(m.data)
    <3>2. /\ i \in Nat /\ n \in Nat /\ i + n <= Len(xlog)
          /\ m.data = SubSeq(xlog, i + 1, i + n)
          /\ copy[r] = kept[r] \o SubSeq(xlog, 1, i) /\ kept[r] \in Seq(Command)
      <4>1. /\ i \in Nat /\ copy[r] = kept[r] \o SubSeq(xlog, 1, i)
            /\ kept[r] \in Seq(Command)
        BY <1>2 DEF Prefix
      <4>2. m.data \in Seq(Command)
        BY <1>3 DEF Message
      <4>3. n \in Nat
        BY <4>2
      <4>4. /\ m.index + Len(m.data) <= Len(xlog)
            /\ m.data = SubSeq(xlog, m.index + 1, m.index + Len(m.data))
        BY <1>3, <2>1, Zenon DEF MessageOfLog
      <4> QED BY <2>2, <4>1, <4>3, <4>4, Zenon
    <3> HIDE DEF i, n, m
    <3> DEFINE d == copy[r] \o m.data
               j == i + n
    <3>3. j \in 0 .. Len(xlog)
      BY <1>2, <3>2
    <3>4. /\ SubSeq(xlog, 1, i) \o m.data = SubSeq(xlog, 1, j)
          /\ SubSeq(xlog, 1, i) \in Seq(Command) /\ m.data \in Seq(Command)
      BY <1>2, <3>2, PrefixContinues
    <3> HIDE DEF j
    <3>5. d = kept[r] \o SubSeq(xlog, 1, j)
      <4> DEFINE x == SubSeq(xlog, 1, i)
                 y == m.data
                 z == kept[r]
      <4>1. x \in Seq(Command) /\ y \in Seq(Command) /\ z \in Seq(Command)
        BY <3>2, <3>4
      <4>2. d = (z \o x) \o y /\ x \o y = SubSeq(xlog, 1, j)
        BY Zenon, <3>2, <3>4
      <4> HIDE DEF x, y, z
      <4>3. (z \o x) \o y = z \o (x \o y)
        BY <4>1, ConcatAssociative
      <4> QED BY Zenon, <4>2, <4>3 DEF z
    <3>6. d \in Seq(Command)
      <4>1. copy[r] \in Seq(Command)
        BY <1>2
      <4> QED BY <3>4, <4>1, ConcatProperties
    <3>7. /\ copy' = [copy EXCEPT ![r] = d]
          /\ replica_index' = [replica_index EXCEPT ![r] = j]
      BY <3>1, Zenon DEF i, n, j
    <3>8. kept' = [kept EXCEPT ![r] = kept[r]]
      BY <1>2, <2>1
    <3> HIDE DEF d
    <3> QED BY <1>4, <3>2, <3>3, <3>5, <3>6, <3>7, <3>8, Zenon DEF Prefix
  <2>3. CASE ~(r \in knows /\ m.index = replica_index[r])
    BY <1>5, <1>6, <2>1, <2>3, Zenon DEF HandleReplicationRequest
  <2> QED BY <2>2, <2>3
<1>7. CASE HandleXappSnapshotRequest(r)
  <2>1. m.type = "XAPP_SNAPSHOT_REQ"
    BY <1>7, Zenon DEF HandleXappSnapshotRequest
  <2>2. m.index \in 0 .. Len(xlog) /\ m.data = Prefix(m.index) /\ m.data \in Seq(Command)
    BY Zenon, <1>3, <2>1 DEF Message, MessageOfLog
  <2>3. CASE r \in knows
    <3> DEFINE e == << >>
    <3>1. /\ copy' = [copy EXCEPT ![r] = m.data]
          /\ kept' = [kept EXCEPT ![r] = e]
          /\ replica_index' = [replica_index EXCEPT ![r] = m.index]
      BY <1>7, <2>3, Zenon DEF HandleXappSnapshotRequest
    <3>2. e \in Seq(Command) /\ e \o m.data = m.data
      BY <2>2, ConcatEmptySeq
    <3> HIDE DEF m, e
    <3> QED BY <1>4, <2>2, <3>1, <3>2, Zenon
  <2>4. CASE r \notin knows
    BY <1>5, <1>7, <2>4, Zenon DEF HandleXappSnapshotRequest
  <2> QED BY <2>3, <2>4
<1> QED BY <1>6, <1>7, Zenon DEF Handle

\* A step that changes nothing but what the primary believes of its replicas.
LEMMA MasterIndexStep ==
    ASSUME Inv, UNCHANGED <<log, app, exited, repl, requests, backups>>,
           replies' \in [Replica -> Seq(Nat)],
           \A r \in Replica : \A i \in DOMAIN replies'[r] : replies'[r][i] \in 0 .. Len(xlog),
           master_index' \in [Object -> Nat],
           \A o \in Object : IndexOfLog(master_index'[o])
    PROVE  Inv'
<1>1. TypeOK' /\ NoRangeExit'
  BY Zenon DEF Inv, TypeOK, NoRangeExit, log, app, backups
<1>2. \A m : MessageOfLog(m) => MessageOfLog(m)'
  BY Zenon DEF MessageOfLog, Prefix, log
<1>3. InTransit'
  BY <1>2, Zenon DEF Inv, InTransit, IndexOfLog, log
<1> QED
  BY <1>1, <1>3, BackupPrefixStays, RolesStay, SnapshotsStay, Zenon
     DEF Inv, log, app, backups

\* A reply, a new server and a known one that comes back.
LEMMA MasterIndexSteps ==
    ASSUME Inv, NEW r \in Replica,
           HandleReply(r) \/ AddServer(r) \/ AddServerAgain(r)
    PROVE  Inv'
<1>1. UNCHANGED <<log, app, exited, requests, backups>>
  BY Zenon DEF HandleReply, AddServer, AddServerAgain, OthersThanMembers
<1>2. UNCHANGED repl
  BY Zenon DEF HandleReply, AddServer, AddServerAgain
<1>3. /\ replies \in [Replica -> Seq(Nat)]
      /\ \A q \in Replica : \A i \in DOMAIN replies[q] : replies[q][i] \in 0 .. Len(xlog)
      /\ xlog \in Seq(Context)
  BY Zenon DEF Inv, TypeOK, InTransit
<1>4. /\ master_index \in [Object -> Nat]
      /\ \A o \in Object : IndexOfLog(master_index[o])
  BY Zenon DEF Inv, TypeOK, InTransit
<1>5. IndexOfLog(0)
  BY <1>3 DEF IndexOfLog
<1>6. CASE HandleReply(r)
  <2> DEFINE t == Tail(replies[r])
             h == Head(replies[r])
  <2>1. /\ replies[r] # << >> /\ replies' = [replies EXCEPT ![r] = t]
        /\ master_index' = [o \in Object |-> IF o \in Objects(r) THEN h
                                             ELSE master_index[o]]
    BY <1>6, Zenon DEF HandleReply
  <2>2. replies[r] \in Seq(Nat)
    BY <1>3
  <2>3. /\ t \in Seq(Nat) /\ \A i \in DOMAIN t : \E j \in DOMAIN replies[r] : t[i] = replies[r][j]
        /\ h = replies[r][1] /\ 1 \in DOMAIN replies[r]
    BY <2>1, <2>2, MessageTaken
  <2>4. h \in 0 .. Len(xlog) /\ \A i \in DOMAIN t : t[i] \in 0 .. Len(xlog)
    BY <1>3, <2>3, Zenon
  <2> HIDE DEF t, h
  <2>5. /\ master_index' \in [Object -> Nat]
        /\ \A o \in Object : IndexOfLog(master_index'[o])
    <3>1. h \in Nat /\ IndexOfLog(h)
      BY <1>3, <2>4 DEF IndexOfLog
    <3> QED BY Zenon, <1>4, <2>1, <3>1
  <2>6. replies' \in [Replica -> Seq(Nat)]
    BY <1>3, <2>1, <2>3
  <2>7. \A q \in Replica : replies'[q] = IF q = r THEN t ELSE replies[q]
    BY <1>3, <2>1
  <2>8. ASSUME NEW q \in Replica, NEW i \in DOMAIN replies'[q]
        PROVE  replies'[q][i] \in 0 .. Len(xlog)
    <3>1. CASE q = r
      BY <2>4, <2>7, <2>8, <3>1, Zenon
    <3>2. CASE q # r
      BY <1>3, <2>7, <2>8, <3>2, Zenon
    <3> QED BY <3>1, <3>2
  <2> QED BY <1>1, <1>2, <2>5, <2>6, <2>8, MasterIndexStep, Zenon
<1>7. CASE AddServer(r)
  <2>1. replies' = replies /\ master_index' = [master_index EXCEPT ![<<r, faults'>>] = 0]
    BY <1>7, Zenon DEF AddServer, OthersThanMembers
  <2>2. /\ master_index' \in [Object -> Nat]
        /\ \A o \in Object : IndexOfLog(master_index'[o])
    BY Zenon, <1>4, <1>5, <2>1
  <2> QED BY <1>1, <1>2, <1>3, <2>1, <2>2, MasterIndexStep, Zenon
<1>8. CASE AddServerAgain(r)
  <2>1. replies' = replies
    BY <1>8, Zenon DEF AddServerAgain, OthersThanMembers
  <2>2. PICK n \in RejoinIndexes :
           master_index' = [o \in Object |-> IF o \in Objects(r) THEN n
                                             ELSE master_index[o]]
    BY <1>8, Zenon DEF AddServerAgain
  <2>3. n \in Nat /\ IndexOfLog(n)
    BY ReplicationAssumption DEF IndexOfLog
  <2>4. /\ master_index' \in [Object -> Nat]
        /\ \A o \in Object : IndexOfLog(master_index'[o])
    BY Zenon, <1>4, <2>2, <2>3
  <2> QED BY <1>1, <1>2, <1>3, <2>1, <2>4, MasterIndexStep, Zenon
<1> QED BY <1>6, <1>7, <1>8

\* The replicas are chosen again; a waiting state_replication starts over.
LEMMA UpdateStep ==
    ASSUME Inv, UpdateReplicaServers
    PROVE  Inv'
<1>1. /\ UNCHANGED <<log, app, exited, master_index, requests, replies, backups>>
      /\ Running /\ (repl' = Asleep \/ repl' = repl)
  BY Zenon DEF UpdateReplicaServers, OthersThanMembers
<1>2. /\ repl \in Shipper /\ IndexOfLog(repl.master) /\ xlog \in Seq(Context)
      /\ repl.pc = "send" => repl.msg \in Message /\ MessageOfLog(repl.msg)
      /\ requests \in [Replica -> Seq(Message)]
      /\ \A r \in Replica : \A i \in DOMAIN requests[r] : MessageOfLog(requests[r][i])
  BY Zenon DEF Inv, TypeOK, InTransit, Shipper
<1>3. Asleep \in Shipper /\ IndexOfLog(Asleep.master) /\ Asleep.pc # "send"
  BY <1>2 DEF Asleep, Shipper, IndexOfLog
<1> QED BY <1>1, <1>2, <1>3, ShippingStep, Zenon

\* A replica whose xApp has something, or nothing, when it begins to count again.
LEMMA CountAgainStep ==
    ASSUME Inv, NEW r \in Replica, NEW had \in Seq(Command),
           UNCHANGED <<log, app, exited, master_index, repl, requests, replies>>,
           copy' = [copy EXCEPT ![r] = had], kept' = [kept EXCEPT ![r] = had],
           replica_index' = [replica_index EXCEPT ![r] = 0]
    PROVE  Inv'
<1>1. /\ xlog \in Seq(Context) /\ replica_index \in [Replica -> Nat]
      /\ copy \in [Replica -> Seq(Command)] /\ kept \in [Replica -> Seq(Command)]
      /\ \A q \in Replica : /\ replica_index[q] <= Len(xlog)
                            /\ copy[q] = kept[q] \o Prefix(replica_index[q])
  BY Zenon DEF Inv, TypeOK, BackupPrefix
<1>2. had \o Prefix(0) = had /\ 0 <= Len(xlog)
  <2>1. SubSeq(xlog, 1, 0) = << >> /\ 0 <= Len(xlog)
    BY <1>1, SubSeqEmpty
  <2>2. had \o << >> = had
    BY ConcatEmptySeq
  <2> QED BY Zenon, <2>1, <2>2 DEF Prefix
<1>3. \A q \in Replica : /\ replica_index'[q] = IF q = r THEN 0 ELSE replica_index[q]
                         /\ copy'[q] = IF q = r THEN had ELSE copy[q]
                         /\ kept'[q] = IF q = r THEN had ELSE kept[q]
  BY Zenon, <1>1
<1>4. /\ replica_index' \in [Replica -> Nat] /\ copy' \in [Replica -> Seq(Command)]
      /\ kept' \in [Replica -> Seq(Command)]
  BY <1>1
<1>5. \A q \in Replica : /\ replica_index'[q] <= Len(xlog)
                         /\ copy'[q] = kept'[q] \o Prefix(replica_index'[q])
  BY Zenon, <1>1, <1>2, <1>3
<1>6. BackupPrefix'
  BY <1>5, Zenon DEF BackupPrefix, Prefix, log
<1>7. TypeOK' /\ NoRangeExit'
  BY <1>4, Zenon DEF Inv, TypeOK, NoRangeExit, log, app
<1> QED
  BY <1>6, <1>7, RolesStay, SnapshotsStay, InTransitStays, Zenon DEF Inv, log, app

\* A replica starts again, or gets a new server_t of the primary.
LEMMA ServerOfPrimarySteps ==
    ASSUME Inv, NEW r \in Replica,
           RestartReplica(r) \/ Learn(r) \/ CommitRaftConfigSnapshot(r)
    PROVE  Inv'
<1>1. copy \in [Replica -> Seq(Command)]
  BY Zenon DEF Inv, TypeOK
<1>2. CASE RestartReplica(r)
  <2> DEFINE e == << >>
  <2>1. /\ UNCHANGED <<log, app, exited, master_index, repl, requests, replies>>
        /\ copy' = [copy EXCEPT ![r] = e] /\ kept' = [kept EXCEPT ![r] = e]
        /\ replica_index' = [replica_index EXCEPT ![r] = 0]
    BY <1>2, Zenon DEF RestartReplica
  <2>2. e \in Seq(Command)
    BY EmptySeq
  <2> HIDE DEF e
  <2> QED BY <2>1, <2>2, CountAgainStep, Zenon
<1>3. CASE Learn(r) \/ CommitRaftConfigSnapshot(r)
  <2>1. /\ UNCHANGED <<log, app, exited, master_index, repl, requests, replies, copy>>
        /\ kept' = [kept EXCEPT ![r] = copy[r]]
        /\ replica_index' = [replica_index EXCEPT ![r] = 0]
    BY <1>3, Zenon DEF Learn, CommitRaftConfigSnapshot, NewServerOfPrimary, OthersThanBackups
  <2>2. copy[r] \in Seq(Command) /\ copy' = [copy EXCEPT ![r] = copy[r]]
    BY <1>1, <2>1
  <2> QED BY <2>1, <2>2, CountAgainStep, Zenon
<1> QED BY <1>2, <1>3

\* A step that changes nothing.
LEMMA Stuttering ==
    ASSUME Inv, UNCHANGED vars
    PROVE  Inv'
BY MembershipStep, Zenon DEF vars, backups

\* Every step keeps the invariant.
LEMMA Stays ==
    ASSUME Restrictions, Inv, [Next]_vars
    PROVE  Inv'
<1>1. CASE Primary
  BY <1>1, ReplicateStep, ApplyCommandStep, SnapshotStep, Zenon DEF Primary
<1>2. CASE StateReplication
  BY <1>2, StateReplicationStep
<1>3. CASE Messages
  BY <1>3, HandleStep, MasterIndexSteps, Zenon DEF Messages
<1>4. CASE Membership
  <2>1. ASSUME NEW r \in Replica, SetVoting(r) \/ RemoveServer(r) \/ Forget(r)
        PROVE  Inv'
    <3>1. UNCHANGED <<log, app, exited, master_index, repl, requests, replies,
                      replica_index, copy, kept>>
      BY <2>1, Zenon DEF SetVoting, RemoveServer, Forget, OthersThanMembers, backups
    <3> QED BY <3>1, MembershipStep, Zenon
  <2>2. ASSUME NEW o \in Object, FreeServer(o)
        PROVE  Inv'
    <3>1. UNCHANGED <<log, app, exited, master_index, repl, requests, replies,
                      replica_index, copy, kept>>
      BY <2>2, Zenon DEF FreeServer, OthersThanMembers, backups
    <3> QED BY <3>1, MembershipStep, Zenon
  <2> QED
    BY <1>4, <2>1, <2>2, MasterIndexSteps, UpdateStep, ServerOfPrimarySteps, Zenon
       DEF Membership
<1> QED
  BY <1>1, <1>2, <1>3, <1>4, Stuttering, Zenon DEF Next

-----------------------------------------------------------------------------
(* The theorems                                                            *)

\* What is on its way from rft_replicate to the replicas and back is of the
\* log, whatever messages are lost and however the membership, the snapshots
\* and the state_replication thread interleave.
THEOREM InvAlways == ASSUME Restrictions PROVE Spec => []Inv
<1>1. Init => Inv
  BY Initially
<1>2. Inv /\ [Next]_vars => Inv'
  BY Stays
<1> QED BY <1>1, <1>2, PTL DEF Spec

\* Since it has its server_t of the primary, every backup has applied exactly the
\* first replica_index commands (handle_replication_request,
\* handle_xapp_snapshot_request), also when add_server made that server_t anew.
THEOREM BackupPrefixAlways == ASSUME Restrictions PROVE Spec => []BackupPrefix
<1>1. Inv => BackupPrefix
  BY DEF Inv
<1> QED BY <1>1, InvAlways, PTL

\* Whatever replicas answer, state_replication ends the process with a range of
\* entries the log does not have (serialize_log_entries) only for an index that a
\* membership request brought (add_server).
THEOREM NoRangeExitAlways == ASSUME Restrictions PROVE Spec => []NoRangeExit
<1>1. Inv => NoRangeExit
  BY DEF Inv
<1> QED BY <1>1, InvAlways, PTL

-----------------------------------------------------------------------------
(* The array of replicas                                                   *)

\* A set of numbers that is not empty has a least one.
LEMMA LeastNumber ==
    ASSUME NEW T \in SUBSET Nat, T # {}
    PROVE  \E x \in T : \A y \in T : x <= y
<1> DEFINE R == OpToRel(<, Nat)
<1>1. IsWellFoundedOn(R, Nat)
  BY Zenon, NatLessThanWellFounded
<1>2. R = {p \in Nat \X Nat : p[1] < p[2]}
  BY DEF OpToRel
<1> HIDE DEF R
<1>3. \E x \in T : \A y \in T : ~(<<y, x>> \in R)
  BY Zenon, <1>1, WFMin
<1>4. \A x, y \in T : ~(<<y, x>> \in R) => x <= y
  BY <1>2
<1> QED
  BY Zenon, <1>3, <1>4

\* Induction, for a set of numbers.
LEMMA NumbersInduction ==
    ASSUME NEW S \in SUBSET Nat, 0 \in S, \A n \in S : n + 1 \in S
    PROVE  S = Nat
<1> DEFINE T == Nat \ S
<1>1. ASSUME T # {} PROVE FALSE
  <2>1. PICK x \in T : \A y \in T : x <= y
    <3>1. T \in SUBSET Nat
      OBVIOUS
    <3> HIDE DEF T
    <3> QED
      BY <1>1, <3>1, LeastNumber
  <2>2. x # 0 /\ x - 1 \in Nat /\ x - 1 \notin T
    BY <2>1
  <2> QED
    BY <2>2
<1> QED
  BY Zenon, <1>1

\* f[k] is what a search through the first k values of others took, those in S
\* and n of them at most.
IsSearch(f, others, S, n, last) ==
    f = [k \in 0 .. last |->
            IF k = 0 THEN << >>
            ELSE IF others[k] \in S /\ Len(f[k - 1]) < n
                 THEN Append(f[k - 1], others[k])
                 ELSE f[k - 1]]

\* A search is defined,
LEMMA SearchDefined ==
    ASSUME NEW S, NEW n, NEW last \in Nat, NEW others
    PROVE  \E f : IsSearch(f, others, S, n, last)
<1> DEFINE Step(seq, k) == IF others[k] \in S /\ Len(seq) < n
                           THEN Append(seq, others[k]) ELSE seq
           Search(f, m) ==
             f = [k \in 0 .. m |-> IF k = 0 THEN << >> ELSE Step(f[k - 1], k)]
           Exists == {m \in Nat : \E f : Search(f, m)}
<1>1. 0 \in Exists
  <2>1. Search([k \in 0 .. 0 |-> << >>], 0)
    OBVIOUS
  <2> HIDE DEF Search
  <2> QED
    BY <2>1
<1>2. ASSUME NEW m \in Exists PROVE m + 1 \in Exists
  <2>1. PICK g : Search(g, m)
    <3> HIDE DEF Search
    <3> QED
      BY DEF Exists
  <2> DEFINE h == [k \in 0 .. m + 1 |->
                     IF k = m + 1 THEN Step(g[m], m + 1) ELSE g[k]]
  <2>2. ASSUME NEW k \in 0 .. m + 1
        PROVE  h[k] = IF k = 0 THEN << >> ELSE Step(h[k - 1], k)
    <3>1. CASE k = m + 1
      BY <3>1
    <3>2. CASE k # m + 1
      <4>1. k \in 0 .. m /\ h[k] = g[k] /\ (k # 0 => h[k - 1] = g[k - 1])
        BY <3>2
      <4>2. g[k] = IF k = 0 THEN << >> ELSE Step(g[k - 1], k)
        BY Zenon, <4>1, <2>1
      <4> QED
        BY Zenon, <4>1, <4>2
    <3> QED
      BY Zenon, <3>1, <3>2
  <2>3. h = [k \in 0 .. m + 1 |-> h[k]]
    OBVIOUS
  <2> HIDE DEF h, Step
  <2>4. Search(h, m + 1)
    BY Zenon, <2>2, <2>3
  <2> HIDE DEF Search
  <2> QED
    BY <2>4
<1>3. Exists \in SUBSET Nat
  OBVIOUS
<1> HIDE DEF Exists
<1>4. last \in Exists
  BY <1>1, <1>2, <1>3, NumbersInduction
<1> QED
  BY <1>4 DEF Exists, IsSearch

\* and takes nothing else.
LEMMA SearchTakes ==
    ASSUME NEW T, NEW S, NEW n, NEW last \in Nat,
           NEW others \in [1 .. last -> T],
           NEW chosen, IsSearch(chosen, others, S, n, last)
    PROVE  chosen[last] \in Seq(T)
<1> DEFINE Typed == {m \in Nat : m <= last => chosen[m] \in Seq(T)}
<1>1. 0 \in Typed
  <2>1. chosen[0] = << >>
    BY DEF IsSearch
  <2>2. chosen[0] \in Seq(T)
    BY Zenon, <2>1, EmptySeq
  <2> QED
    BY <2>2
<1>2. ASSUME NEW m \in Typed PROVE m + 1 \in Typed
  <2> SUFFICES ASSUME m + 1 <= last PROVE chosen[m + 1] \in Seq(T)
    OBVIOUS
  <2>1. m + 1 \in 0 .. last /\ m + 1 # 0 /\ (m + 1) - 1 = m
    OBVIOUS
  <2>2. chosen[m] \in Seq(T) /\ others[m + 1] \in T
    OBVIOUS
  <2>3. chosen[m + 1] = IF others[m + 1] \in S /\ Len(chosen[m]) < n
                        THEN Append(chosen[m], others[m + 1])
                        ELSE chosen[m]
    BY Zenon, <2>1 DEF IsSearch
  <2>4. Append(chosen[m], others[m + 1]) \in Seq(T)
    BY Zenon, <2>2, AppendProperties
  <2> QED
    BY Zenon, <2>2, <2>3, <2>4
<1>3. Typed \in SUBSET Nat
  OBVIOUS
<1> HIDE DEF Typed
<1>4. last \in Typed
  BY Zenon, <1>1, <1>2, <1>3, NumbersInduction
<1> QED
  BY <1>4 DEF Typed

\* The primary is in its configuration, an array of objects.
ConfigTyped ==
    /\ config \in Seq(Object)
    /\ \E i \in DOMAIN config : config[i] = Me

InConfig == {config[i] : i \in DOMAIN config}

\* get_replica_servers chooses objects of the configuration.
LEMMA ReplicasInConfig ==
    ASSUME ConfigTyped
    PROVE  GetReplicaServers \in Seq(InConfig)
<1> DEFINE size == Len(config)
           n == IF NumReplicas > size THEN size - 1 ELSE NumReplicas
           me == CHOOSE i \in 1 .. size : config[i] = Me
           others == [k \in 1 .. size - 1 |-> config[((me + k - 1) % size) + 1]]
           chosen == CHOOSE f : IsSearch(f, others, voting, n, size - 1)
<1>1. size \in Nat \ {0} /\ DOMAIN config = 1 .. size /\ me \in 1 .. size
  BY DEF ConfigTyped
<1>2. others \in [1 .. size - 1 -> InConfig]
  <2> SUFFICES ASSUME NEW k \in 1 .. size - 1
               PROVE  config[((me + k - 1) % size) + 1] \in InConfig
    OBVIOUS
  <2> HIDE DEF me, size
  <2>1. ((me + k - 1) % size) + 1 \in 1 .. size
    BY <1>1
  <2> QED
    BY Zenon, <1>1, <2>1 DEF InConfig
<1>3. GetReplicaServers = chosen[size - 1]
  BY Zenon DEF GetReplicaServers, IsSearch
<1>4. size - 1 \in Nat
  BY <1>1
<1> HIDE DEF me, others, n, size
<1>5. IsSearch(chosen, others, voting, n, size - 1)
  BY Zenon, <1>4, SearchDefined
<1> HIDE DEF chosen
<1>6. chosen[size - 1] \in Seq(InConfig)
  BY Zenon, <1>2, <1>4, <1>5, SearchTakes
<1> QED
  BY <1>3, <1>6

\* ReplicasNotFreed with what get_replica_servers needs of the configuration.
ReplicasInv == ConfigTyped /\ faults \in 0 .. MaxFaults /\ ReplicasNotFreed

LEMMA InitReplicas == Init => ReplicasInv
<1> SUFFICES ASSUME Init PROVE ReplicasInv
  OBVIOUS
<1>1. ReplicasNotFreed
  <2>1. replica_servers = << >>
    BY Zenon DEF Init
  <2> QED
    BY <2>1 DEF ReplicasNotFreed
<1>2. Me \in Object /\ InitialObjects \in Seq(Object)
  <2>1. 0 \in 0 .. MaxFaults /\ Initial \in Seq(Replica)
    BY ReplicationAssumption
  <2>2. \A i \in DOMAIN Initial : <<Initial[i], 0>> \in Object
    BY <2>1 DEF Object
  <2> QED
    BY <2>1, <2>2 DEF Object, Me, InitialObjects
<1>3. config = <<Me>> \o InitialObjects /\ faults = 0
  BY Zenon DEF Init
<1>4. ConfigTyped
  BY <1>2, <1>3 DEF ConfigTyped
<1> QED
  BY <1>1, <1>3, <1>4, ReplicationAssumption DEF ReplicasInv

LEMMA NextReplicas == ReplicasInv /\ [Next]_vars => ReplicasInv'
<1> SUFFICES ASSUME ReplicasInv, [Next]_vars PROVE ReplicasInv'
  OBVIOUS
<1> USE DEF ReplicasInv
<1>1. CASE UNCHANGED <<config, leaving, replica_servers, faults>>
  BY <1>1 DEF ConfigTyped, ReplicasNotFreed, Freed
<1>2. ASSUME NEW r \in Replica, AddServer(r) PROVE ReplicasInv'
  <2>1. /\ faults' \in 0 .. MaxFaults /\ config' = Append(config, <<r, faults'>>)
        /\ UNCHANGED <<leaving, replica_servers>>
    BY <1>2, ReplicationAssumption DEF AddServer
  <2>2. <<r, faults'>> \in Object
    BY <2>1 DEF Object
  <2>3. config \in Seq(Object) /\ config' \in Seq(Object)
    BY <2>1, <2>2 DEF ConfigTyped
  <2>4. ASSUME NEW i \in DOMAIN config PROVE i \in DOMAIN config' /\ config'[i] = config[i]
    BY <2>1, <2>2, <2>3
  <2> HIDE DEF ReplicasInv
  <2>5. ConfigTyped'
    BY <2>3, <2>4 DEF ConfigTyped, ReplicasInv
  <2>6. ReplicasNotFreed'
    BY <2>1, <2>4 DEF ReplicasNotFreed, Freed, ReplicasInv
  <2> QED
    BY <2>1, <2>5, <2>6 DEF ReplicasInv
<1>3. ASSUME NEW r \in Replica, RemoveServer(r) PROVE ReplicasInv'
  <2>1. PICK i \in DOMAIN config :
          /\ config[i][1] = r /\ leaving' = leaving \cup {config[i]}
          /\ config' = [k \in 1 .. Len(config) - 1 |->
                          IF k < i THEN config[k] ELSE config[k + 1]]
    BY <1>3 DEF RemoveServer
  <2>2. UNCHANGED <<replica_servers, faults>>
    BY <1>3 DEF RemoveServer, history
  <2>3. /\ config \in Seq(Object) /\ Len(config) \in Nat
        /\ DOMAIN config = 1 .. Len(config) /\ i \in Nat
    BY DEF ConfigTyped
  <2>4. config' \in Seq(Object) /\ DOMAIN config' = 1 .. Len(config) - 1
    BY <2>1, <2>3
  <2>5. ASSUME NEW k \in DOMAIN config, k # i
        PROVE  \E l \in DOMAIN config' : config'[l] = config[k]
    <3>1. CASE k < i
      BY <2>1, <2>3, <2>4, <2>5, <3>1
    <3>2. CASE k > i
      <4>1. k - 1 \in DOMAIN config' /\ config'[k - 1] = config[k]
        BY <2>1, <2>3, <2>4, <2>5, <3>2
      <4> QED
        BY <4>1
    <3> QED
      BY <2>3, <2>5, <3>1, <3>2
  <2>6. ConfigTyped'
    <3>1. PICK k \in DOMAIN config : config[k] = Me
      BY DEF ConfigTyped
    <3>2. k # i
      BY <2>1, <3>1, ReplicationAssumption DEF Me
    <3> QED
      BY <2>4, <2>5, <3>1, <3>2 DEF ConfigTyped
  <2>7. ReplicasNotFreed'
    BY <2>1, <2>2, <2>5 DEF ReplicasNotFreed, Freed
  <2> QED
    BY <2>2, <2>6, <2>7
<1>4. ASSUME NEW o \in Object, FreeServer(o) PROVE ReplicasInv'
  <2>1. /\ config' = config /\ leaving' = leaving \ {o} /\ faults' = faults
        /\ replica_servers' = [i \in DOMAIN replica_servers |->
             IF replica_servers[i] = o THEN NULL ELSE replica_servers[i]]
    BY <1>4 DEF FreeServer, history
  <2> QED
    BY <2>1 DEF ConfigTyped, ReplicasNotFreed, Freed
<1>5. CASE UpdateReplicaServers
  <2>1. /\ replica_servers' = GetReplicaServers
        /\ config' = config /\ faults' = faults
    BY <1>5 DEF UpdateReplicaServers, history
  <2>2. replica_servers' \in Seq(InConfig)
    BY <2>1, ReplicasInConfig
  <2> QED
    BY <2>1, <2>2 DEF ConfigTyped, ReplicasNotFreed, Freed, InConfig
<1>6. ASSUME NEW r \in Replica,
             RestartReplica(r) \/ Forget(r) \/ CommitRaftConfigSnapshot(r)
      PROVE  ReplicasInv'
  <2>1. faults' \in 0 .. MaxFaults /\ UNCHANGED <<config, leaving, replica_servers>>
    BY <1>6, ReplicationAssumption DEF RestartReplica, Forget, CommitRaftConfigSnapshot, members
  <2> QED
    BY <2>1 DEF ConfigTyped, ReplicasNotFreed, Freed
<1>7. Primary => UNCHANGED <<config, leaving, replica_servers, faults>>
  BY Zenon DEF Primary, Replicate, ApplyCommand, ReadPipe, MetaReadFails, CompactEntry,
         EndCompaction, OthersThanLog, members, history
<1>8. StateReplication => UNCHANGED <<config, leaving, replica_servers, faults>>
  BY Zenon DEF StateReplication, WakeUp, Pick, ReadLog, ReadSnapshot, Send,
         OthersThanRepl, members, history
<1>9. Messages => UNCHANGED <<config, leaving, replica_servers, faults>>
  BY Zenon DEF Messages, Handle, HandleReplicationRequest, HandleXappSnapshotRequest,
         HandleReply, OthersThanBackups, members, history
<1>10. ASSUME NEW r \in Replica, AddServerAgain(r) \/ SetVoting(r) \/ Learn(r)
       PROVE  UNCHANGED <<config, leaving, replica_servers, faults>>
  BY <1>10 DEF AddServerAgain, SetVoting, Learn, OthersThanBackups, members, history
<1>11. CASE UNCHANGED vars
  BY <1>1, <1>11 DEF vars, members, history
<1> HIDE DEF ReplicasInv
<1> QED
  BY Zenon, <1>1, <1>2, <1>3, <1>4, <1>5, <1>6, <1>7, <1>8, <1>9, <1>10, <1>11
     DEF Next, Membership

\* No cell of the replica array leads to a freed server, for any number of
\* replicas and whatever joins, leaves and restarts.
THEOREM ReplicasNotFreedAlways == Spec => []ReplicasNotFreed
<1>1. ReplicasInv => ReplicasNotFreed
  BY DEF ReplicasInv
<1> QED
  BY <1>1, InitReplicas, NextReplicas, PTL DEF Spec

=============================================================================
