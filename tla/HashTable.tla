------------------------------ MODULE HashTable ------------------------------
(***************************************************************************)
(* The hash table of hashtable.c: an array of chains, in which a new       *)
(* element goes to the end of its chain.  rft.c keeps the role of every    *)
(* context in one.                                                         *)
(***************************************************************************)
EXTENDS Naturals, Sequences

CONSTANTS
    Key,          \* the keys
    Buckets,      \* size of the array
    HashCode,     \* hash_code: the bucket of every key
    NULL          \* no value

\* hashtable_new: an array of empty chains.
NewTable == [b \in 0 .. Buckets - 1 |-> << >>]

Chain(table, key) == table[HashCode[key]]

\* Where the key stands in its chain (equals compares the keys).
Places(table, key) ==
    {i \in 1 .. Len(Chain(table, key)) : Chain(table, key)[i].key = key}

\* The value of the element with the key (an insert never adds a second one).
Get(table, key) ==
    IF Places(table, key) = {} THEN NULL
    ELSE Chain(table, key)[CHOOSE i \in Places(table, key) : TRUE].value

\* The element with the key is given the new value; a new one goes to the end.
Insert(table, key, value) ==
    [table EXCEPT ![HashCode[key]] =
        IF Places(table, key) = {}
        THEN Append(@, [key |-> key, value |-> value])
        ELSE [i \in DOMAIN @ |->
                 IF i \in Places(table, key)
                 THEN [key |-> key, value |-> value] ELSE @[i]]]

\* hashtable_foreach_key: the keys of all chains.
Keys(table) ==
    UNION {{table[b][i].key : i \in DOMAIN table[b]} : b \in DOMAIN table}
=============================================================================
