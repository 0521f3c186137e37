------------------------------ MODULE SampleMap ------------------------------
(***************************************************************************)
(* The key-value map sample of src/src/sample/map.js.  The list of keys is *)
(* stored as JSON under 'AllKeys' and each value under its own key.  put   *)
(* appends the key without looking for it; remove splices every match out  *)
(* of the list inside a loop that advances its index after a splice too,   *)
(* then deletes the value.  Each call of main is one atomic action.  The   *)
(* key 'AllKeys' itself is not among the inputs: put refuses it, and a     *)
(* remove of it deletes and at once re-stores the list.                    *)
(***************************************************************************)
EXTENDS Naturals, Sequences

\* Namespaced: this module's remove keeps the name of map.js's method.
SX == INSTANCE SequencesExt

CONSTANTS
    Keys,       \* the keys a caller may pass, 'AllKeys' excluded
    Vals,       \* the values a caller may pass
    MaxListed,  \* bound on the length of the stored key list
    None        \* an absent store record (storageLoad returns false)

VARIABLES
    keys,   \* JSON.parse(storageLoad('AllKeys'))
    store   \* store[k]: the value stored under k, or None

mapVars == <<keys, store>>

MapTypeOK ==
    /\ keys \in Seq(Keys) /\ Len(keys) <= MaxListed
    /\ store \in [Keys -> Vals \cup {None}]

\* init: storageStore('AllKeys', '[]').
MapInit ==
    /\ keys = << >>
    /\ store = [k \in Keys |-> None]

\* The loop of remove: for (i = 0; i < keys.length; i += 1) it splices
\* keys[i] out when it equals k, and the entry that moved into position i
\* is then skipped.  Indexes are 1-based here.
RECURSIVE SpliceLoop(_, _, _)
SpliceLoop(ks, k, i) ==
    IF i > Len(ks) THEN ks
    ELSE IF ks[i] = k THEN SpliceLoop(SX!RemoveAt(ks, i), k, i + 1)
                      ELSE SpliceLoop(ks, k, i + 1)

\* put(key, value): keys.push(key), the list and then the value are stored.
Put(k, v) ==
    /\ Len(keys) < MaxListed
    /\ keys' = Append(keys, k)
    /\ store' = [store EXCEPT ![k] = v]

\* remove(key): the splice loop, storageDel(key), the list stored again.
Remove(k) ==
    /\ keys' = SpliceLoop(keys, k, 1)
    /\ store' = [store EXCEPT ![k] = None]

\* main(input_str): dispatch on input.method.
MapNext ==
    \E k \in Keys :
        \/ \E v \in Vals : Put(k, v)
        \/ Remove(k)

MapSpec == MapInit /\ [][MapNext]_mapVars

-----------------------------------------------------------------------------
\* query 'keys' returns the stored list; query 'get' the stored value.
Listed == SX!ToSet(keys)

\* Query 'keys' lists no key whose value is gone.  The splice
\* loop skips the entry after each match, so a key put twice in a row
\* keeps one entry after remove deletes its value.
ListedKeysStored ==
    \A k \in Listed : store[k] # None
=============================================================================
