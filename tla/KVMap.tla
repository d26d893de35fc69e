-------------------------------- MODULE KVMap --------------------------------
(***************************************************************************)
(* What the disk extendible hash table promises (spec.md 4.9 and 8): a     *)
(* map from keys to values with unique keys.  Insert adds an absent key    *)
(* and reports true; it may report false and change nothing (the key is   *)
(* present, or the table cannot grow).  Remove reports whether the key was *)
(* present and removes it.  GetValue reports the key's value, or nothing.  *)
(* last is the most recent call and its result.                            *)
(***************************************************************************)
CONSTANTS Keys, Vals, NoVal

VARIABLES kv, last

Init ==
    /\ kv = [k \in Keys |-> NoVal]
    /\ last = [op |-> "none", key |-> NoVal, ret |-> FALSE]

Insert(k, v) ==
    \/ /\ kv[k] = NoVal
       /\ kv' = [kv EXCEPT ![k] = v]
       /\ last' = [op |-> "insert", key |-> k, ret |-> TRUE]
    \/ /\ UNCHANGED kv
       /\ last' = [op |-> "insert", key |-> k, ret |-> FALSE]

Remove(k) ==
    /\ kv' = [kv EXCEPT ![k] = NoVal]
    /\ last' = [op |-> "remove", key |-> k, ret |-> kv[k] # NoVal]

GetValue(k) ==
    /\ UNCHANGED kv
    /\ last' = [op |-> "get", key |-> k, ret |-> IF kv[k] = NoVal THEN {} ELSE {kv[k]}]

Next == \E k \in Keys : (\E v \in Vals : Insert(k, v)) \/ Remove(k) \/ GetValue(k)

Spec == Init /\ [][Next]_<<kv, last>>
=============================================================================
