------------------------------ MODULE McfgMap ------------------------------
(***************************************************************************)
(* What the dictionary of ts_test/vns_config.c promises to callers whose   *)
(* keys have no '-': a map from keys to entries, where a key has an entry  *)
(* or none and an entry has a value or none.  A call that runs out of      *)
(* memory may leave the key without its value but never touches another.   *)
(***************************************************************************)
CONSTANTS Keys, Values, NoVal, Callbacks, MallocFails

VARIABLE m     \* per key: the set of its entries, at most one

Hooks(k) == UNION {e.cb : e \in m[k]}
Holds(k, v) == m' = [m EXCEPT ![k] = {[val |-> v, cb |-> Hooks(k)]}]

Init == m = [k \in Keys |-> {}]

Set(k, v)    == Holds(k, v)
SetFails(k)  == MallocFails /\ Holds(k, NoVal)
Hook(k, cb)  ==
    m' = [m EXCEPT ![k] = {[val |-> v, cb |-> Hooks(k) \cup {cb}] :
                              v \in IF m[k] = {} THEN {NoVal} ELSE {e.val : e \in m[k]}}]
Unset(k)     == m' = [m EXCEPT ![k] = {}]

Next ==
    \E k \in Keys :
        \/ \E v \in Values : Set(k, v)
        \/ SetFails(k)
        \/ \E cb \in Callbacks : Hook(k, cb)
        \/ Unset(k)

Spec == Init /\ [][Next]_m
=============================================================================
