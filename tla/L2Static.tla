------------------------------ MODULE L2Static ------------------------------
(***************************************************************************)
(* What the layer-2 table of rtk_api.c promises about the entries callers  *)
(* put there: a map from addresses to static entries.  A call changes      *)
(* nothing but the entry of its own address, once, in the way it was asked *)
(* to, and not always (it may fail); a flush removes entries when no call  *)
(* is under way.  What the chip learns, moves or ages changes nothing.     *)
(***************************************************************************)
CONSTANTS
    Keys,      \* unicast, multicast and IP multicast addresses
    Flushable, \* those a flush may remove
    Requests,  \* what calls ask for: records with fields ask, key, dst, auth
    None       \* no request

VARIABLES
    m,     \* per key: its static entry, in a set of at most one
    doing  \* the request under way, or None

mvars == <<m, doing>>

Init == m = [k \in Keys |-> {}] /\ doing = None

Change(entries) ==
    /\ m' = [m EXCEPT ![doing.key] = entries]
    /\ doing' \in {doing, None}

Put  == doing.ask = "put"  /\ Change({[dst |-> doing.dst, auth |-> doing.auth]})
Drop == doing.ask = "drop" /\ Change({})
\* Only on the port the entry names.
Authorise ==
    /\ doing.ask = "authorise"
    /\ Change({[e EXCEPT !.auth = IF e.dst = doing.dst THEN doing.auth ELSE @] : e \in m[doing.key]})

Start == doing = None /\ doing' \in Requests /\ UNCHANGED m
End   == doing # None /\ doing' = None /\ UNCHANGED m
Flush == \E S \in SUBSET Flushable :
    doing = None /\ UNCHANGED doing /\ m' = [k \in Keys |-> IF k \in S THEN {} ELSE m[k]]

Next == Start \/ End \/ Flush \/ (doing # None /\ (Put \/ Drop \/ Authorise))
Spec == Init /\ [][Next]_mvars
=============================================================================
