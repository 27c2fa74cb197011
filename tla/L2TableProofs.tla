--------------------------- MODULE L2TableProofs ---------------------------
(***************************************************************************)
(* Proofs about L2Table for any addresses, places, ports and calls.        *)
(*                                                                         *)
(* A call is several accesses, and the chip changes the table in between:  *)
(* what the call remembers (found) may be gone or changed when it writes.  *)
(* CallOK says what is left of it: an entry that is static now is the one  *)
(* found, since nobody else writes static entries while a call is under    *)
(* way.                                                                    *)
(***************************************************************************)
EXTENDS L2Table, TLAPS

StaticPlaces(k) == {a \in PlacesOf(k) : lut[a].static}

CallOK ==
    /\ pc = "check" =>
         /\ call.op \in Adds
         /\ ForGood => \E a \in StaticPlaces(call.key) : AsAsked(lut[a])
    /\ pc = "write" =>
         /\ call.op \notin Gets
         /\ found # Free => found.key = call.key
         /\ call.op \notin Adds => found # Free
         /\ IsAuth => found.dst = call.dst
         /\ \A a \in StaticPlaces(call.key) : found = lut[a]
         /\ found # Free /\ found.static => \E a \in StaticPlaces(call.key) : lut[a] = found

IInv == TypeOK /\ OnePlace /\ ExceptedOnce /\ CallOK

-----------------------------------------------------------------------------
\* A place is free or has an entry of a key, and not both.
LEMMA PlaceTypes ==
    ASSUME TypeOK, NEW a \in Addrs
    PROVE  /\ lut[a] = Free \/ lut[a] \in Entry
           /\ lut[a] = Free <=> lut[a].key \notin Keys
BY L2Assumption DEF TypeOK, Entry, Free

\* What callers ask for.
LEMMA CallTypes ==
    ASSUME NEW c \in Calls
    PROVE  /\ c.key \in Keys
           /\ c.op \in {"addr_add", "addr_del", "addr_get", "authMac_add", "authMac_del",
                        "mcast_add", "mcast_del", "mcast_get", "ip_add", "ip_del", "ip_get"}
           /\ c.op \in Adds \cup {"authMac_add", "authMac_del"} => c.dst \in Dsts
           /\ c.op = "addr_add" => c.static \in BOOLEAN /\ c.auth \in BOOLEAN
           /\ c.op \in {"authMac_add", "authMac_del"} => c.key \in UcKeys
           /\ c # None
BY DEF Calls, UcCalls, McCalls, IpCalls, Keys, Dsts, Adds, None

\* What a call writes is an entry of its address, or nothing.
LEMMA NewEntryTypes ==
    ASSUME TypeOK, CallOK, pc = "write"
    PROVE  NewEntry \in Entry /\ NewEntry.key = call.key
<1>1. call \in Calls
    BY DEF TypeOK
<1>2. CASE call.op = "addr_add"
    BY <1>1, <1>2, CallTypes DEF NewEntry, AddEntry, AddrEntry, Entry, Adds
<1>3. CASE call.op \in {"mcast_add", "ip_add"}
    BY <1>1, <1>3, CallTypes DEF NewEntry, AddEntry, GroupEntry, Entry, Adds
<1>4. CASE call.op \notin Adds
    <2>1. found \in Entry /\ found.key = call.key
        BY <1>4 DEF CallOK, TypeOK
    <2>2. AuthEntry(TRUE) \in Entry /\ AuthEntry(TRUE).key = call.key
        BY <2>1 DEF AuthEntry, Entry
    <2>3. AuthEntry(FALSE) \in Entry /\ AuthEntry(FALSE).key = call.key
        BY <2>1 DEF AuthEntry, Entry
    <2>4. Deleted \in Entry /\ Deleted.key = call.key
        BY <2>1 DEF Deleted, Entry
    <2> QED
        BY <1>4, <2>2, <2>3, <2>4 DEF NewEntry
<1> QED
    BY <1>2, <1>3, <1>4 DEF Adds

-----------------------------------------------------------------------------
\* The write of the chip: an entry of key k, or nothing, in a target of k.
PutAt(k, a, e) ==
    /\ a \in Targets(k)
    /\ e = Free \/ (e \in Entry /\ e.key = k)
    /\ lut' = [lut EXCEPT ![a] = e]

LEMMA PutFacts ==
    ASSUME TypeOK, OnePlace, NEW k \in Keys, NEW a, NEW e, PutAt(k, a, e)
    PROVE  /\ a \in Addrs /\ a \in Ways[k]
           /\ lut' \in [Addrs -> Entry \cup {Free}]
           /\ \A b \in Addrs : lut'[b] = IF b = a THEN e ELSE lut[b]
           /\ \A b \in Addrs \ {a} : lut[b].key # k
           /\ lut[a] = Free \/ lut[a].key = k \/ ~lut[a].static
<1>1. Ways[k] \subseteq Addrs
    BY L2Assumption
<1>2. CASE PlacesOf(k) # {}
    <2>1. a \in Addrs /\ lut[a].key = k
        BY <1>2 DEF PutAt, Targets, PlacesOf
    <2>2. lut[a] # Free
        BY <2>1, PlaceTypes
    <2>3. a \in Ways[k] /\ PlacesOf(k) = {a}
        BY <2>1, <2>2 DEF OnePlace
    <2> QED
        BY <2>1, <2>3 DEF PutAt, TypeOK, PlacesOf
<1>3. CASE PlacesOf(k) = {}
    <2>1. a \in Ways[k] /\ (lut[a] = Free \/ Learned(a))
        BY <1>3 DEF PutAt, Targets
    <2> QED
        BY <1>1, <1>3, <2>1 DEF PutAt, TypeOK, PlacesOf, Learned
<1> QED
    BY <1>2, <1>3

LEMMA PutOnePlace ==
    ASSUME TypeOK, OnePlace, NEW k \in Keys, NEW a, NEW e, PutAt(k, a, e)
    PROVE  OnePlace'
<1> SUFFICES ASSUME NEW b \in Addrs, lut'[b] # Free
             PROVE  b \in Ways[lut'[b].key] /\ \A c \in Addrs : lut'[c].key = lut'[b].key => c = b
    BY DEF OnePlace, PlacesOf
<1>1. CASE b = a
    <2>1. /\ \A c \in Addrs : lut'[c] = IF c = a THEN e ELSE lut[c]
          /\ \A c \in Addrs \ {a} : lut[c].key # k
          /\ a \in Ways[k]
        BY PutFacts
    <2>2. lut'[b] = e /\ e.key = k
        BY <1>1, <2>1 DEF PutAt
    <2> QED
        BY <1>1, <2>1, <2>2
<1>2. CASE b # a
    <2>1. lut'[b] = lut[b] /\ lut[b].key # k /\ lut[b].key \in Keys
        BY <1>2, PutFacts, PlaceTypes
    <2>2. b \in Ways[lut[b].key] /\ \A c \in Addrs : lut[c].key = lut[b].key => c = b
        BY <2>1 DEF OnePlace, PlacesOf
    <2>3. \A c \in Addrs : lut'[c].key = lut[b].key => c = b
        <3>1. e.key # lut[b].key
            BY <2>1, L2Assumption DEF PutAt, Free
        <3> QED
            BY <2>2, <3>1, PutFacts
    <2> QED
        BY <2>1, <2>2, <2>3 DEF PlacesOf
<1> QED
    BY <1>1, <1>2

\* Entries taken out.
LEMMA RemoveOnePlace ==
    ASSUME TypeOK, OnePlace, lut' \in [Addrs -> Entry \cup {Free}],
           \A b \in Addrs : lut'[b] = Free \/ lut'[b].key = lut[b].key
    PROVE  OnePlace'
<1> SUFFICES ASSUME NEW b \in Addrs, lut'[b] # Free
             PROVE  b \in Ways[lut'[b].key] /\ \A c \in Addrs : lut'[c].key = lut'[b].key => c = b
    BY DEF OnePlace, PlacesOf
<1>1. lut'[b].key = lut[b].key /\ lut'[b].key \in Keys
    BY DEF Entry
<1>2. lut[b] # Free
    BY <1>1, PlaceTypes
<1>3. \A c \in Addrs : lut[c].key = lut[b].key => c = b
    BY <1>2 DEF OnePlace, PlacesOf
<1>4. \A c \in Addrs : lut'[c].key = lut'[b].key => c = b
    BY <1>1, <1>3, L2Assumption DEF Free
<1> QED
    BY <1>1, <1>2, <1>4 DEF OnePlace, PlacesOf

-----------------------------------------------------------------------------
\* The chip leaves static entries alone.
StaticsKept ==
    \A k \in Keys : /\ StaticPlaces(k)' = StaticPlaces(k)
                    /\ \A a \in StaticPlaces(k) : lut'[a] = lut[a]

LEMMA OtherPlacesKeepStatics ==
    ASSUME TypeOK, NEW a \in Addrs, ~lut[a].static, ~lut'[a].static,
           \A b \in Addrs \ {a} : lut'[b] = lut[b]
    PROVE  StaticsKept
BY DEF StaticsKept, StaticPlaces, PlacesOf

LEMMA ChipKeeps ==
    ASSUME TypeOK, OnePlace, ChipStep
    PROVE  /\ lut' \in [Addrs -> Entry \cup {Free}]
           /\ OnePlace'
           /\ StaticsKept
<1>1. ASSUME NEW k \in UcKeys, NEW p \in Ports, Learn(k, p)
      PROVE  lut' \in [Addrs -> Entry \cup {Free}] /\ OnePlace' /\ StaticsKept
    <2> DEFINE e == [key |-> k, dst |-> {p}, static |-> FALSE, auth |-> FALSE, fresh |-> TRUE]
    <2>1. PICK a \in Targets(k) : lut' = [lut EXCEPT ![a] = e]
        BY <1>1 DEF Learn
    <2>2. e \in Entry /\ k \in Keys
        BY DEF Entry, Dsts, Keys
    <2>3. PutAt(k, a, e)
        BY <2>1, <2>2 DEF PutAt
    <2>4. /\ a \in Addrs
          /\ \A b \in Addrs : lut'[b] = IF b = a THEN e ELSE lut[b]
          /\ lut[a] = Free \/ ~lut[a].static
        BY <1>1, <2>2, <2>3, PutFacts DEF Learn, PlacesOf
    <2>5. StaticsKept
        <3>1. \A q \in Keys : StaticPlaces(q)' = StaticPlaces(q)
                               /\ \A b \in StaticPlaces(q) : lut'[b] = lut[b]
            <4> TAKE q \in Keys
            <4>1. a \notin StaticPlaces(q)
                BY <2>4, PlaceTypes DEF StaticPlaces, PlacesOf
            <4>2. a \notin StaticPlaces(q)'
                BY <2>4 DEF StaticPlaces
            <4>3. \A b \in Addrs : lut'[b] = lut[b] \/ b = a
                BY <2>4
            <4> QED
                BY <4>1, <4>2, <4>3 DEF StaticPlaces, PlacesOf
        <3> QED
            BY <3>1 DEF StaticsKept
    <2> QED
        BY <2>2, <2>3, <2>5, PutFacts, PutOnePlace
<1>2. ASSUME NEW a \in Addrs, NEW p \in Ports, Move(a, p)
      PROVE  lut' \in [Addrs -> Entry \cup {Free}] /\ OnePlace' /\ StaticsKept
    <2>1. lut[a] \in Entry /\ ~lut[a].static
        BY <1>2, PlaceTypes DEF Move, Learned
    <2>2. PICK b \in BOOLEAN : lut' = [lut EXCEPT ![a] = [lut[a] EXCEPT !.dst = {p}, !.auth = b]]
        <3>1. PICK b \in {FALSE, lut[a].auth} : lut' = [lut EXCEPT ![a].dst = {p}, ![a].auth = b]
            BY <1>2 DEF Move
        <3>2. b \in BOOLEAN
            BY <2>1 DEF Entry
        <3> QED
            BY <3>1, <3>2 DEF TypeOK
    <2>3. /\ [lut[a] EXCEPT !.dst = {p}, !.auth = b] \in Entry
          /\ [lut[a] EXCEPT !.dst = {p}, !.auth = b].key = lut[a].key
          /\ ~[lut[a] EXCEPT !.dst = {p}, !.auth = b].static
        BY <2>1 DEF Entry, Dsts
    <2>4. /\ lut' \in [Addrs -> Entry \cup {Free}]
          /\ lut'[a].key = lut[a].key /\ ~lut'[a].static
          /\ \A c \in Addrs \ {a} : lut'[c] = lut[c]
        BY <2>2, <2>3 DEF TypeOK
    <2> QED
        BY <2>1, <2>4, RemoveOnePlace, OtherPlacesKeepStatics
<1>3. ASSUME NEW a \in Addrs, Age(a)
      PROVE  lut' \in [Addrs -> Entry \cup {Free}] /\ OnePlace' /\ StaticsKept
    <2>1. /\ lut' \in [Addrs -> Entry \cup {Free}]
          /\ lut'[a] = Free /\ ~lut[a].static
          /\ \A b \in Addrs \ {a} : lut'[b] = lut[b]
        BY <1>3 DEF Age, TypeOK, Learned
    <2>2. \A k \in Keys : a \notin StaticPlaces(k) /\ a \notin StaticPlaces(k)'
        BY <2>1, L2Assumption DEF StaticPlaces, PlacesOf, Free
    <2>3. StaticsKept
        BY <2>1, <2>2 DEF StaticsKept, StaticPlaces, PlacesOf
    <2> QED
        BY <2>1, <2>3, RemoveOnePlace
<1> QED
    BY <1>1, <1>2, <1>3 DEF ChipStep

LEMMA StaysType ==
    ASSUME TypeOK, Stays
    PROVE  stayed' \subseteq Addrs
BY DEF TypeOK, Stays, Listable

\* Steps that leave the table and the call alone.
LEMMA ChipIInv ==
    ASSUME IInv, ChipStep, stayed' \subseteq Addrs
    PROVE  IInv'
<1>1. UNCHANGED <<call, pc, found, flushType, exc, dump, ret>>
    BY DEF ChipStep, Learn, Move, Age, Chip
<1>2. lut' \in [Addrs -> Entry \cup {Free}] /\ OnePlace' /\ StaticsKept
    BY ChipKeeps DEF IInv
<1>3. TypeOK'
    BY <1>1, <1>2 DEF IInv, TypeOK
<1>4. pc # "idle" => call.key \in Keys
    BY CallTypes DEF IInv, TypeOK
<1>5. CallOK'
    <2>1. CASE pc = "check"
        <3>1. PICK a : ForGood => a \in StaticPlaces(call.key) /\ AsAsked(lut[a])
            BY <2>1 DEF IInv, CallOK
        <3>2. ForGood => a \in StaticPlaces(call.key)' /\ lut'[a] = lut[a]
            BY <1>1, <1>2, <1>4, <2>1, <3>1 DEF StaticsKept, StaticPlaces, PlacesOf
        <3> QED
            BY <1>1, <2>1, <3>1, <3>2 DEF IInv, CallOK, ForGood, AsAsked, StaticPlaces, PlacesOf
    <2>2. CASE pc = "write"
        <3>1. \A a \in StaticPlaces(call.key) : found = lut[a] /\ lut'[a] = lut[a]
            BY <1>2, <1>4, <2>2 DEF IInv, CallOK, StaticsKept
        <3>2. StaticPlaces(call.key)' = StaticPlaces(call.key)
            BY <1>1, <1>2, <1>4, <2>2 DEF StaticsKept, StaticPlaces, PlacesOf
        <3>3. found # Free /\ found.static => \E a \in StaticPlaces(call.key) : lut'[a] = found
            BY <2>2, <3>1 DEF IInv, CallOK
        <3> QED
            BY <1>1, <2>2, <3>1, <3>2, <3>3 DEF IInv, CallOK, IsAuth
    <2> QED
        BY <1>1, <2>1, <2>2 DEF CallOK
<1> QED
    BY <1>1, <1>2, <1>3, <1>5 DEF IInv, ExceptedOnce

\* A call begins, or one for the whole table runs: no call on one address is
\* between its accesses.
LEMMA BeginIInv ==
    ASSUME IInv, NEW c \in Calls, Begin(c), stayed' \subseteq Addrs
    PROVE  IInv'
<1>1. c # None
    BY CallTypes
<1> QED
    BY <1>1 DEF Begin, IInv, TypeOK, OnePlace, PlacesOf, ExceptedOnce, CallOK

LEMMA FlushKeeps ==
    ASSUME TypeOK, OnePlace, FlushCall
    PROVE  /\ pc = "idle" /\ UNCHANGED <<call, pc, found, exc, dump>>
           /\ lut' \in [Addrs -> Entry \cup {Free}]
           /\ flushType' \in {"dynamic", "both"}
           /\ \A b \in Addrs : lut'[b] = lut[b] \/ (lut'[b] = Free /\ lut[b].key \in UcKeys)
<1>1. ASSUME NEW ports, NEW vids, Forced(ports, vids)
      PROVE  /\ lut' \in [Addrs -> Entry \cup {Free}]
             /\ \A b \in Addrs : lut'[b] = lut[b] \/ (lut'[b] = Free /\ lut[b].key \in UcKeys)
    BY <1>1 DEF Forced, TypeOK
<1>2. CASE UNCHANGED lut
    BY <1>2, <1>1 DEF FlushCall, UcastFlush, FlushTypeSet, Reply, TypeOK
<1>3. CASE \E ports, vids : Forced(ports, vids)
    BY <1>1, <1>3 DEF FlushCall, UcastFlush, FlushTypeSet, Reply, TypeOK
<1> QED
    BY <1>2, <1>3 DEF FlushCall, UcastFlush, FlushTypeSet

LEMMA FlushIInv ==
    ASSUME IInv, FlushCall, stayed' \subseteq Addrs
    PROVE  IInv'
<1>1. /\ pc = "idle" /\ UNCHANGED <<call, pc, found, exc, dump>>
      /\ lut' \in [Addrs -> Entry \cup {Free}]
      /\ flushType' \in {"dynamic", "both"}
      /\ \A b \in Addrs : lut'[b] = Free \/ lut'[b].key = lut[b].key
    BY FlushKeeps DEF IInv
<1>2. OnePlace'
    BY <1>1, RemoveOnePlace DEF IInv
<1> QED
    BY <1>1, <1>2 DEF IInv, TypeOK, ExceptedOnce, CallOK

LEMMA ExcIInv ==
    ASSUME IInv, ExcCall, stayed' \subseteq Addrs
    PROVE  IInv'
<1>1. pc = "idle" /\ UNCHANGED <<lut, call, pc, found, flushType, dump>>
    BY DEF ExcCall, ExcAdd, ExcDel, Excepted
<1>2. ASSUME NEW g \in Groups \cup {Unused}, NEW i \in ExcIdx, SetExc(i, g),
             g = Unused \/ ExcPlaces(g) = {}
      PROVE  exc' \in [ExcIdx -> Groups \cup {Unused}] /\ ExceptedOnce'
    BY <1>2 DEF SetExc, IInv, TypeOK, ExceptedOnce, ExcPlaces
<1>3. exc' \in [ExcIdx -> Groups \cup {Unused}] /\ ExceptedOnce'
    <2>1. CASE UNCHANGED exc
        BY <2>1 DEF IInv, TypeOK, ExceptedOnce
    <2> QED
        BY <1>2, <2>1 DEF ExcCall, ExcAdd, ExcDel, ExcTarget
<1> QED
    BY <1>1, <1>3 DEF IInv, TypeOK, OnePlace, PlacesOf, CallOK

LEMMA DumpTypes ==
    ASSUME TypeOK, ListCall
    PROVE  dump' \in Dump /\ dump'.next <= LutMax + 1
<1>0. LutMax \in Nat /\ (CHOOSE p \in Ports : TRUE) \in Ports
    BY L2Assumption
<1>1. ASSUME NEW kind \in {"uc", "ucspa", "mc", "ip"}, NEW p \in Ports, StartDump(kind, p)
      PROVE  dump' \in Dump /\ dump'.next <= LutMax + 1
    <2>1. NoDump \in Dump /\ NoDump.next = 0
        BY <1>0 DEF NoDump, Dump
    <2>2. dump' = [NoDump EXCEPT !.kind = kind, !.port = p]
        BY <1>1 DEF StartDump
    <2>3. dump' \in Dump /\ dump'.next = NoDump.next
        BY <2>1, <2>2 DEF Dump
    <2> QED
        BY <1>0, <2>1, <2>3
<1>2. CASE NextGet
    <2>1. ASSUME NEW a \in Addrs,
                 dump' = [dump EXCEPT !.next = a + 1, !.listed = dump.listed \cup {a}]
          PROVE  dump' \in Dump /\ dump'.next <= LutMax + 1
        <3>1. a \in Nat /\ a <= LutMax
            BY <1>0 DEF Addrs
        <3>2. dump \in Dump
            BY DEF TypeOK
        <3>3. a + 1 \in Nat /\ a + 1 <= LutMax + 1
            BY <1>0, <3>1
        <3>4. dump.listed \cup {a} \in SUBSET Addrs
            BY <3>2 DEF Dump
        <3>5. dump' \in Dump /\ dump'.next = a + 1
            BY <2>1, <3>2, <3>3, <3>4 DEF Dump
        <3> QED
            BY <3>3, <3>5
    <2>2. ASSUME NEW end \in {"wrapped", "beyond", "busy"}, dump' = [dump EXCEPT !.end = end]
          PROVE  dump' \in Dump /\ dump'.next <= LutMax + 1
        BY <2>2 DEF TypeOK, Dump
    <2> QED
        BY <1>2, <2>1, <2>2 DEF NextGet
<1> QED
    BY <1>1, <1>2 DEF ListCall

LEMMA ListIInv ==
    ASSUME IInv, ListCall, stayed' \subseteq Addrs
    PROVE  IInv'
<1>1. pc = "idle" /\ UNCHANGED <<lut, call, pc, found, flushType, exc>>
    BY DEF ListCall, StartDump, NextGet
<1> QED
    BY <1>1, DumpTypes DEF IInv, TypeOK, OnePlace, PlacesOf, ExceptedOnce, CallOK

-----------------------------------------------------------------------------
\* The accesses of a call.
LEMMA ReturnIInv ==
    ASSUME IInv, stayed' \subseteq Addrs, UNCHANGED <<flushType, exc, dump>>,
           lut' \in [Addrs -> Entry \cup {Free}], OnePlace', NEW r, Return(r)
    PROVE  IInv'
BY DEF Return, IInv, TypeOK, ExceptedOnce, CallOK, None

\* The entry of an address is in one place.
LEMMA OneStaticPlace ==
    ASSUME TypeOK, OnePlace, NEW k \in Keys, NEW a \in PlacesOf(k)
    PROVE  PlacesOf(k) = {a} /\ lut[a] \in Entry /\ lut[a] # Free
<1>1. a \in Addrs /\ lut[a].key = k
    BY DEF PlacesOf
<1>2. lut[a] \in Entry /\ lut[a] # Free
    BY <1>1, PlaceTypes
<1> QED
    BY <1>1, <1>2 DEF OnePlace

LEMMA LookupIInv ==
    ASSUME IInv, Lookup, stayed' \subseteq Addrs
    PROVE  IInv'
<1>1. UNCHANGED <<lut, flushType, exc, dump>>
    BY DEF Lookup
<1>2. lut' \in [Addrs -> Entry \cup {Free}] /\ OnePlace'
    BY <1>1 DEF IInv, TypeOK, OnePlace, PlacesOf
<1>3. call \in Calls /\ call # None /\ call.key \in Keys
    BY CallTypes DEF IInv, TypeOK, Lookup
<1>4. CASE \E r : Return(r)
    BY <1>1, <1>2, <1>4, ReturnIInv
<1>5. ASSUME NEW a \in PlacesOf(call.key), call.op \notin Gets, IsAuth => lut[a].dst = call.dst,
             found' = lut[a], Go("write")
      PROVE  IInv'
    <2>1. PlacesOf(call.key) = {a} /\ lut[a] \in Entry /\ lut[a] # Free /\ lut[a].key = call.key
        BY <1>3, OneStaticPlace DEF IInv, PlacesOf
    <2>2. StaticPlaces(call.key) = IF lut[a].static THEN {a} ELSE {}
        BY <2>1 DEF StaticPlaces
    <2>3. StaticPlaces(call.key)' = StaticPlaces(call.key)
        BY <1>1, <1>5 DEF Go, StaticPlaces, PlacesOf
    <2>4. CallOK'
        BY <1>1, <1>5, <2>1, <2>2, <2>3 DEF Go, CallOK, IsAuth
    <2> QED
        BY <1>1, <1>2, <1>3, <1>5, <2>1, <2>4 DEF Go, IInv, TypeOK, ExceptedOnce
<1>6. CASE PlacesOf(call.key) = {} /\ call.op \in Adds /\ found' = Free /\ Go("write")
    <2>1. StaticPlaces(call.key)' = {}
        BY <1>1, <1>6 DEF Go, StaticPlaces, PlacesOf
    <2>2. call.op \notin Gets /\ ~IsAuth
        BY <1>6 DEF Adds, Gets, IsAuth
    <2>3. CallOK'
        BY <1>1, <1>6, <2>1, <2>2 DEF Go, CallOK, IsAuth
    <2> QED
        BY <1>1, <1>2, <1>3, <1>6, <2>3 DEF Go, IInv, TypeOK, ExceptedOnce
<1> QED
    BY <1>4, <1>5, <1>6 DEF Lookup

\* What a write does to the table: an entry put, taken out, or nothing.
LEMMA WriteFacts ==
    ASSUME IInv, Write
    PROVE  /\ call \in Calls /\ call.key \in Keys
           /\ \/ UNCHANGED lut
              \/ \E a : PutAt(call.key, a, Stored(NewEntry))
<1>1. call \in Calls /\ call.key \in Keys
    BY CallTypes DEF IInv, TypeOK, Write
<1>2. NewEntry \in Entry /\ NewEntry.key = call.key
    BY NewEntryTypes DEF IInv, Write
<1>3. Stored(NewEntry) = Free \/ (Stored(NewEntry) \in Entry /\ Stored(NewEntry).key = call.key)
    BY <1>2 DEF Stored
<1>4. ASSUME NEW a \in Targets(call.key),
             lut' = [lut EXCEPT ![a] = IF ~Valid(NewEntry) /\ PlacesOf(call.key) = {}
                                       THEN lut[a] ELSE Stored(NewEntry)]
      PROVE  UNCHANGED lut \/ PutAt(call.key, a, Stored(NewEntry))
    BY <1>3, <1>4 DEF PutAt, IInv, TypeOK
<1> QED
    BY <1>1, <1>4 DEF Write

LEMMA WriteTable ==
    ASSUME IInv, Write
    PROVE  lut' \in [Addrs -> Entry \cup {Free}] /\ OnePlace'
<1>1. CASE UNCHANGED lut
    BY <1>1 DEF IInv, TypeOK, OnePlace, PlacesOf
<1> QED
    BY <1>1, WriteFacts, PutFacts, PutOnePlace DEF IInv

\* An addition that will be checked has written its entry.
LEMMA AddWrites ==
    ASSUME IInv, Write, call.op \in Adds, ret' \notin {"failed", "busy"} \/ pc' = "check",
           ForGood
    PROVE  \E a \in Addrs : AsAsked(lut'[a]) /\ lut'[a].static
<1>1. call \in Calls /\ call.key \in Keys /\ pc = "write"
    BY WriteFacts DEF Write
<1>2. NewEntry \in Entry /\ NewEntry.key = call.key
    BY <1>1, NewEntryTypes DEF IInv
<1>3. NewEntry.static /\ AsAsked(NewEntry)
    BY DEF NewEntry, AddEntry, AddrEntry, GroupEntry, AsAsked, ForGood, Adds
<1>4. Stored(NewEntry) = NewEntry /\ Valid(NewEntry)
    BY <1>3 DEF Stored, Valid
<1>5. PICK a \in Targets(call.key) : lut' = [lut EXCEPT ![a] = NewEntry]
    BY <1>1, <1>4 DEF Write, Return
<1>6. PutAt(call.key, a, NewEntry)
    BY <1>2, <1>5 DEF PutAt
<1>7. a \in Addrs /\ lut'[a] = NewEntry
    BY <1>1, <1>6, PutFacts DEF IInv
<1> QED
    BY <1>3, <1>7

LEMMA WriteIInv ==
    ASSUME IInv, Write, stayed' \subseteq Addrs
    PROVE  IInv'
<1>1. lut' \in [Addrs -> Entry \cup {Free}] /\ OnePlace'
    BY WriteTable
<1>2. UNCHANGED <<flushType, exc, dump>>
    BY DEF Write
<1>3. CASE \E r : Return(r)
    BY <1>1, <1>2, <1>3, ReturnIInv
<1>4. CASE call.op \in Adds /\ found' = Free /\ Go("check")
    <2>1. ForGood => \E a \in Addrs : AsAsked(lut'[a]) /\ lut'[a].static
        BY <1>4, AddWrites DEF Go
    <2>2. CallOK'
        BY <1>4, <2>1 DEF Go, CallOK, ForGood, AsAsked, StaticPlaces, PlacesOf
    <2>3. call \in Calls /\ call # None
        BY WriteFacts, CallTypes
    <2> QED
        BY <1>1, <1>2, <1>4, <2>2, <2>3 DEF Go, IInv, TypeOK, ExceptedOnce
<1> QED
    BY <1>3, <1>4 DEF Write

LEMMA CheckIInv ==
    ASSUME IInv, Check, stayed' \subseteq Addrs
    PROVE  IInv'
<1>1. lut' \in [Addrs -> Entry \cup {Free}] /\ OnePlace'
    BY DEF IInv, TypeOK, OnePlace, PlacesOf, Check
<1> QED
    BY <1>1, ReturnIInv DEF Check

LEMMA InitIInv == Init => IInv
<1> SUFFICES ASSUME Init PROVE IInv
    OBVIOUS
<1>1. NoDump \in Dump /\ NoDump.next = 0
    BY L2Assumption DEF NoDump, Dump
<1>2. TypeOK
    BY <1>1, L2Assumption DEF Init, TypeOK, None
<1> QED
    BY <1>2 DEF Init, IInv, OnePlace, ExceptedOnce, CallOK

LEMMA NextIInv == IInv /\ [Next]_<<vars, stayed>> => IInv'
<1> SUFFICES ASSUME IInv, [Next]_<<vars, stayed>> PROVE IInv'
    OBVIOUS
<1>1. CASE Next
    <2>1. stayed' \subseteq Addrs
        BY <1>1, StaysType DEF Next, IInv
    <2> QED
        BY <1>1, <2>1, ChipIInv, BeginIInv, LookupIInv, WriteIInv, CheckIInv, FlushIInv,
           ExcIInv, ListIInv
        DEF Next, EntryCall, Proceed
<1>2. CASE UNCHANGED <<vars, stayed>>
    BY <1>2 DEF vars, IInv, TypeOK, OnePlace, PlacesOf, ExceptedOnce, CallOK, ForGood, AsAsked,
                StaticPlaces, IsAuth
<1> QED
    BY <1>1, <1>2

\* TableOK: an address is in the table once, in a place of its hash, whatever
\* the chip learns, moves and ages between the lookup and the write of a call;
\* and a group is in the exception table once.
THEOREM TableSafe == Spec => []TableOK
<1>1. IInv => TableOK
    BY DEF IInv, TableOK
<1> QED
    BY <1>1, InitIInv, NextIInv, PTL DEF Spec

-----------------------------------------------------------------------------
\* Results.  An access that is not the last of its call returns nothing; of
\* the last ones, only a write changes the table.
EndsTrue ==
    /\ Ends("ok") /\ call.op \in Adds /\ ForGood =>
          \E a \in Addrs : AsAsked(lut'[a]) /\ lut'[a].static
    /\ Ends("ok") /\ call.op \in {"addr_del", "mcast_del", "ip_del"} =>
          \A a \in Addrs : lut'[a].key # call.key
    /\ Ends("ok") /\ call.op = "authMac_add" =>
          \E a \in Addrs : lut'[a].key = call.key /\ lut'[a].dst = call.dst /\ lut'[a].auth
    /\ Ends("failed") =>
          \A a \in Ways[call.key] : lut[a] # Free /\ lut[a].static /\ lut[a].key # call.key
    /\ Ends("full") => ~ForGood

LEMMA LookupTrue ==
    ASSUME IInv, Lookup
    PROVE  EndsTrue
<1>1. Ends("ok") => call.op \in Gets
    BY DEF Ends, Lookup, Return, Go
<1>2. ~Ends("failed") /\ ~Ends("full")
    BY DEF Ends, Lookup, Return, Go
<1> QED
    BY <1>1, <1>2 DEF EndsTrue, Adds, Gets

LEMMA CheckTrue ==
    ASSUME IInv, Check
    PROVE  EndsTrue
<1>1. call.op \in Adds /\ UNCHANGED lut
    BY DEF IInv, CallOK, Check
<1>2. ForGood => \E a \in PlacesOf(call.key) : AsAsked(lut'[a]) /\ lut'[a].static
    BY <1>1 DEF IInv, CallOK, Check, StaticPlaces
<1>3. Ends("full") => PlacesOf(call.key) = {}
    BY DEF Ends, Check, Return
<1>4. ~Ends("failed")
    BY DEF Ends, Check, Return
<1> QED
    BY <1>1, <1>2, <1>3, <1>4 DEF EndsTrue, Adds, PlacesOf

LEMMA WriteTrue ==
    ASSUME IInv, Write
    PROVE  EndsTrue
<1>0. call \in Calls /\ call.key \in Keys /\ pc = "write" /\ TypeOK /\ OnePlace
    BY WriteFacts DEF Write, IInv
<1>1. Ends("ok") /\ call.op \in Adds /\ ForGood =>
          \E a \in Addrs : AsAsked(lut'[a]) /\ lut'[a].static
    BY AddWrites DEF Ends
<1>2. ASSUME Ends("ok")
      PROVE  \E a \in Targets(call.key) :
                 lut' = [lut EXCEPT ![a] = IF ~Valid(NewEntry) /\ PlacesOf(call.key) = {}
                                           THEN lut[a] ELSE Stored(NewEntry)]
    BY <1>2 DEF Ends, Write, Return, Go
<1>3. ASSUME Ends("ok"), call.op \in {"addr_del", "mcast_del", "ip_del"}
      PROVE  \A a \in Addrs : lut'[a].key # call.key
    <2>1. ~Valid(NewEntry)
        <3>1. NewEntry = Deleted
            BY <1>3 DEF NewEntry, Adds
        <3>2. found \in Entry
            BY <1>0, <1>3 DEF IInv, CallOK, TypeOK, Adds
        <3> QED
            BY <3>1, <3>2 DEF Deleted, Valid, Entry
    <2>2. CASE PlacesOf(call.key) = {}
        <3>1. UNCHANGED lut
            BY <1>0, <1>2, <1>3, <2>1, <2>2 DEF TypeOK
        <3> QED
            BY <2>2, <3>1 DEF PlacesOf
    <2>3. CASE PlacesOf(call.key) # {}
        <3>1. PICK a : PutAt(call.key, a, Free)
            BY <1>2, <1>3, <2>1, <2>3 DEF PutAt, Stored
        <3>2. \A b \in Addrs : lut'[b] = IF b = a THEN Free ELSE lut[b]
            BY <1>0, <3>1, PutFacts
        <3>3. \A b \in Addrs \ {a} : lut[b].key # call.key
            BY <1>0, <3>1, PutFacts
        <3> QED
            BY <1>0, <3>2, <3>3, L2Assumption DEF Free
    <2> QED
        BY <2>2, <2>3
<1>4. ASSUME Ends("ok"), call.op = "authMac_add"
      PROVE  \E a \in Addrs : lut'[a].key = call.key /\ lut'[a].dst = call.dst /\ lut'[a].auth
    <2>1. found \in Entry /\ found.key = call.key /\ found.dst = call.dst
        BY <1>0, <1>4 DEF IInv, CallOK, TypeOK, Adds, IsAuth
    <2>2. NewEntry = [found EXCEPT !.auth = TRUE]
        BY <1>4 DEF NewEntry, AuthEntry, Adds
    <2>3. /\ NewEntry \in Entry /\ NewEntry.auth
          /\ NewEntry.key = call.key /\ NewEntry.dst = call.dst
        BY <2>1, <2>2 DEF Entry
    <2>4. PICK a : PutAt(call.key, a, NewEntry)
        BY <1>2, <1>4, <2>3 DEF PutAt, Stored, Valid
    <2>5. a \in Addrs /\ lut'[a] = NewEntry
        BY <1>0, <2>4, PutFacts
    <2> QED
        BY <2>3, <2>5
<1>5. ASSUME Ends("failed")
      PROVE  \A a \in Ways[call.key] : lut[a] # Free /\ lut[a].static /\ lut[a].key # call.key
    <2>1. Targets(call.key) = {}
        BY <1>5 DEF Ends, Write, Return, Go
    <2>2. Ways[call.key] \subseteq Addrs
        BY <1>0, L2Assumption
    <2> QED
        BY <2>1, <2>2 DEF Targets, PlacesOf, Learned
<1>6. ~Ends("full")
    BY DEF Ends, Write, Return, Go
<1> QED
    BY <1>1, <1>3, <1>4, <1>5, <1>6 DEF EndsTrue

\* ResultsTrue: what a call reports when it ends is so in the table, although
\* the chip had its turns between the accesses of the call.
THEOREM ResultsAreTrue == Spec => ResultsTrue
<1>1. IInv /\ [Next]_<<vars, stayed>> => [EndsTrue]_vars
    <2> SUFFICES ASSUME IInv, Next PROVE EndsTrue \/ UNCHANGED vars
        OBVIOUS
    <2>1. CASE ~Proceed
        <3>1. pc = "idle" \/ UNCHANGED pc \/ pc' # "idle"
            BY <2>1 DEF Next, ChipStep, Learn, Move, Age, Chip, EntryCall, Begin, FlushCall,
                        UcastFlush, FlushTypeSet, ExcCall, ExcAdd, ExcDel, ListCall, StartDump,
                        NextGet
        <3>2. \A r : ~Ends(r)
            BY <3>1 DEF Ends
        <3> QED
            BY <3>2 DEF EndsTrue
    <2>2. CASE Proceed
        BY <2>2, LookupTrue, WriteTrue, CheckTrue DEF Proceed
    <2> QED
        BY <2>1, <2>2
<1> QED
    BY <1>1, InitIInv, NextIInv, PTL DEF Spec, ResultsTrue, EndsTrue

-----------------------------------------------------------------------------
\* Lists.  While a list is made, a place that kept its entry has been listed
\* or is still to come.
ListInv ==
    Listing => \A a \in stayed : a \in Listable(dump) /\ (a < dump.next => a \in dump.listed)

LEMMA NextListInv ==
    ASSUME IInv, ListInv, Next
    PROVE  /\ ListInv'
           /\ Listing /\ ~Listing' => stayed \cap Searched' \subseteq dump.listed
<1>0. Addrs \subseteq Nat /\ dump.next \in Nat /\ stayed \subseteq Addrs /\ LutMax \in Nat
    <2>1. dump \in Dump /\ stayed \subseteq Addrs
        BY DEF IInv, TypeOK
    <2>2. LutMax \in Nat
        BY L2Assumption
    <2>3. Addrs \subseteq Nat
        BY DEF Addrs
    <2> QED
        BY <2>1, <2>2, <2>3 DEF Dump
<1>1. ASSUME UNCHANGED dump
      PROVE  ListInv' /\ ~(Listing /\ ~Listing')
    <2>1. Listing' <=> Listing
        BY <1>1 DEF Listing
    <2>2. \A a \in stayed' : Listing => /\ a \in stayed
                                       /\ lut'[a].key = lut[a].key /\ lut'[a].dst = lut[a].dst
        BY <2>1 DEF Next, Stays
    <2>3. \A a : lut'[a].key = lut[a].key /\ lut'[a].dst = lut[a].dst =>
                 (OfKind(dump, lut'[a]) <=> OfKind(dump, lut[a]))
        BY DEF OfKind
    <2>4. \A a \in stayed' : Listing => a \in Listable(dump)'
        BY <1>1, <2>2, <2>3 DEF ListInv, Listable
    <2> QED
        BY <1>1, <2>1, <2>2, <2>4 DEF ListInv
<1>2. ASSUME NEW kind \in {"uc", "ucspa", "mc", "ip"}, NEW p \in Ports, StartDump(kind, p)
      PROVE  ListInv' /\ ~(Listing /\ ~Listing')
    <2>1. ~Listing /\ dump'.next = 0
        BY <1>2 DEF StartDump, NoDump
    <2>2. Listing' => stayed' = Listable(dump)'
        BY <2>1 DEF Next, Stays
    <2>3. Listable(dump)' \subseteq Addrs
        BY DEF Listable
    <2>4. \A a \in Nat : ~(a < 0)
        OBVIOUS
    <2>5. Listing' => \A a \in stayed' : a \in Listable(dump)' /\ a \in Nat
        BY <1>0, <2>2, <2>3
    <2>6. Listing' => \A a \in stayed' : a \in Listable(dump)' /\ ~(a < dump'.next)
        BY <2>1, <2>4, <2>5
    <2> QED
        BY <2>1, <2>6 DEF ListInv
<1>3. ASSUME NextGet
      PROVE  ListInv' /\ (Listing /\ ~Listing' => stayed \cap Searched' \subseteq dump.listed)
    <2>1. UNCHANGED lut /\ dump \in Dump /\ Listing
        BY <1>3 DEF NextGet, IInv, TypeOK
    <2>2. ASSUME NEW end \in {"wrapped", "beyond", "busy"}, dump' = [dump EXCEPT !.end = end]
          PROVE  ~Listing' /\ dump'.end = end /\ dump'.next = dump.next
        BY <2>1, <2>2 DEF Listing, Dump
    <2>3. CASE dump.next > LutMax /\ dump' = [dump EXCEPT !.end = "beyond"]
        <3>1. \A a \in stayed : a < dump.next
            BY <1>0, <2>3, L2Assumption DEF Addrs
        <3> QED
            BY <2>1, <2>2, <2>3, <3>1 DEF ListInv
    <2>4. CASE Listable(dump) = {} /\ dump' = [dump EXCEPT !.end = "wrapped"]
        BY <2>1, <2>2, <2>4 DEF ListInv
    <2>5. ASSUME NEW a \in Addrs, NextFrom(a, dump.next, Listable(dump)), Wrapped(a),
                 dump' = [dump EXCEPT !.end = "wrapped"]
          PROVE  ListInv' /\ stayed \subseteq dump.listed
        <3>1. {b \in Listable(dump) : b >= dump.next} = {}
            BY <1>0, <2>5 DEF NextFrom, Wrapped, Lowest
        <3>2. \A b \in stayed : b < dump.next
            BY <1>0, <2>1, <3>1 DEF ListInv
        <3> QED
            BY <2>1, <2>2, <2>5, <3>2 DEF ListInv
    <2>6. CASE dump' = [dump EXCEPT !.end = "busy"]
        <3>1. Searched' = {a \in Addrs : a < dump.next}
            BY <2>2, <2>6 DEF Searched
        <3>2. stayed \cap Searched' \subseteq dump.listed
            BY <2>1, <3>1 DEF ListInv
        <3> QED
            BY <2>2, <2>6, <3>2 DEF ListInv
    <2>7. ASSUME NEW a \in Addrs, NextFrom(a, dump.next, Listable(dump)), ~Wrapped(a),
                 dump' = [dump EXCEPT !.next = a + 1, !.listed = dump.listed \cup {a}]
          PROVE  ListInv' /\ Listing'
        <3>1. /\ dump'.next = a + 1 /\ dump'.listed = dump.listed \cup {a}
              /\ dump'.kind = dump.kind /\ dump'.end = dump.end /\ dump'.port = dump.port
            BY <2>1, <2>7 DEF Dump
        <3>2. Listing' /\ Listable(dump)' = Listable(dump) /\ stayed' \subseteq stayed
            BY <2>1, <3>1 DEF Listing, Listable, OfKind, Next, Stays
        <3>3. \A b \in Listable(dump) : b >= dump.next => a <= b
            BY <1>0, <2>7 DEF NextFrom, Wrapped, Lowest, Listable
        <3>4. \A b \in stayed : b < a + 1 => b \in dump.listed \cup {a}
            <4> SUFFICES ASSUME NEW b \in stayed, b < a + 1 PROVE b \in dump.listed \cup {a}
                OBVIOUS
            <4>1. a \in Nat /\ b \in Nat
                BY <1>0
            <4>2. b \in Listable(dump) /\ (b < dump.next => b \in dump.listed)
                BY <2>1 DEF ListInv
            <4>3. b >= dump.next => b = a
                BY <1>0, <3>3, <4>1, <4>2
            <4> QED
                BY <1>0, <4>1, <4>2, <4>3
        <3> QED
            BY <2>1, <3>1, <3>2, <3>4 DEF ListInv
    <2> QED
        BY <1>3, <2>3, <2>4, <2>5, <2>6, <2>7 DEF NextGet
<1>4. ~ListCall => UNCHANGED dump
    BY DEF Next, ChipStep, Learn, Move, Age, Chip, EntryCall, Proceed, Lookup, Write, Check, Begin,
           FlushCall, UcastFlush, FlushTypeSet, Reply, ExcCall, ExcAdd, ExcDel, Excepted
<1> QED
    BY <1>1, <1>2, <1>3, <1>4 DEF ListCall

\* ListComplete: a list that has come to its end names every entry that was in
\* its place all the time, whatever else happened to the table meanwhile, and
\* one that a busy table cut short names those below the address it got to.
THEOREM ListsComplete == Spec => ListComplete
<1> DEFINE Inv == IInv /\ ListInv
           Complete == Listing /\ ~Listing' => stayed \cap Searched' \subseteq dump.listed
<1>1. Init => Inv
    BY InitIInv DEF Init, NoDump, ListInv, Listing
<1>2. Inv /\ [Next]_<<vars, stayed>> => Inv'
    BY NextIInv, NextListInv DEF vars, ListInv, Listing, Listable, OfKind
<1>3. Inv /\ [Next]_<<vars, stayed>> => [Complete]_vars
    BY NextListInv
<1> QED
    BY <1>1, <1>2, <1>3, PTL DEF Spec, ListComplete

-----------------------------------------------------------------------------
\* The refinement of L2Static: what the promise sees of the table.
EntriesOf(k) == {[dst |-> lut[a].dst, auth |-> lut[a].auth] : a \in StaticPlaces(k)}
MapNow == [k \in Keys |-> EntriesOf(k)]

LEMMA SameMap ==
    ASSUME StaticsKept
    PROVE  MapNow' = MapNow
<1>1. \A k \in Keys : EntriesOf(k)' = EntriesOf(k)
    <2> TAKE k \in Keys
    <2>1. StaticPlaces(k)' = StaticPlaces(k) /\ \A a \in StaticPlaces(k) : lut'[a] = lut[a]
        BY DEF StaticsKept
    <2>2. EntriesOf(k)' = {[dst |-> lut'[a].dst, auth |-> lut'[a].auth] : a \in StaticPlaces(k)}
        BY <2>1 DEF EntriesOf
    <2>3. \A x : x \in EntriesOf(k)' <=> x \in EntriesOf(k)
        BY <2>1, <2>2 DEF EntriesOf
    <2> QED
        BY <2>2, <2>3 DEF EntriesOf
<1> QED
    BY <1>1 DEF MapNow

LEMMA SameTable ==
    ASSUME UNCHANGED lut
    PROVE  MapNow' = MapNow
BY DEF MapNow, EntriesOf, StaticPlaces, PlacesOf

LEMMA AsksNone ==
    ASSUME call = None
    PROVE  Asks = None
BY DEF Asks, None, Gets, IsAuth

\* What a call asks the map for.
LEMMA AsksWhat ==
    ASSUME call \in Calls
    PROVE  /\ call.op \in Gets => Asks = None
           /\ call.op \notin Gets =>
                /\ Asks \in [ask : {"put"}, key : Keys, dst : Dsts, auth : BOOLEAN]
                              \cup [ask : {"authorise"}, key : UcKeys, dst : Dsts, auth : BOOLEAN]
                              \cup [ask : {"drop"}, key : Keys]
                /\ Asks.key = call.key
           /\ call.op = "addr_add" /\ call.static =>
                Asks.ask = "put" /\ Asks.dst = call.dst /\ Asks.auth = call.auth
           /\ call.op \in {"mcast_add", "ip_add"} =>
                Asks.ask = "put" /\ Asks.dst = call.dst /\ Asks.auth = FALSE
           /\ IsAuth => /\ Asks.ask = "authorise" /\ Asks.dst = call.dst
                        /\ Asks.auth = (call.op = "authMac_add")
           /\ (call.op = "addr_add" /\ ~call.static) \/ call.op \in {"addr_del", "mcast_del", "ip_del"}
                => Asks.ask = "drop"
<1>0. /\ call.key \in Keys
      /\ call.op \in {"addr_add", "addr_del", "addr_get", "authMac_add", "authMac_del",
                      "mcast_add", "mcast_del", "mcast_get", "ip_add", "ip_del", "ip_get"}
      /\ call.op \in Adds \cup {"authMac_add", "authMac_del"} => call.dst \in Dsts
      /\ call.op = "addr_add" => call.static \in BOOLEAN /\ call.auth \in BOOLEAN
      /\ call.op \in {"authMac_add", "authMac_del"} => call.key \in UcKeys
    BY CallTypes
<1>1. CASE call.op \in Gets
    BY <1>1 DEF Asks, Gets, IsAuth
<1>2. CASE call.op = "addr_add" /\ call.static
    <2>1. Asks = [ask |-> "put", key |-> call.key, dst |-> call.dst, auth |-> call.auth]
        BY <1>2 DEF Asks, Gets, IsAuth
    <2> QED
        BY <1>0, <1>2, <2>1 DEF Gets, IsAuth, Adds
<1>3. CASE call.op \in {"mcast_add", "ip_add"}
    <2>1. Asks = [ask |-> "put", key |-> call.key, dst |-> call.dst, auth |-> FALSE]
        BY <1>3 DEF Asks, Gets, IsAuth
    <2> QED
        BY <1>0, <1>3, <2>1 DEF Gets, IsAuth, Adds
<1>4. CASE IsAuth
    <2>1. Asks = [ask |-> "authorise", key |-> call.key, dst |-> call.dst,
                  auth |-> call.op = "authMac_add"]
        BY <1>4 DEF Asks, Gets, IsAuth
    <2>2. (call.op = "authMac_add") \in BOOLEAN
        OBVIOUS
    <2> QED
        BY <1>0, <1>4, <2>1, <2>2 DEF Gets, IsAuth
<1>5. CASE (call.op = "addr_add" /\ ~call.static) \/ call.op \in {"addr_del", "mcast_del", "ip_del"}
    <2>1. Asks = [ask |-> "drop", key |-> call.key]
        BY <1>5 DEF Asks, Gets, IsAuth
    <2> QED
        BY <1>0, <1>5, <2>1 DEF Gets, IsAuth
<1> QED
    BY <1>0, <1>1, <1>2, <1>3, <1>4, <1>5 DEF Gets, IsAuth

LEMMA RequestIsNotNone ==
    ASSUME NEW r \in [ask : {"put"}, key : Keys, dst : Dsts, auth : BOOLEAN]
                       \cup [ask : {"authorise"}, key : UcKeys, dst : Dsts, auth : BOOLEAN]
                       \cup [ask : {"drop"}, key : Keys]
    PROVE  r # None
<1>1. "ask" \in DOMAIN r
    OBVIOUS
<1>2. "ask" \notin DOMAIN None
    BY DEF None
<1> QED
    BY <1>1, <1>2

\* What a write does to the map.
LEMMA PutMap ==
    ASSUME TypeOK, OnePlace, NEW k \in Keys, NEW a, NEW e, PutAt(k, a, e)
    PROVE  MapNow' = [MapNow EXCEPT ![k] = IF e # Free /\ e.static
                                           THEN {[dst |-> e.dst, auth |-> e.auth]} ELSE {}]
<1>1. /\ a \in Addrs
      /\ \A b \in Addrs : lut'[b] = IF b = a THEN e ELSE lut[b]
      /\ \A b \in Addrs \ {a} : lut[b].key # k
      /\ lut[a] = Free \/ lut[a].key = k \/ ~lut[a].static
    BY PutFacts
<1>2. e = Free \/ e.key = k
    BY DEF PutAt
<1>3. "none" \notin Keys
    BY L2Assumption
<1>4. \A j \in Keys \ {k} : EntriesOf(j)' = EntriesOf(j)
    <2> TAKE j \in Keys \ {k}
    <2>1. a \notin StaticPlaces(j)
        BY <1>1, <1>3 DEF StaticPlaces, PlacesOf, Free
    <2>2. a \notin StaticPlaces(j)'
        BY <1>1, <1>2, <1>3 DEF StaticPlaces, PlacesOf, Free
    <2>3. StaticPlaces(j)' = StaticPlaces(j) /\ \A b \in StaticPlaces(j) : lut'[b] = lut[b]
        BY <1>1, <2>1, <2>2 DEF StaticPlaces, PlacesOf
    <2>4. EntriesOf(j)' = {[dst |-> lut'[b].dst, auth |-> lut'[b].auth] : b \in StaticPlaces(j)}
        BY <2>3 DEF EntriesOf
    <2>5. \A x : x \in EntriesOf(j)' <=> x \in EntriesOf(j)
        BY <2>3, <2>4 DEF EntriesOf
    <2> QED
        BY <2>4, <2>5 DEF EntriesOf
<1>5. StaticPlaces(k)' = IF e # Free /\ e.static THEN {a} ELSE {}
    BY <1>1, <1>2, <1>3 DEF StaticPlaces, PlacesOf, Free
<1>6. EntriesOf(k)' = IF e # Free /\ e.static THEN {[dst |-> e.dst, auth |-> e.auth]} ELSE {}
    BY <1>1, <1>5 DEF EntriesOf
<1> QED
    BY <1>4, <1>6 DEF MapNow

\* The static entry of the address of a call that found it.
LEMMA FoundEntry ==
    ASSUME IInv, pc = "write", call.key \in Keys, found # Free
    PROVE  MapNow[call.key] = IF found.static THEN {[dst |-> found.dst, auth |-> found.auth]}
                              ELSE {}
<1>1. \A a \in StaticPlaces(call.key) : lut[a] = found /\ found.static
    BY DEF IInv, CallOK, StaticPlaces
<1>2. found.static => StaticPlaces(call.key) # {}
    BY DEF IInv, CallOK
<1>3. EntriesOf(call.key) = IF found.static THEN {[dst |-> found.dst, auth |-> found.auth]} ELSE {}
    BY <1>1, <1>2 DEF EntriesOf
<1> QED
    BY <1>3 DEF MapNow

\* The last access of a call that changes nothing, and the ones before it.
LEMMA AccessStatic ==
    ASSUME IInv, UNCHANGED lut, call' = call \/ call' = None
    PROVE  Static!End \/ UNCHANGED Static!mvars
<1>1. MapNow' = MapNow
    BY SameTable
<1>2. call' = call => Asks' = Asks
    BY DEF Asks, IsAuth
<1>3. call' = None => Asks' = None
    BY DEF Asks, None, Gets, IsAuth
<1> QED
    BY <1>1, <1>2, <1>3 DEF Static!End, Static!mvars, MapNow, EntriesOf, StaticPlaces

LEMMA WriteStatic ==
    ASSUME IInv, Write
    PROVE  Static!Next \/ UNCHANGED Static!mvars
<1>0. /\ call \in Calls /\ call.key \in Keys /\ pc = "write" /\ TypeOK /\ OnePlace
      /\ call.op \notin Gets
    BY WriteFacts DEF Write, IInv, CallOK
<1>1. call' = call \/ call' = None
    BY DEF Write, Return, Go
<1>2. CASE UNCHANGED lut
    BY <1>1, <1>2, AccessStatic DEF Static!Next
<1>3. ASSUME NEW a, PutAt(call.key, a, Stored(NewEntry))
      PROVE  Static!Next
    <2> DEFINE e == Stored(NewEntry)
               E == IF e # Free /\ e.static THEN {[dst |-> e.dst, auth |-> e.auth]} ELSE {}
    <2>1. MapNow' = [MapNow EXCEPT ![call.key] = E]
        BY <1>0, <1>3, PutMap
    <2>2. Asks # None /\ Asks.key = call.key
        BY <1>0, AsksWhat, RequestIsNotNone
    <2>3. Asks' \in {Asks, None}
        <3>1. call' = call => Asks' = Asks
            BY DEF Asks, IsAuth
        <3>2. call' = None => Asks' = None
            BY DEF Asks, None, Gets, IsAuth
        <3> QED
            BY <1>1, <3>1, <3>2
    <2>4. NewEntry \in Entry
        BY <1>0, NewEntryTypes DEF IInv
    <2>5. E = IF NewEntry.static THEN {[dst |-> NewEntry.dst, auth |-> NewEntry.auth]} ELSE {}
        <3>1. NewEntry # Free
            BY <2>4, L2Assumption DEF Free, Entry
        <3>2. CASE Valid(NewEntry)
            BY <3>1, <3>2 DEF Stored
        <3>3. CASE ~Valid(NewEntry)
            BY <3>3 DEF Stored, Valid
        <3> QED
            BY <3>2, <3>3
    <2> HIDE DEF E
    <2>6. CASE call.op \in Adds /\ NewEntry.static
        <3>1. Asks.ask = "put" /\ [dst |-> NewEntry.dst, auth |-> NewEntry.auth]
                                    = [dst |-> Asks.dst, auth |-> Asks.auth]
            BY <1>0, <2>6, AsksWhat DEF NewEntry, AddEntry, AddrEntry, GroupEntry, Adds
        <3>2. E = {[dst |-> Asks.dst, auth |-> Asks.auth]}
            BY <2>5, <2>6, <3>1
        <3>3. Static!Put
            BY <2>1, <2>2, <2>3, <3>1, <3>2 DEF Static!Put, Static!Change, MapNow, EntriesOf, StaticPlaces
        <3> QED
            BY <2>2, <3>3 DEF Static!Next
    <2>7. CASE (call.op \in Adds /\ ~NewEntry.static) \/ call.op \in {"addr_del", "mcast_del", "ip_del"}
        <3>1. Asks.ask = "drop"
            BY <1>0, <2>7, AsksWhat DEF NewEntry, AddEntry, AddrEntry, GroupEntry, Adds
        <3>2. ~NewEntry.static
            <4>1. CASE call.op \notin Adds
                <5>1. NewEntry = [found EXCEPT !.static = FALSE, !.auth = FALSE, !.fresh = FALSE]
                    BY <2>7, <4>1 DEF NewEntry, Deleted
                <5>2. found \in Entry
                    BY <1>0, <4>1 DEF IInv, CallOK, TypeOK
                <5> QED
                    BY <5>1, <5>2 DEF Entry
            <4> QED
                BY <2>7, <4>1 DEF Adds
        <3>3. Static!Drop
            BY <2>1, <2>2, <2>3, <2>5, <3>1, <3>2
            DEF Static!Drop, Static!Change, MapNow, EntriesOf, StaticPlaces
        <3> QED
            BY <2>2, <3>3 DEF Static!Next
    <2>8. CASE IsAuth
        <3>1. /\ Asks.ask = "authorise" /\ Asks.dst = call.dst
              /\ Asks.auth = (call.op = "authMac_add")
            BY <1>0, <2>8, AsksWhat
        <3>2. found \in Entry /\ found # Free /\ found.dst = call.dst
            BY <1>0, <2>8 DEF IInv, CallOK, TypeOK, IsAuth, Adds
        <3>3. NewEntry = [found EXCEPT !.auth = Asks.auth]
            BY <2>8, <3>1 DEF NewEntry, AuthEntry, IsAuth, Adds
        <3>4. NewEntry.static = found.static /\ NewEntry.dst = Asks.dst /\ NewEntry.auth = Asks.auth
            BY <3>1, <3>2, <3>3 DEF Entry
        <3>5. MapNow[call.key] = IF found.static THEN {[dst |-> found.dst, auth |-> found.auth]} ELSE {}
            BY <1>0, <3>2, FoundEntry
        <3>6. E = {[x EXCEPT !.auth = IF x.dst = Asks.dst THEN Asks.auth ELSE x.auth] :
                      x \in MapNow[call.key]}
            <4>1. CASE found.static
                <5> DEFINE y == [dst |-> found.dst, auth |-> found.auth]
                <5>1. MapNow[call.key] = {y}
                    BY <3>5, <4>1
                <5>2. [y EXCEPT !.auth = IF y.dst = Asks.dst THEN Asks.auth ELSE y.auth]
                        = [dst |-> NewEntry.dst, auth |-> NewEntry.auth]
                    BY <3>1, <3>2, <3>4
                <5>3. E = {[dst |-> NewEntry.dst, auth |-> NewEntry.auth]}
                    BY <2>5, <3>4, <4>1
                <5> HIDE DEF y
                <5> QED
                    BY <5>1, <5>2, <5>3
            <4>2. CASE ~found.static
                BY <2>5, <3>4, <3>5, <4>2
            <4> QED
                BY <4>1, <4>2
        <3>7. Static!Authorise
            BY <2>1, <2>2, <2>3, <3>1, <3>6
            DEF Static!Authorise, Static!Change, MapNow, EntriesOf, StaticPlaces
        <3> QED
            BY <2>2, <3>7 DEF Static!Next
    <2> QED
        BY <1>0, <2>6, <2>7, <2>8, CallTypes DEF Adds, Gets, IsAuth
<1> QED
    BY <1>2, <1>3, WriteFacts

LEMMA BeginStatic ==
    ASSUME IInv, NEW c \in Calls, Begin(c)
    PROVE  Static!Start \/ UNCHANGED Static!mvars
<1>1. call = None /\ call' = c /\ UNCHANGED lut
    BY DEF Begin, IInv, TypeOK
<1>2. MapNow' = MapNow /\ Asks = None
    BY <1>1, SameTable, AsksNone
<1>3. Asks' = None \/ Asks' \in [ask : {"put"}, key : Keys, dst : Dsts, auth : BOOLEAN]
                          \cup [ask : {"authorise"}, key : UcKeys, dst : Dsts, auth : BOOLEAN]
                          \cup [ask : {"drop"}, key : Keys]
    <2> DEFINE AsksFor(d) ==
            CASE d.op \in Gets \cup {"none"}     -> None
              [] d.op = "addr_add" /\ d.static ->
                   [ask |-> "put", key |-> d.key, dst |-> d.dst, auth |-> d.auth]
              [] d.op \in {"mcast_add", "ip_add"} ->
                   [ask |-> "put", key |-> d.key, dst |-> d.dst, auth |-> FALSE]
              [] d.op \in {"authMac_add", "authMac_del"} ->
                   [ask |-> "authorise", key |-> d.key, dst |-> d.dst,
                    auth |-> d.op = "authMac_add"]
              [] OTHER -> [ask |-> "drop", key |-> d.key]
    <2>1. Asks' = AsksFor(c)
        BY <1>1 DEF Asks, IsAuth
    <2>2. /\ c.key \in Keys
          /\ c.op \in {"addr_add", "addr_del", "addr_get", "authMac_add", "authMac_del",
                       "mcast_add", "mcast_del", "mcast_get", "ip_add", "ip_del", "ip_get"}
          /\ c.op \in Adds \cup {"authMac_add", "authMac_del"} => c.dst \in Dsts
          /\ c.op = "addr_add" => c.static \in BOOLEAN /\ c.auth \in BOOLEAN
          /\ c.op \in {"authMac_add", "authMac_del"} => c.key \in UcKeys
        BY CallTypes
    <2>3. CASE c.op \in Gets
        BY <2>1, <2>3 DEF Gets
    <2>4. CASE c.op = "addr_add" /\ c.static
        BY <2>1, <2>2, <2>4 DEF Gets, Adds
    <2>5. CASE c.op \in {"mcast_add", "ip_add"}
        BY <2>1, <2>2, <2>5 DEF Gets, Adds
    <2>6. CASE c.op \in {"authMac_add", "authMac_del"}
        BY <2>1, <2>2, <2>6 DEF Gets
    <2>7. CASE c.op \in {"addr_del", "mcast_del", "ip_del"} \/ (c.op = "addr_add" /\ ~c.static)
        BY <2>1, <2>2, <2>7 DEF Gets
    <2> QED
        BY <2>2, <2>3, <2>4, <2>5, <2>6, <2>7 DEF Gets
<1> QED
    BY <1>2, <1>3 DEF Static!Start, Static!mvars, MapNow, EntriesOf, StaticPlaces

LEMMA FlushStatic ==
    ASSUME IInv, FlushCall
    PROVE  Static!Flush
<1>0. TypeOK /\ OnePlace
    BY DEF IInv
<1>1. /\ call = None /\ call' = call
      /\ \A b \in Addrs : lut'[b] = lut[b] \/ (lut'[b] = Free /\ lut[b].key \in UcKeys)
    BY <1>0, FlushKeeps DEF TypeOK
<1>2. Asks = None /\ Asks' = Asks
    BY <1>1, AsksNone DEF Asks, IsAuth
<1> DEFINE S == {k \in UcKeys : \E b \in PlacesOf(k) : lut'[b] = Free}
<1>3. "none" \notin Keys /\ UcKeys \subseteq Keys
    BY L2Assumption DEF Keys
<1>4. \A k \in Keys : EntriesOf(k)' = IF k \in S THEN {} ELSE EntriesOf(k)
    <2> TAKE k \in Keys
    <2>1. CASE k \in S
        <3>1. PICK b \in PlacesOf(k) : lut'[b] = Free
            BY <2>1
        <3>2. PlacesOf(k) = {b}
            BY <1>0, OneStaticPlace
        <3>3. PlacesOf(k)' = {}
            BY <1>1, <1>3, <3>1, <3>2 DEF PlacesOf, Free
        <3> QED
            BY <2>1, <3>3 DEF EntriesOf, StaticPlaces
    <2>2. CASE k \notin S
        <3>1. \A b \in PlacesOf(k) : lut'[b] = lut[b]
            BY <1>1, <2>2 DEF PlacesOf
        <3>2. PlacesOf(k)' = PlacesOf(k)
            BY <1>1, <1>3, <3>1 DEF PlacesOf, Free
        <3>3. StaticPlaces(k)' = StaticPlaces(k) /\ \A b \in StaticPlaces(k) : lut'[b] = lut[b]
            BY <3>1, <3>2 DEF StaticPlaces
        <3>4. EntriesOf(k)' = {[dst |-> lut'[b].dst, auth |-> lut'[b].auth] : b \in StaticPlaces(k)}
            BY <3>3 DEF EntriesOf
        <3>5. \A x : x \in EntriesOf(k)' <=> x \in EntriesOf(k)
            BY <3>3, <3>4 DEF EntriesOf
        <3> QED
            BY <2>2, <3>4, <3>5 DEF EntriesOf
    <2> QED
        BY <2>1, <2>2
<1>5. S \in SUBSET UcKeys
    OBVIOUS
<1> HIDE DEF S
<1>6. MapNow' = [k \in Keys |-> IF k \in S THEN {} ELSE MapNow[k]]
    BY <1>4 DEF MapNow
<1> QED
    BY <1>2, <1>5, <1>6 DEF Static!Flush, MapNow, EntriesOf, StaticPlaces

LEMMA NextStatic ==
    ASSUME IInv, Next
    PROVE  Static!Next \/ UNCHANGED Static!mvars
<1>1. CASE ChipStep
    <2>1. MapNow' = MapNow
        BY <1>1, ChipKeeps, SameMap DEF IInv
    <2>2. call' = call
        BY <1>1 DEF ChipStep, Learn, Move, Age, Chip
    <2>3. Asks' = Asks
        BY <2>2 DEF Asks, IsAuth
    <2> QED
        BY <2>1, <2>3 DEF Static!mvars, MapNow, EntriesOf, StaticPlaces
<1>2. ASSUME NEW c \in Calls, Begin(c) PROVE Static!Next \/ UNCHANGED Static!mvars
    BY <1>2, BeginStatic DEF Static!Next
<1>3. CASE Lookup \/ Check
    <2>1. UNCHANGED lut /\ (call' = call \/ call' = None)
        BY <1>3 DEF Lookup, Check, Return, Go
    <2> QED
        BY <2>1, AccessStatic DEF Static!Next
<1>4. CASE Write
    BY <1>4, WriteStatic
<1>5. CASE FlushCall
    BY <1>5, FlushStatic DEF Static!Next
<1>6. CASE ExcCall \/ ListCall
    <2>1. UNCHANGED lut /\ call' = call
        BY <1>6 DEF ExcCall, ExcAdd, ExcDel, Excepted, ListCall, StartDump, NextGet
    <2> QED
        BY <2>1, AccessStatic DEF Static!Next
<1> QED
    BY <1>1, <1>2, <1>3, <1>4, <1>5, <1>6 DEF Next, EntryCall, Proceed

LEMMA InitStatic == Init => Static!Init
<1> SUFFICES ASSUME Init PROVE Static!Init
    OBVIOUS
<1>1. \A k \in Keys : StaticPlaces(k) = {}
    BY L2Assumption DEF Init, StaticPlaces, PlacesOf, Free
<1>2. MapNow = [k \in Keys |-> {}]
    BY <1>1 DEF MapNow, EntriesOf
<1>3. Asks = None
    BY AsksNone DEF Init
<1> QED
    BY <1>2, <1>3 DEF Static!Init, MapNow, EntriesOf, StaticPlaces

\* KeepsStatic: the static entries are a map that a call changes at its own
\* address only, once and as it was asked to, although it writes back what it
\* read before the chip had its turns.
THEOREM StaticKept == Spec => KeepsStatic
<1>1. IInv /\ [Next]_<<vars, stayed>> => [Static!Next]_(Static!mvars)
    <2> SUFFICES ASSUME IInv, [Next]_<<vars, stayed>> PROVE [Static!Next]_(Static!mvars)
        OBVIOUS
    <2>1. CASE Next
        BY <2>1, NextStatic
    <2>2. CASE UNCHANGED <<vars, stayed>>
        <3>1. UNCHANGED lut /\ call' = call
            BY <2>2 DEF vars
        <3> QED
            BY <3>1, AccessStatic DEF Static!Next
    <2> QED
        BY <2>1, <2>2
<1> QED
    BY <1>1, InitIInv, NextIInv, InitStatic, PTL DEF Spec, KeepsStatic, Static!Spec

-----------------------------------------------------------------------------
\* How many addresses a list has still to ask for.
Remaining == LutMax + 1 - dump.next

\* A list is at most as long as the table, whatever the chip does between its
\* calls: each ..._next_get ends it, by its answer or because the table stays
\* busy, or leaves fewer addresses to ask for, and nobody else takes a step
\* back.  An answer at the address asked for moves
\* the cursor on, and one from before it, after the search has gone round, is
\* the end.
THEOREM ListsAreShort ==
    /\ Spec => [](Remaining \in 0 .. LutMax + 1)
    /\ Spec => [][NextGet => ~Listing' \/ Remaining' < Remaining]_vars
    /\ Spec => [][Listing /\ Listing' => Remaining' <= Remaining]_vars
<1>0. TypeOK => dump \in Dump /\ dump.next \in Nat /\ dump.next <= LutMax + 1 /\ LutMax \in Nat
    <2> SUFFICES ASSUME TypeOK
                 PROVE  dump \in Dump /\ dump.next \in Nat /\ dump.next <= LutMax + 1 /\ LutMax \in Nat
        OBVIOUS
    <2>1. dump \in Dump /\ dump.next <= LutMax + 1
        BY Zenon DEF TypeOK
    <2>2. dump.next \in Nat
        BY <2>1 DEF Dump
    <2> QED
        BY <2>1, <2>2, L2Assumption, Zenon
<1>1. TypeOK => Remaining \in 0 .. LutMax + 1
    BY <1>0 DEF Remaining
<1>2. TypeOK /\ NextGet => ~Listing' \/ (Remaining' \in Nat /\ Remaining' < Remaining)
    <2> SUFFICES ASSUME TypeOK, NextGet
                 PROVE  ~Listing' \/ (Remaining' \in Nat /\ Remaining' < Remaining)
        OBVIOUS
    <2>1. LutMax \in Nat /\ dump \in Dump /\ dump.next \in Nat
        BY <1>0
    <2>2. CASE \/ dump' = [dump EXCEPT !.end = "beyond"]
               \/ dump' = [dump EXCEPT !.end = "busy"]
               \/ dump' = [dump EXCEPT !.end = "wrapped"]
        BY <2>1, <2>2 DEF Listing, Dump
    <2>3. ASSUME NEW a \in Addrs, ~Wrapped(a),
                 dump' = [dump EXCEPT !.next = a + 1, !.listed = @ \cup {a}]
          PROVE  Remaining' \in Nat /\ Remaining' < Remaining
        <3>1. a \in 0 .. LutMax /\ a >= dump.next
            BY <2>1, <2>3 DEF Wrapped, Addrs
        <3>2. dump'.next = a + 1
            BY <2>1, <2>3 DEF Dump
        <3> QED
            BY <2>1, <3>1, <3>2 DEF Remaining
    <2>4. CASE \E a \in Addrs : /\ ~Wrapped(a)
                                /\ dump' = [dump EXCEPT !.next = a + 1, !.listed = @ \cup {a}]
        BY <2>3, <2>4, Zenon
    <2> QED
        BY <2>2, <2>4, Zenon DEF NextGet
<1>3. TypeOK /\ [Next]_<<vars, stayed>> => [Listing /\ Listing' => Remaining' <= Remaining]_vars
    <2> SUFFICES ASSUME TypeOK, Next, Listing, Listing'
                 PROVE  Remaining' <= Remaining
        BY DEF vars
    <2>1. LutMax \in Nat /\ dump.next \in Nat
        BY <1>0
    <2>2. CASE NextGet
        BY <2>1, <2>2, <1>1, <1>2 DEF Remaining
    <2>3. CASE dump' = dump
        BY <2>1, <2>3 DEF Remaining
    <2>4. dump' = dump \/ NextGet
        BY DEF Next, ChipStep, Chip, Learn, Age, Move, EntryCall, Proceed, Begin, Lookup, Write,
               Check, Return, Go, FlushCall, UcastFlush, FlushTypeSet, Reply, ExcCall, ExcAdd,
               ExcDel, Excepted, ListCall, StartDump
    <2> QED
        BY <2>2, <2>3, <2>4
<1>4. TypeOK => [NextGet => ~Listing' \/ Remaining' < Remaining]_vars
    BY <1>2
<1>5. TableOK => TypeOK
    BY DEF TableOK
<1> QED
    BY <1>1, <1>3, <1>4, <1>5, TableSafe, PTL DEF Spec
=============================================================================
