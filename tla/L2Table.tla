------------------------------ MODULE L2Table ------------------------------
(***************************************************************************)
(* The layer-2 lookup table of the switch (rtk_l2_* of rtk_api.c, the      *)
(* table access of rtl8367b_asicdrv_lut.c, rtk_dot1x_macBasedAuthMac_add   *)
(* and _del).                                                              *)
(* A call reads the entry of its address, changes it, writes it back, and  *)
(* sometimes reads it again; between these accesses the chip goes on       *)
(* learning, moving and ageing addresses.  A caller may also list the      *)
(* entries, one call per entry, while all that happens.                    *)
(*                                                                         *)
(* The chip is outside the repository: an address may live in the places   *)
(* of its hash, a write replaces the entry of the address, else takes an   *)
(* empty place or one the chip learned by itself, else misses; a lookup    *)
(* that misses says so.                                                    *)
(***************************************************************************)
EXTENDS Naturals, FiniteSets, Search

CONSTANTS
    Ports,       \* 0 .. RTK_PORT_ID_MAX
    PORTIDMAX,   \* RTL8367B_PORTIDMAX: the last of them
    VIDMAX,      \* RTL8367B_VIDMAX
    CallVids,    \* the VLANs callers flush
    UcKeys,      \* unicast MAC addresses, each with its VLAN or FID
    McKeys,      \* multicast MAC addresses, likewise
    IpKeys,      \* IP multicast groups with their source
    KeyVid,      \* per unicast key: its VLAN
    Ways,        \* per key: the addresses of the places its hash gives it
    LutMax,      \* RTK_MAX_LUT_ADDR_ID: the last address
    Masks,       \* port masks of multicast entries
    Groups,      \* groups callers except from lookup; Unused is one, too
    Unused,      \* 224.0.0.0, the mark of a free place
    ExcMax,      \* RTL8367B_LUT_IPMCGRP_TABLE_MAX
    MayTimeOut   \* whether the table may stay busy longer than the driver waits

Keys  == UcKeys \cup McKeys \cup IpKeys
Addrs == 0 .. LutMax
ExcIdx == 0 .. ExcMax

ASSUME L2Assumption ==
    /\ Ports \subseteq Nat /\ PORTIDMAX \in Ports /\ \A p \in Ports : p <= PORTIDMAX
    /\ VIDMAX \in Nat /\ CallVids \subseteq 0 .. VIDMAX
    /\ UcKeys \cap McKeys = {} /\ UcKeys \cap IpKeys = {} /\ McKeys \cap IpKeys = {}
    /\ "none" \notin Keys
    /\ KeyVid \in [UcKeys -> 0 .. VIDMAX]
    /\ LutMax \in Nat /\ ExcMax \in Nat
    /\ Ways \in [Keys -> SUBSET Addrs]
    /\ Masks \subseteq SUBSET Ports
    /\ MayTimeOut \in BOOLEAN

Free == [key |-> "none"]
Dsts == {{p} : p \in Ports} \cup Masks
\* nosalearn is "static", age # 0 is "fresh"; a unicast entry has one port.
Entry == [key : Keys, dst : Dsts, static : BOOLEAN, auth : BOOLEAN, fresh : BOOLEAN]
None  == [op |-> "none"]
Dump  == [kind : {"none", "uc", "ucspa", "mc", "ip"}, port : Ports,
          next : Nat, listed : SUBSET Addrs, end : {"", "wrapped", "beyond", "busy"}]

VARIABLES
    lut,       \* the table: address -> Entry or Free
    call,      \* the call in progress, or None
    pc,        \* its next access: "idle", "lookup", "write" or "check"
    found,     \* the entry its lookup returned, or Free
    flushType, \* what the last forced flush was told to remove
    exc,       \* the groups excepted from IP multicast lookup
    dump,      \* a caller's list of entries in the making
    stayed,    \* history: the listable places that kept their entry since its start
    ret        \* result of the last call

vars == <<lut, call, pc, found, flushType, exc, dump, ret>>

PlacesOf(k) == {a \in Addrs : lut[a].key = k}

(***************************************************************************)
(* The chip.                                                               *)
(***************************************************************************)
Learned(a)  == lut[a] # Free /\ ~lut[a].static
\* Where a write for key k goes: a set of places to choose from.
Targets(k) ==
    LET empty == {a \in Ways[k] : lut[a] = Free}
        auto  == {a \in Ways[k] : Learned(a)}
    IN IF PlacesOf(k) # {} THEN PlacesOf(k) ELSE IF empty # {} THEN empty ELSE auto

\* An entry with nothing set is an empty place.
Valid(e) == e.static \/ e.fresh \/ e.auth
Stored(e) == IF Valid(e) THEN e ELSE Free

Chip == UNCHANGED <<call, pc, found, flushType, exc, dump, ret>>

Learn(k, p) ==
    /\ PlacesOf(k) = {}
    /\ \E a \in Targets(k) :
          lut' = [lut EXCEPT ![a] = [key |-> k, dst |-> {p}, static |-> FALSE,
                                     auth |-> FALSE, fresh |-> TRUE]]
    /\ Chip

Move(a, p) ==
    /\ Learned(a) /\ lut[a].key \in UcKeys /\ lut[a].dst # {p}
    /\ \E b \in {FALSE, lut[a].auth} :
          lut' = [lut EXCEPT ![a].dst = {p}, ![a].auth = b]
    /\ Chip

Age(a) ==
    /\ Learned(a)
    /\ lut' = [lut EXCEPT ![a] = Free]
    /\ Chip

(***************************************************************************)
(* Calls on one address.  What they have in common: the lookup, the entry  *)
(* made of what was found and what the caller wants, the write, and after  *)
(* an addition that found nothing a second lookup.                         *)
(***************************************************************************)
UcCalls ==
    [op : {"addr_add"}, key : UcKeys, dst : {{p} : p \in Ports}, static : BOOLEAN, auth : BOOLEAN]
        \cup [op : {"addr_del", "addr_get"}, key : UcKeys]
        \cup [op : {"authMac_add", "authMac_del"}, key : UcKeys, dst : {{p} : p \in Ports}]
McCalls ==
    [op : {"mcast_add"}, key : McKeys, dst : Masks] \cup [op : {"mcast_del", "mcast_get"}, key : McKeys]
IpCalls ==
    [op : {"ip_add"}, key : IpKeys, dst : Masks] \cup [op : {"ip_del", "ip_get"}, key : IpKeys]
Calls == UcCalls \cup McCalls \cup IpCalls

Begin(c) ==
    /\ pc = "idle"
    /\ call' = c /\ pc' = "lookup" /\ found' = Free
    /\ UNCHANGED <<lut, flushType, exc, dump, ret>>

Return(r) == ret' = r /\ call' = None /\ pc' = "idle" /\ found' = Free
Go(place) == pc' = place /\ UNCHANGED <<call, ret>>

Adds == {"addr_add", "mcast_add", "ip_add"}
Gets == {"addr_get", "mcast_get", "ip_get"}
IsAuth == call.op \in {"authMac_add", "authMac_del"}

Lookup ==
    /\ pc = "lookup"
    /\ \/ \E a \in PlacesOf(call.key) :
          \/ call.op \in Gets /\ Return("ok")
          \/ IsAuth /\ lut[a].dst # call.dst /\ Return("mismatch")
          \/ /\ call.op \notin Gets /\ (IsAuth => lut[a].dst = call.dst)
             /\ found' = lut[a]
             /\ Go("write")
       \/ /\ PlacesOf(call.key) = {}
          /\ \/ call.op \in Adds /\ found' = Free /\ Go("write")
             \/ call.op \notin Adds /\ Return("notfound")
       \/ MayTimeOut /\ Return("busy")
    /\ UNCHANGED <<lut, flushType, exc, dump>>

\* rtk_dot1x_macBasedAuthMac_add and _del change one bit of what they read.
AuthEntry_Anew(b) ==
    [key |-> call.key, dst |-> call.dst, static |-> FALSE, auth |-> b, fresh |-> TRUE]
AuthEntry(b) == [found EXCEPT !.auth = b]

\* A unicast entry gets every field anew; a multicast entry its members.
AddrEntry_Found ==
    [key |-> call.key, dst |-> call.dst,
     static |-> IF found = Free THEN call.static ELSE found.static,
     auth |-> call.auth, fresh |-> TRUE]
AddrEntry ==
    [key |-> call.key, dst |-> call.dst, static |-> call.static, auth |-> call.auth, fresh |-> TRUE]
GroupEntry ==
    [key |-> call.key, dst |-> call.dst, static |-> TRUE, auth |-> FALSE, fresh |-> FALSE]
AddEntry == IF call.op = "addr_add" THEN AddrEntry ELSE GroupEntry

\* A deletion takes the marks away that make the entry valid.
Deleted == [found EXCEPT !.static = FALSE, !.auth = FALSE, !.fresh = FALSE]

NewEntry ==
    CASE call.op \in Adds        -> AddEntry
      [] call.op = "authMac_add" -> AuthEntry(TRUE)
      [] call.op = "authMac_del" -> AuthEntry(FALSE)
      [] OTHER                   -> Deleted

\* rtl8367b_setAsicL2LookupTb: no hit after the write is a failure; the wait
\* before or after the command may be too short.
Write ==
    /\ pc = "write"
    /\ \/ \E a \in Targets(call.key) :
          /\ lut' = [lut EXCEPT ![a] = IF ~Valid(NewEntry) /\ PlacesOf(call.key) = {}
                                       THEN @ ELSE Stored(NewEntry)]
          /\ \/ call.op \in Adds /\ found = Free /\ found' = Free /\ Go("check")
             \/ ~(call.op \in Adds /\ found = Free) /\ Return("ok")
             \/ MayTimeOut /\ Return("busy")
       \/ Targets(call.key) = {} /\ UNCHANGED lut /\ Return("failed")
       \/ MayTimeOut /\ UNCHANGED lut /\ Return("busy")
    /\ UNCHANGED <<flushType, exc, dump>>

Check ==
    /\ pc = "check"
    /\ \/ PlacesOf(call.key) # {} /\ Return("ok")
       \/ PlacesOf(call.key) = {} /\ Return("full")
       \/ MayTimeOut /\ Return("busy")
    /\ UNCHANGED <<lut, flushType, exc, dump>>

(***************************************************************************)
(* Flushes: the chip removes unicast entries of the ports asked for, and   *)
(* of the VLAN in VLAN mode; static ones only if the type says so.         *)
(***************************************************************************)
Forced(ports, vids) ==
    lut' = [a \in Addrs |->
              IF /\ lut[a].key \in UcKeys /\ KeyVid[lut[a].key] \in vids
                 /\ lut[a].dst \subseteq ports
                 /\ (lut[a].static => flushType' = "both")
              THEN Free ELSE lut[a]]
Reply(r) == ret' = r /\ UNCHANGED <<call, pc, found, exc, dump>>

\* rtk_l2_flushType_set leaves the type as the last flush set it.
FlushTypeSet(vids, p) ==
    /\ pc = "idle"
    /\ UNCHANGED flushType
    /\ Forced({p}, vids)
    /\ Reply("ok")

FlushCfg == [flushByVid : BOOLEAN, vid : CallVids, flushByPort : BOOLEAN, port : Ports,
             flushStaticAddr : BOOLEAN, flushAddrOnAllPorts : BOOLEAN, flushByMac : BOOLEAN]

UcastFlush(c) ==
    /\ pc = "idle"
    /\ \/ c.vid >= VIDMAX /\ Reply("vid") /\ UNCHANGED <<lut, flushType>>
       \/ c.vid < VIDMAX /\ c.port >= PORTIDMAX /\ Reply("port") /\ UNCHANGED <<lut, flushType>>
       \/ /\ c.vid < VIDMAX /\ c.port < PORTIDMAX
          /\ \/ /\ c.flushByVid \/ c.flushByPort
                /\ flushType' = IF c.flushStaticAddr THEN "both" ELSE "dynamic"
             \/ ~c.flushByVid /\ ~c.flushByPort /\ UNCHANGED flushType
          /\ \/ /\ c.flushByVid /\ (c.flushAddrOnAllPorts \/ c.flushByPort)
                /\ Forced(IF c.flushAddrOnAllPorts THEN Ports ELSE {c.port}, {c.vid})
                /\ Reply("ok")
             \/ /\ ~c.flushByVid /\ c.flushByPort
                /\ Forced({c.port}, 0 .. VIDMAX)
                /\ Reply("ok")
             \/ c.flushByVid /\ ~c.flushAddrOnAllPorts /\ ~c.flushByPort
                  /\ Reply("input") /\ UNCHANGED lut
             \/ ~c.flushByVid /\ ~c.flushByPort
                  /\ Reply(IF c.flushByMac THEN "unsupported" ELSE "input") /\ UNCHANGED lut

(***************************************************************************)
(* rtk_l2_ipMcastAddrLookupException_add and _del: a group already there,  *)
(* else the lowest free place; the first place that holds it.  The mark of *)
(* a free place is itself a group address.                                 *)
(***************************************************************************)
ExcPlaces(g) == {i \in ExcIdx : exc[i] = g}

ExcTarget_FirstFree(i, g) == Lowest(i, ExcPlaces(Unused))
ExcTarget(i, g) == ExcPlaces(g) = {} /\ Lowest(i, ExcPlaces(Unused))

SetExc(i, g) == exc' = [exc EXCEPT ![i] = g]
Excepted(r) == ret' = r /\ UNCHANGED <<lut, call, pc, found, flushType, dump>>

ExcAdd(g) ==
    /\ pc = "idle"
    /\ \/ \E i \in ExcIdx : ExcTarget(i, g) /\ SetExc(i, g) /\ Excepted("ok")
       \/ ~(\E i \in ExcIdx : ExcTarget(i, g)) /\ UNCHANGED exc
            /\ Excepted(IF ExcPlaces(g) # {} THEN "ok" ELSE "full")

ExcDel(g) ==
    /\ pc = "idle"
    /\ \/ \E i \in ExcIdx : Lowest(i, ExcPlaces(g)) /\ SetExc(i, Unused) /\ Excepted("ok")
       \/ ExcPlaces(g) = {} /\ UNCHANGED exc /\ Excepted("failed")

(***************************************************************************)
(* Listing: rtk_l2_addr_next_get, rtk_l2_mcastAddr_next_get and            *)
(* rtk_l2_ipMcastAddr_next_get return the entry at or after an address;    *)
(* callers go on at the address after it until a call fails.  The chip     *)
(* searches round the table, so a smaller address means the end; but the   *)
(* search is a lookup like any other, and when the table stays busy the    *)
(* call fails short of the end and says so.                                *)
(***************************************************************************)
OfKind(d, e) ==
    CASE d.kind = "uc"    -> e.key \in UcKeys
      [] d.kind = "ucspa" -> e.key \in UcKeys /\ e.dst = {d.port}
      [] d.kind = "mc"    -> e.key \in McKeys
      [] d.kind = "ip"    -> e.key \in IpKeys
      [] OTHER            -> FALSE
Listable(d) == {a \in Addrs : OfKind(d, lut[a])}

\* The chip's answer to a search from address n.
NextFrom(a, n, S) ==
    \/ Lowest(a, {b \in S : b >= n})
    \/ {b \in S : b >= n} = {} /\ Lowest(a, S)

NoDump == [kind |-> "none", port |-> CHOOSE p \in Ports : TRUE, next |-> 0,
           listed |-> {}, end |-> ""]
Listing == dump.kind # "none" /\ dump.end = ""

Wrapped_Strict(a) == a <= dump.next
Wrapped_Never(a)  == FALSE
Wrapped(a) == a < dump.next

StartDump(kind, p) ==
    /\ pc = "idle" /\ ~Listing
    /\ dump' = [NoDump EXCEPT !.kind = kind, !.port = p]
    /\ UNCHANGED <<lut, call, pc, found, flushType, exc, ret>>

NextGet ==
    /\ pc = "idle" /\ Listing
    /\ \/ dump.next > LutMax /\ dump' = [dump EXCEPT !.end = "beyond"]
       \/ dump.next <= LutMax /\ MayTimeOut /\ dump' = [dump EXCEPT !.end = "busy"]
       \/ /\ dump.next <= LutMax /\ Listable(dump) = {}
          /\ dump' = [dump EXCEPT !.end = "wrapped"]
       \/ \E a \in Addrs :
          /\ dump.next <= LutMax
          /\ NextFrom(a, dump.next, Listable(dump))
          /\ \/ Wrapped(a) /\ dump' = [dump EXCEPT !.end = "wrapped"]
             \/ ~Wrapped(a) /\ dump' = [dump EXCEPT !.next = a + 1, !.listed = @ \cup {a}]
    /\ UNCHANGED <<lut, call, pc, found, flushType, exc, ret>>

-----------------------------------------------------------------------------
Init ==
    /\ lut = [a \in Addrs |-> Free]
    /\ call = None /\ pc = "idle" /\ found = Free
    /\ flushType = "dynamic"
    /\ exc = [i \in ExcIdx |-> Unused]
    /\ dump = NoDump
    /\ stayed = {}
    /\ ret = "ok"

ChipStep ==
    \/ \E k \in UcKeys, p \in Ports : Learn(k, p)
    \/ \E a \in Addrs : Age(a) \/ \E p \in Ports : Move(a, p)
Proceed == Lookup \/ Write \/ Check
EntryCall == Proceed \/ \E c \in Calls : Begin(c)
FlushCall ==
    \/ \E c \in FlushCfg : UcastFlush(c)
    \/ \E p \in Ports, vids \in {0 .. VIDMAX} \cup {{v} : v \in CallVids} : FlushTypeSet(vids, p)
ExcCall == \E g \in Groups \cup {Unused} : ExcAdd(g) \/ ExcDel(g)
ListCall == NextGet \/ \E kind \in {"uc", "ucspa", "mc", "ip"}, p \in Ports : StartDump(kind, p)

Stays ==
    stayed' = IF ~Listing' THEN {}
              ELSE IF ~Listing THEN Listable(dump)'
              ELSE {a \in stayed : lut'[a] # Free /\ lut'[a].key = lut[a].key
                                     /\ lut'[a].dst = lut[a].dst}

Next ==
    /\ ChipStep \/ EntryCall \/ FlushCall \/ ExcCall \/ ListCall
    /\ Stays
Spec == Init /\ [][Next]_<<vars, stayed>>

-----------------------------------------------------------------------------
TypeOK ==
    /\ lut \in [Addrs -> Entry \cup {Free}]
    /\ call \in Calls \cup {None} /\ (call = None <=> pc = "idle")
    /\ pc \in {"idle", "lookup", "write", "check"}
    /\ found \in Entry \cup {Free}
    /\ flushType \in {"dynamic", "both"}
    /\ exc \in [ExcIdx -> Groups \cup {Unused}]
    /\ dump \in Dump /\ dump.next <= LutMax + 1
    /\ stayed \subseteq Addrs

\* An address is in the table once, in a place of its hash, and a group is in
\* the exception table once: the add scans it downwards and fills the lowest
\* free place, the delete scans it upwards.
OnePlace ==
    \A a \in Addrs : lut[a] # Free =>
        a \in Ways[lut[a].key] /\ PlacesOf(lut[a].key) = {a}
ExceptedOnce == \A i, j \in ExcIdx : exc[i] # Unused /\ exc[i] = exc[j] => i = j
TableOK == TypeOK /\ OnePlace /\ ExceptedOnce

\* The static entries are a map (L2Static) that calls change one entry at a
\* time and as they were asked to, whatever the chip learns, moves and ages
\* between the accesses of a call, and also when the table stays busy.
Asks ==
    CASE call.op \in Gets \cup {"none"}     -> None
      [] call.op = "addr_add" /\ call.static ->
           [ask |-> "put", key |-> call.key, dst |-> call.dst, auth |-> call.auth]
      [] call.op \in {"mcast_add", "ip_add"} ->
           [ask |-> "put", key |-> call.key, dst |-> call.dst, auth |-> FALSE]
      [] IsAuth ->
           [ask |-> "authorise", key |-> call.key, dst |-> call.dst,
            auth |-> call.op = "authMac_add"]
      [] OTHER -> [ask |-> "drop", key |-> call.key]
Static == INSTANCE L2Static WITH
    Flushable <- UcKeys,
    Requests <- [ask : {"put"}, key : Keys, dst : Dsts, auth : BOOLEAN]
                  \cup [ask : {"authorise"}, key : UcKeys, dst : Dsts, auth : BOOLEAN]
                  \cup [ask : {"drop"}, key : Keys],
    m <- [k \in Keys |-> {[dst |-> lut[a].dst, auth |-> lut[a].auth] :
                             a \in {b \in PlacesOf(k) : lut[b].static}}],
    doing <- Asks
KeepsStatic == Static!Spec

\* What a call that ends reports is so: a static or multicast entry that was
\* accepted is there as asked for, a deleted one is gone, an authorised one is
\* authorised on the caller's port; a refused one had no place left but those
\* of other static entries; and only an entry the chip may have aged since is
\* reported lost for want of room.
Ends(r) == pc # "idle" /\ pc' = "idle" /\ ret' = r
ForGood == call.op = "addr_add" => call.static
AsAsked(e) == e.key = call.key /\ e.dst = call.dst /\ (call.op = "addr_add" => e.auth = call.auth)
ResultsTrue ==
    [][/\ Ends("ok") /\ call.op \in Adds /\ ForGood =>
             \E a \in Addrs : AsAsked(lut'[a]) /\ lut'[a].static
       /\ Ends("ok") /\ call.op \in {"addr_del", "mcast_del", "ip_del"} =>
             \A a \in Addrs : lut'[a].key # call.key
       /\ Ends("ok") /\ call.op = "authMac_add" =>
             \E a \in Addrs : lut'[a].key = call.key /\ lut'[a].dst = call.dst /\ lut'[a].auth
       /\ Ends("failed") =>
             \A a \in Ways[call.key] : lut[a] # Free /\ lut[a].static /\ lut[a].key # call.key
       /\ Ends("full") => ~ForGood]_vars

\* What a list that is over has searched: all addresses, or those before the
\* one at which the table stayed busy.
Searched == IF dump.end = "busy" THEN {a \in Addrs : a < dump.next} ELSE Addrs

\* A list that has come to its end names every entry that was in its place all
\* the time, whatever other entries came, went and moved meanwhile; and one cut
\* short by a busy table lacks none of them below the address it got to, so
\* that going on from there makes it complete.
ListComplete == [][Listing /\ ~Listing' => stayed \cap Searched' \subseteq dump.listed]_vars

\* A list comes to its end, also while the chip and other calls go on changing
\* the table.  A call that began goes on; the caller who lists gets his turn
\* again and again between the calls of others, none of which takes for ever.
FairSpec == Spec /\ SF_vars(NextGet) /\ WF_vars(Lookup) /\ WF_vars(Write) /\ WF_vars(Check)
ListEnds == Listing ~> ~Listing

\* VLANs 0 to 4095 may be flushed.
FlushesEveryVid ==
    [][\A c \in FlushCfg :
          UcastFlush(c) /\ c.flushByVid /\ c.flushAddrOnAllPorts => ret' # "vid"]_vars
=============================================================================
