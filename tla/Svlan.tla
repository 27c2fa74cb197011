------------------------------- MODULE Svlan -------------------------------
(***************************************************************************)
(* The 802.1ad part of the RTL8367B driver: the SVLAN member configurations*)
(* (the "slots"), and the tables that point into them by index -- the      *)
(* default SVLAN of a port, the SVLAN of untagged and of unmatched frames, *)
(* customer to service (C2S), multicast to service (MC2S) and service and  *)
(* port to customer (SP2C).  One action is one rtk_svlan_* call, run to    *)
(* completion by the single thread of the calling process.                 *)
(*                                                                         *)
(* Data left out: the untag mask, FID, EFID and priority of a slot, which  *)
(* every write carries together with the member mask.                      *)
(***************************************************************************)
EXTENDS Naturals, FiniteSets, Search

CONSTANTS
    Ports,       \* the switch's ports
    SVIDXMAX,    \* last slot: RTL8367B_SVIDXMAX
    C2SIDXMAX,   \* last C2S entry: RTL8367B_C2SIDXMAX
    MC2SIDXMAX,  \* last MC2S entry: RTL8367B_MC2SIDXMAX
    SP2CMAX,     \* last SP2C entry: RTL8367B_SP2CMAX
    VIDMAX,      \* last VLAN identifier: RTL8367B_VIDMAX
    CallSvids,   \* the SVLAN identifiers callers pass
    CallCvids,   \* the customer VLAN identifiers callers pass
    Masks,       \* the member masks callers pass
    Addrs,       \* the IP and MAC addresses callers pass to the MC2S calls
    Multicast,   \* those that are multicast addresses
    NoAddr,      \* the address of a cleared MC2S entry
    RawCfgs,     \* the slots callers write by index
    AnyRaw       \* whether such a write may give the slot another SVLAN

Slots   == 0 .. SVIDXMAX
C2sIdx  == 0 .. C2SIDXMAX
Mc2sIdx == 0 .. MC2SIDXMAX
Sp2cIdx == 0 .. SP2CMAX
Vids    == 0 .. VIDMAX

SlotReg == [svid : Vids, mbr : SUBSET Ports]
C2sReg  == [evid : Vids, pmsk : SUBSET Ports, svidx : Slots]
Mc2sReg == [valid : BOOLEAN, addr : Multicast \cup {NoAddr}, svidx : Slots]
Sp2cReg == [valid : BOOLEAN, svidx : Slots, dst : Ports \cup {0}, vid : Vids]
Actions == {"drop", "trap", "assign"}
Frames  == {"untag", "unmatch"}
FallReg == [action : Actions, svidx : Slots]
Results == {"ok", "svid", "vid", "full", "notfound", "input", "range"}

ASSUME SvlanAssumption ==
    /\ SVIDXMAX \in Nat /\ C2SIDXMAX \in Nat /\ MC2SIDXMAX \in Nat /\ SP2CMAX \in Nat
    /\ VIDMAX \in Nat \ {0}
    /\ CallSvids \subseteq Nat /\ CallCvids \subseteq Nat
    /\ Masks \subseteq SUBSET Ports
    /\ Multicast \subseteq Addrs /\ NoAddr \notin Addrs
    /\ RawCfgs \subseteq SlotReg
    /\ AnyRaw \in BOOLEAN

VARIABLES
    mc,         \* the SVLAN member configurations, by slot
    dflt,       \* per port: the slot of its default SVLAN
    fall,       \* for untagged and unmatched frames: action and slot
    c2s,        \* the C2S table
    mc2s,       \* the MC2S table
    sp2c,       \* the SP2C table
    ret         \* what the last call returned

tables == <<mc, dflt, fall, c2s, mc2s, sp2c>>
vars   == <<mc, dflt, fall, c2s, mc2s, sp2c, ret>>

EmptySlot == [svid |-> 0, mbr |-> {}]
EmptyC2s  == [evid |-> 0, pmsk |-> {}, svidx |-> 0]
EmptyMc2s == [valid |-> FALSE, addr |-> NoAddr, svidx |-> 0]
EmptySp2c == [valid |-> FALSE, svidx |-> 0, dst |-> 0, vid |-> 0]

Return(r) == ret' = r
Refuse(r) == Return(r) /\ UNCHANGED tables

SlotsWith(s) == {i \in Slots : mc[i].svid = s}
EmptySlots   == {i \in Slots : mc[i] = EmptySlot}

\* The slot every call but memberPortEntry_set takes for SVLAN s.
SlotOf(i, s) == Lowest(i, SlotsWith(s))

(***************************************************************************)
(* rtk_svlan_init: the slots and the three tables cleared, both actions    *)
(* reset; the default SVLANs and the slots of the actions keep their index.*)
(***************************************************************************)
SvlanInit ==
    /\ mc' = [i \in Slots |-> EmptySlot]
    /\ c2s' = [i \in C2sIdx |-> EmptyC2s]
    /\ mc2s' = [i \in Mc2sIdx |-> EmptyMc2s]
    /\ sp2c' = [i \in Sp2cIdx |-> EmptySp2c]
    /\ fall' = [f \in Frames |-> [fall[f] EXCEPT !.action = "drop"]]
    /\ Return("ok")
    /\ UNCHANGED dflt

(***************************************************************************)
(* rtk_svlan_memberPortEntry_set: overwrite the lowest slot of SVLAN s,    *)
(* freeing it when no port is left; else fill the lowest empty slot.       *)
(***************************************************************************)
FillSlot_NoSearch(s, m) ==
    \E i \in Slots :
        /\ Lowest(i, EmptySlots)
        /\ mc' = [mc EXCEPT ![i] = [svid |-> s, mbr |-> m]]

FillSlot(s, m) ==
    \E i \in Slots :
        /\ SlotsWith(s) = {}
        /\ Lowest(i, EmptySlots)
        /\ mc' = [mc EXCEPT ![i] = [svid |-> s, mbr |-> m]]

RewriteSlot(s, m) ==
    \E i \in Slots :
        /\ Lowest(i, SlotsWith(s))
        /\ mc' = [mc EXCEPT ![i] = [svid |-> IF m = {} THEN 0 ELSE s, mbr |-> m]]

MemberPortEntrySet(s, m) ==
    \/ s > VIDMAX /\ Refuse("svid")
    \/ /\ s <= VIDMAX
       /\ RewriteSlot(s, m) \/ FillSlot(s, m)
       /\ Return("ok")
       /\ UNCHANGED <<dflt, fall, c2s, mc2s, sp2c>>
    \/ /\ s <= VIDMAX
       /\ SlotsWith(s) = {} /\ EmptySlots = {}
       /\ Refuse("full")

\* rtk_svlan_memberPortEntry_adv_set: a slot written by index.
MemberPortEntryAdvSet(i, c) ==
    /\ mc' = [mc EXCEPT ![i] = c]
    /\ Return("ok")
    /\ UNCHANGED <<dflt, fall, c2s, mc2s, sp2c>>

\* rtk_svlan_defaultSvlan_set
PointDefault(p, i) == dflt' = [dflt EXCEPT ![p] = i]

DefaultSvlanSet(p, s) ==
    \/ s > VIDMAX /\ Refuse("svid")
    \/ \E i \in Slots :
       /\ s <= VIDMAX
       /\ SlotOf(i, s)
       /\ PointDefault(p, i)
       /\ Return("ok")
       /\ UNCHANGED <<mc, fall, c2s, mc2s, sp2c>>
    \/ s <= VIDMAX /\ SlotsWith(s) = {} /\ Refuse("notfound")

(***************************************************************************)
(* rtk_svlan_untag_action_set, rtk_svlan_unmatch_action_set: the action is *)
(* written first; an "assign" to an SVLAN without a slot fails after that  *)
(* and leaves the previous slot in force.                                  *)
(***************************************************************************)
ActionSet(f, a, s) ==
    \/ a = "assign" /\ s > VIDMAX /\ Refuse("svid")
    \/ /\ a # "assign"
       /\ fall' = [fall EXCEPT ![f].action = a]
       /\ Return("ok")
       /\ UNCHANGED <<mc, dflt, c2s, mc2s, sp2c>>
    \/ \E i \in Slots :
       /\ a = "assign" /\ s <= VIDMAX
       /\ SlotOf(i, s)
       /\ fall' = [fall EXCEPT ![f] = [action |-> a, svidx |-> i]]
       /\ Return("ok")
       /\ UNCHANGED <<mc, dflt, c2s, mc2s, sp2c>>
    \/ /\ a = "assign" /\ s <= VIDMAX
       /\ SlotsWith(s) = {}
       /\ fall' = [fall EXCEPT ![f].action = a]
       /\ Return("notfound")
       /\ UNCHANGED <<mc, dflt, c2s, mc2s, sp2c>>

(***************************************************************************)
(* rtk_svlan_c2s_add scans the table downwards.  An entry of v that holds  *)
(* the port with another slot loses the port and takes the new slot; an    *)
(* entry of v with the new slot that lacks the port gets it, and ends the  *)
(* scan.  When none did, the lowest empty entry passed is filled.          *)
(***************************************************************************)
Joins(v, p, i) ==
    {n \in C2sIdx : c2s[n].evid = v /\ p \notin c2s[n].pmsk /\ c2s[n].svidx = i}
Moves(v, p, i) ==
    {n \in C2sIdx : c2s[n].evid = v /\ p \in c2s[n].pmsk /\ c2s[n].svidx # i}
FreeC2s(v) == {n \in C2sIdx : c2s[n] = EmptyC2s /\ c2s[n].evid # v}

\* The table after the scan for slot i has passed the entries of "passed".
C2sMoved_AnyVid(v, p, i, passed) ==
    [n \in C2sIdx |->
        IF n \in passed /\ p \in c2s[n].pmsk /\ c2s[n].svidx # i
        THEN [evid |-> v, pmsk |-> c2s[n].pmsk \ {p}, svidx |-> i] ELSE c2s[n]]
C2sMoved(v, p, i, passed) ==
    [n \in C2sIdx |->
        IF n \in passed \cap Moves(v, p, i)
        THEN [evid |-> v, pmsk |-> c2s[n].pmsk \ {p}, svidx |-> i] ELSE c2s[n]]

C2sEnter(v, p, i) ==
    \/ \E n \in C2sIdx :
       /\ Highest(n, Joins(v, p, i))
       /\ c2s' = [C2sMoved(v, p, i, n + 1 .. C2SIDXMAX) EXCEPT ![n].pmsk = @ \cup {p}]
       /\ Return("ok")
    \/ \E n \in C2sIdx :
       /\ Joins(v, p, i) = {}
       /\ Lowest(n, FreeC2s(v))
       /\ c2s' = [C2sMoved(v, p, i, C2sIdx) EXCEPT
                    ![n] = [evid |-> v, pmsk |-> {p}, svidx |-> i]]
       /\ Return("ok")
    \/ /\ Joins(v, p, i) = {} /\ FreeC2s(v) = {}
       /\ c2s' = C2sMoved(v, p, i, C2sIdx)
       /\ Return("range")

C2sAdd(v, p, s) ==
    \/ v > VIDMAX /\ Refuse("vid")
    \/ v <= VIDMAX /\ s > VIDMAX /\ Refuse("svid")
    \/ v <= VIDMAX /\ s <= VIDMAX /\ SlotsWith(s) = {} /\ Refuse("svid")
    \/ \E i \in Slots :
       /\ v <= VIDMAX /\ s <= VIDMAX
       /\ SlotOf(i, s)
       /\ C2sEnter(v, p, i)
       /\ UNCHANGED <<mc, dflt, fall, mc2s, sp2c>>

\* The entries rtk_svlan_c2s_get and rtk_svlan_c2s_del look for.
C2sWith(v, p) == {n \in C2sIdx : c2s[n].evid = v /\ p \in c2s[n].pmsk}

C2sDel(v, p) ==
    \/ v > VIDMAX /\ Refuse("vid")
    \/ \E n \in C2sIdx :
       /\ v <= VIDMAX
       /\ Lowest(n, C2sWith(v, p))
       /\ c2s' = [c2s EXCEPT ![n] =
                    IF c2s[n].pmsk = {p} THEN EmptyC2s
                    ELSE [c2s[n] EXCEPT !.pmsk = @ \ {p}]]
       /\ Return("ok")
       /\ UNCHANGED <<mc, dflt, fall, mc2s, sp2c>>
    \/ v <= VIDMAX /\ C2sWith(v, p) = {} /\ Refuse("range")

(***************************************************************************)
(* rtk_svlan_ipmc2s_add, rtk_svlan_l2mc2s_add: every entry of the address  *)
(* takes the new slot, and the lowest invalid entry becomes one more entry *)
(* of it; a call without such an entry fails after the update.             *)
(***************************************************************************)
Mc2sWith(a) == {n \in Mc2sIdx : mc2s[n].valid /\ mc2s[n].addr = a}
FreeMc2s    == {n \in Mc2sIdx : ~mc2s[n].valid}

Mc2sPointed_Lowest(a, i) ==
    [n \in Mc2sIdx |->
        IF Lowest(n, Mc2sWith(a)) THEN [mc2s[n] EXCEPT !.svidx = i] ELSE mc2s[n]]
Mc2sPointed(a, i) ==
    [n \in Mc2sIdx |->
        IF n \in Mc2sWith(a) THEN [mc2s[n] EXCEPT !.svidx = i] ELSE mc2s[n]]

Mc2sEnter(a, i) ==
    \/ \E n \in Mc2sIdx :
       /\ Lowest(n, FreeMc2s)
       /\ mc2s' = [Mc2sPointed(a, i) EXCEPT
                     ![n] = [valid |-> TRUE, addr |-> a, svidx |-> i]]
       /\ Return("ok")
    \/ /\ FreeMc2s = {}
       /\ mc2s' = Mc2sPointed(a, i)
       /\ Return("range")

Mc2sAdd(a, s) ==
    \/ s > VIDMAX /\ Refuse("svid")
    \/ s <= VIDMAX /\ a \notin Multicast /\ Refuse("input")
    \/ s <= VIDMAX /\ a \in Multicast /\ SlotsWith(s) = {} /\ Refuse("notfound")
    \/ \E i \in Slots :
       /\ s <= VIDMAX /\ a \in Multicast
       /\ SlotOf(i, s)
       /\ Mc2sEnter(a, i)
       /\ UNCHANGED <<mc, dflt, fall, c2s, sp2c>>

\* rtk_svlan_ipmc2s_del, rtk_svlan_l2mc2s_del: the lowest entry of the address.
Mc2sDel(a) ==
    \/ a \notin Multicast /\ Refuse("input")
    \/ \E n \in Mc2sIdx :
       /\ a \in Multicast
       /\ Lowest(n, Mc2sWith(a))
       /\ mc2s' = [mc2s EXCEPT ![n] = EmptyMc2s]
       /\ Return("ok")
       /\ UNCHANGED <<mc, dflt, fall, c2s, sp2c>>
    \/ a \in Multicast /\ Mc2sWith(a) = {} /\ Refuse("range")

(***************************************************************************)
(* rtk_svlan_sp2c_add: the highest entry of the slot and port, else the    *)
(* lowest invalid entry; rtk_svlan_sp2c_del: the lowest entry.             *)
(***************************************************************************)
Sp2cWith(i, p) ==
    {n \in Sp2cIdx : sp2c[n].valid /\ sp2c[n].svidx = i /\ sp2c[n].dst = p}
FreeSp2c == {n \in Sp2cIdx : ~sp2c[n].valid}

Sp2cTarget_FreeFirst(n, i, p) ==
    \/ Lowest(n, FreeSp2c)
    \/ FreeSp2c = {} /\ Highest(n, Sp2cWith(i, p))
Sp2cTarget(n, i, p) ==
    \/ Highest(n, Sp2cWith(i, p))
    \/ Sp2cWith(i, p) = {} /\ Lowest(n, FreeSp2c)

Sp2cAdd(s, p, v) ==
    \/ s > VIDMAX /\ Refuse("svid")
    \/ s <= VIDMAX /\ v > VIDMAX /\ Refuse("vid")
    \/ s <= VIDMAX /\ v <= VIDMAX /\ SlotsWith(s) = {} /\ Refuse("notfound")
    \/ \E i \in Slots :
       /\ s <= VIDMAX /\ v <= VIDMAX
       /\ SlotOf(i, s)
       /\ \/ \E n \in Sp2cIdx :
             /\ Sp2cTarget(n, i, p)
             /\ sp2c' = [sp2c EXCEPT ![n] =
                           [valid |-> TRUE, svidx |-> i, dst |-> p, vid |-> v]]
             /\ Return("ok")
          \/ /\ Sp2cWith(i, p) = {} /\ FreeSp2c = {}
             /\ Return("range")
             /\ UNCHANGED sp2c
       /\ UNCHANGED <<mc, dflt, fall, c2s, mc2s>>

Sp2cDel(s, p) ==
    \/ s > VIDMAX /\ Refuse("svid")
    \/ s <= VIDMAX /\ SlotsWith(s) = {} /\ Refuse("notfound")
    \/ \E i \in Slots :
       /\ s <= VIDMAX
       /\ SlotOf(i, s)
       /\ \/ \E n \in Sp2cIdx :
             /\ Lowest(n, Sp2cWith(i, p))
             /\ sp2c' = [sp2c EXCEPT ![n] = EmptySp2c]
             /\ Return("ok")
          \/ /\ Sp2cWith(i, p) = {}
             /\ Return("range")
             /\ UNCHANGED sp2c
       /\ UNCHANGED <<mc, dflt, fall, c2s, mc2s>>

(***************************************************************************)
(* The getters.                                                            *)
(***************************************************************************)
\* rtk_svlan_defaultSvlan_get
DefaultSvlan(p) == mc[dflt[p]].svid
\* rtk_svlan_c2s_get, rtk_svlan_ipmc2s_get (l2mc2s_get), rtk_svlan_sp2c_get:
\* a set that is empty where the call reports an error.
C2sOf(v, p) == {mc[c2s[n].svidx].svid : n \in {k \in C2sIdx : Lowest(k, C2sWith(v, p))}}
Mc2sOf(a)   == {mc[mc2s[n].svidx].svid : n \in {k \in Mc2sIdx : Lowest(k, Mc2sWith(a))}}
Sp2cOf(s, p) ==
    {sp2c[n].vid : n \in {k \in Sp2cIdx :
        \E i \in Slots : SlotOf(i, s) /\ Lowest(k, Sp2cWith(i, p))}}

-----------------------------------------------------------------------------
(***************************************************************************)
(* The API asks its callers to run rtk_svlan_init first; the initial state *)
(* is the one that first call leaves on a chip out of reset.               *)
(***************************************************************************)
Init ==
    /\ mc = [i \in Slots |-> EmptySlot]
    /\ dflt = [p \in Ports |-> 0]
    /\ fall = [f \in Frames |-> [action |-> "drop", svidx |-> 0]]
    /\ c2s = [i \in C2sIdx |-> EmptyC2s]
    /\ mc2s = [i \in Mc2sIdx |-> EmptyMc2s]
    /\ sp2c = [i \in Sp2cIdx |-> EmptySp2c]
    /\ ret = "ok"

SlotCall ==
    \/ \E s \in CallSvids, m \in Masks : MemberPortEntrySet(s, m)
    \/ \E i \in Slots, c \in RawCfgs :
          (AnyRaw \/ c.svid \in {0, mc[i].svid}) /\ MemberPortEntryAdvSet(i, c)
    \/ SvlanInit

FrameCall ==
    \/ \E p \in Ports, s \in CallSvids : DefaultSvlanSet(p, s)
    \/ \E f \in Frames, a \in Actions, s \in CallSvids : ActionSet(f, a, s)

C2sCall ==
    \/ \E v \in CallCvids, p \in Ports, s \in CallSvids : C2sAdd(v, p, s)
    \/ \E v \in CallCvids, p \in Ports : C2sDel(v, p)

Mc2sCall ==
    \/ \E a \in Addrs, s \in CallSvids : Mc2sAdd(a, s)
    \/ \E a \in Addrs : Mc2sDel(a)

Sp2cCall ==
    \/ \E s \in CallSvids, p \in Ports, v \in CallCvids : Sp2cAdd(s, p, v)
    \/ \E s \in CallSvids, p \in Ports : Sp2cDel(s, p)

Next == SlotCall \/ FrameCall \/ C2sCall \/ Mc2sCall \/ Sp2cCall
Spec == Init /\ [][Next]_vars

-----------------------------------------------------------------------------
(***************************************************************************)
(* Properties.  Those marked (A) need callers that never give a slot to    *)
(* another SVLAN when they write it by index (~AnyRaw).                    *)
(***************************************************************************)

\* The registers hold what their fields can hold.
TypeOK ==
    /\ mc \in [Slots -> SlotReg]
    /\ dflt \in [Ports -> Slots]
    /\ fall \in [Frames -> FallReg]
    /\ c2s \in [C2sIdx -> C2sReg]
    /\ mc2s \in [Mc2sIdx -> Mc2sReg]
    /\ sp2c \in [Sp2cIdx -> Sp2cReg]
    /\ ret \in Results

\* (A) The registers are in range, and two slots never hold the same SVLAN, so
\* every search by SVID agrees on its slot (rtk_svlan_memberPortEntry_set).
OneSlotPerSvid ==
    \A i, j \in Slots : mc[i].svid # 0 /\ mc[i].svid = mc[j].svid => i = j
SlotInv == TypeOK /\ OneSlotPerSvid

\* A slot and port never have two translations, although the add scans from
\* one end and the delete and the getter from the other (rtk_svlan_sp2c_add);
\* and although every add leaves one more entry of an address behind, they all
\* have the same slot, so deleting some of them uncovers no older one
\* (rtk_svlan_ipmc2s_add, rtk_svlan_l2mc2s_add).
Sp2cUnique ==
    \A n, k \in Sp2cIdx :
        /\ sp2c[n].valid /\ sp2c[k].valid
        /\ sp2c[n].svidx = sp2c[k].svidx /\ sp2c[n].dst = sp2c[k].dst
        => n = k
Mc2sCopiesAgree ==
    \A n, k \in Mc2sIdx :
        mc2s[n].valid /\ mc2s[k].valid /\ mc2s[n].addr = mc2s[k].addr
            => mc2s[n].svidx = mc2s[k].svidx
EntriesAgree == Sp2cUnique /\ Mc2sCopiesAgree

\* (A) No reference goes from one SVLAN straight to another, except by a call
\* on that reference: slots are freed before they take another SVLAN, and the
\* calls on one port, address or customer VLAN leave the others alone.
Switches(S, T) == S \ {0} # {} /\ T \ {0} # {} /\ S # T
RefsStable ==
    [][/\ \A p \in Ports :
             Switches({DefaultSvlan(p)}, {DefaultSvlan(p)'}) =>
                 \E s \in CallSvids : DefaultSvlanSet(p, s)
       /\ \A a \in Addrs :
             Switches(Mc2sOf(a), Mc2sOf(a)') => \E s \in CallSvids : Mc2sAdd(a, s)
       /\ \A v \in CallCvids, p \in Ports :
             Switches(C2sOf(v, p), C2sOf(v, p)') =>
                 \/ C2sDel(v, p)
                 \/ \E q \in Ports, s \in CallSvids : C2sAdd(v, q, s)]_vars

\* A translation that rtk_svlan_sp2c_add accepted is the one
\* rtk_svlan_sp2c_get returns, and one that rtk_svlan_sp2c_del removed is gone.
Sp2cHonoured ==
    [][\A s \in CallSvids, p \in Ports :
          ret' = "ok" =>
             /\ \A v \in CallCvids : Sp2cAdd(s, p, v) => Sp2cOf(s, p)' = {v}
             /\ Sp2cDel(s, p) => Sp2cOf(s, p)' = {}]_vars

-----------------------------------------------------------------------------
(***************************************************************************)
(* A statement of the source that the code does not keep.                  *)
(***************************************************************************)

\* "New svidx, remove src_port and find a new slot to add a new enrty": an
\* accepted rtk_svlan_c2s_add for one port leaves the SVLAN of the same
\* customer VLAN on the other ports as it was.
C2sOthersKept ==
    [][\A v \in CallCvids, p \in Ports, s \in CallSvids :
          C2sAdd(v, p, s) => \A q \in Ports \ {p} : C2sOf(v, q)' = C2sOf(v, q)]_vars
=============================================================================
