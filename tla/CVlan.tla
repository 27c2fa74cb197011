------------------------------- MODULE CVlan -------------------------------
(***************************************************************************)
(* The 802.1Q part of the RTL8367B driver: the 4K VLAN table, the 32 VLAN  *)
(* member configurations (the "slots") that port PVIDs, protocol rules and *)
(* the 802.1X guest VLAN all point into by index, and the API calls of     *)
(* rtk_api.c that allocate, share and evict the slots.  One action is one  *)
(* call, run to completion by the single thread of the calling process.    *)
(*                                                                         *)
(* Data left out: the untag mask, FID, meter and policing fields of an     *)
(* entry, which every copy carries together with the member mask.          *)
(***************************************************************************)
EXTENDS Naturals, FiniteSets, Search

CONSTANTS
    Ports,        \* the switch's ports
    CVIDXMAX,     \* last slot: RTL8367B_CVIDXMAX
    GIDXMAX,      \* last protocol group: RTL8367B_PROTOVLAN_GIDX_MAX
    VIDMAX,       \* last VLAN identifier: RTL8367B_VIDMAX
    CallVids,     \* the VLAN identifiers callers pass
    Masks,        \* the member masks callers pass
    Prios,        \* 802.1p priorities
    VbpPrios,     \* the priorities callers give to a VLAN
    TagModes,     \* egress tag modes, ORI among them
    ORI,          \* EG_TAG_MODE_ORI
    Protos,       \* the (frame type, EtherType) pairs callers pass
    NoProto,      \* the pair (0, 0), which also marks an unused group
    NoVbp,        \* an entry without a VLAN based priority (vbpen = 0)
    RawCfgs,      \* the entries callers write to a slot by index
    AnyRaw        \* whether such a write may give the slot another VLAN

Slots  == 0 .. CVIDXMAX
Groups == 0 .. GIDXMAX
Vids   == 0 .. VIDMAX
EVids  == 0 .. 2 * VIDMAX + 1      \* evid is one bit wider than a VID

Entry4k  == [mbr : SUBSET Ports, vbp : Prios \cup {NoVbp}]
McEntry  == [evid : EVids, mbr : SUBSET Ports, vbp : Prios \cup {NoVbp}]
PvidReg  == [idx : Slots, pri : Prios]
RuleReg  == [valid : BOOLEAN, idx : Slots, pri : Prios]
Results  == {"ok", "vid", "full", "exist", "failed",
             "entry", "input", "empty"}      \* the last three by calls about filters

ASSUME CVlanAssumption ==
    /\ CVIDXMAX \in Nat /\ GIDXMAX \in Nat
    /\ VIDMAX \in Nat \ {0}
    /\ CallVids \subseteq Nat
    /\ Masks \subseteq SUBSET Ports
    /\ 0 \in Prios /\ NoVbp \notin Prios
    /\ VbpPrios \subseteq Prios
    /\ ORI \in TagModes
    /\ RawCfgs \subseteq McEntry
    /\ AnyRaw \in BOOLEAN

VARIABLES
    vlan4k,     \* the 4K VLAN table, by VID
    mc,         \* the VLAN member configurations, by slot
    pvid,       \* per port: the slot of its PVID, and its priority
    group,      \* per protocol group: the protocol it matches
    rule,       \* per port and group: whether it applies, its slot and priority
    gvidx,      \* the slot of the 802.1X guest VLAN
    gvPorts,    \* the ports that put unauthenticated hosts in the guest VLAN
    filter,     \* VLAN filtering enabled
    tagMode,    \* per port: egress tag mode
    ret         \* what the last call returned

tables == <<vlan4k, mc, pvid, group, rule, gvidx, gvPorts, filter, tagMode>>
vars   == <<vlan4k, mc, pvid, group, rule, gvidx, gvPorts, filter, tagMode, ret>>

NoEntry4k == [mbr |-> {}, vbp |-> NoVbp]
EmptyMc   == [evid |-> 0, mbr |-> {}, vbp |-> NoVbp]
NoRule    == [valid |-> FALSE, idx |-> 0, pri |-> 0]

(***************************************************************************)
(* Slots as the searches of the API see them.                              *)
(***************************************************************************)
SlotsWith(v) == {i \in Slots : mc[i].evid = v}
EmptySlots   == {i \in Slots : mc[i].evid = 0 /\ mc[i].mbr = {}}

\* (Mutated forms of a definition, named after it, stand before it: each is
\* the definition with one plausible mistake.)
InUse_NoPvid(p, i) ==
    \/ i = gvidx /\ gvPorts # {}
    \/ \E g \in Groups : rule[p][g].valid /\ rule[p][g].idx = i
InUse_NoRule(p, i) ==
    \/ \E q \in Ports : pvid[q].idx = i
    \/ i = gvidx /\ gvPorts # {}
\* What a full search for a replacement takes for "in use" when it runs for
\* port p: any port's PVID, the guest VLAN while some port uses it, and the
\* protocol rules -- read for p on every turn of the loop over the ports.
InUse(p, i) ==
    \/ \E q \in Ports : pvid[q].idx = i
    \/ i = gvidx /\ gvPorts # {}
    \/ \E g \in Groups : rule[p][g].valid /\ rule[p][g].idx = i
Replaceable(p) == {i \in Slots : ~InUse(p, i)}

\* A slot filled from the 4K entry of v.
CopyOf(v)  == [evid |-> v, mbr |-> vlan4k[v].mbr, vbp |-> vlan4k[v].vbp]
LoadMc(i, v) == mc' = [mc EXCEPT ![i] = CopyOf(v)]

\* Groups as the searches of the protocol VLAN calls see them.
GroupsWith(t) == {g \in Groups : group[g] = t}

Return(r) == ret' = r
Refuse(r) == Return(r) /\ UNCHANGED tables

(***************************************************************************)
(* rtk_vlan_init: slots emptied, VLAN 1 with every port in the 4K table    *)
(* and in slot 0, every PVID on slot 0, tag modes reset, filter enabled.   *)
(* The protocol rules and the guest VLAN index keep their values.          *)
(***************************************************************************)
InitMc == [i \in Slots |->
             IF i = 0 THEN [evid |-> 1, mbr |-> Ports, vbp |-> NoVbp] ELSE EmptyMc]
InitVlan1 == [mbr |-> Ports, vbp |-> NoVbp]
InitPvid  == [p \in Ports |-> [idx |-> 0, pri |-> 0]]
InitTags  == [p \in Ports |-> ORI]

VlanInit_KeepsPvid ==
    /\ mc' = InitMc
    /\ vlan4k' = [vlan4k EXCEPT ![1] = InitVlan1]
    /\ tagMode' = InitTags
    /\ filter' = TRUE
    /\ Return("ok")
    /\ UNCHANGED <<pvid, group, rule, gvidx, gvPorts>>

VlanInit ==
    /\ mc' = InitMc
    /\ vlan4k' = [vlan4k EXCEPT ![1] = InitVlan1]
    /\ pvid' = InitPvid
    /\ tagMode' = InitTags
    /\ filter' = TRUE
    /\ Return("ok")
    /\ UNCHANGED <<group, rule, gvidx, gvPorts>>

(***************************************************************************)
(* rtk_vlan_set and rtk_vlan_vlanBasedPriority_set write the 4K table and  *)
(* leave the slots alone; the first zeroes the priority fields.            *)
(***************************************************************************)
VlanSet(v, m) ==
    \/ v > VIDMAX /\ Refuse("vid")
    \/ /\ v <= VIDMAX
       /\ vlan4k' = [vlan4k EXCEPT ![v] = [mbr |-> m, vbp |-> NoVbp]]
       /\ Return("ok")
       /\ UNCHANGED <<mc, pvid, group, rule, gvidx, gvPorts, filter, tagMode>>

VlanBasedPrioritySet(v, pr) ==
    \/ v > VIDMAX /\ Refuse("vid")
    \/ /\ v <= VIDMAX
       /\ vlan4k' = [vlan4k EXCEPT ![v].vbp = pr]
       /\ Return("ok")
       /\ UNCHANGED <<mc, pvid, group, rule, gvidx, gvPorts, filter, tagMode>>

\* rtk_vlan_mbrCfg_set: a slot written by index, whoever refers to it.
MbrCfgSet(i, c) ==
    /\ mc' = [mc EXCEPT ![i] = c]
    /\ Return("ok")
    /\ UNCHANGED <<vlan4k, pvid, group, rule, gvidx, gvPorts, filter, tagMode>>

TagModeSet(p, m) ==
    /\ tagMode' = [tagMode EXCEPT ![p] = m]
    /\ Return("ok")
    /\ UNCHANGED <<vlan4k, mc, pvid, group, rule, gvidx, gvPorts, filter>>

(***************************************************************************)
(* rtk_vlan_portPvid_set: share the highest slot that already holds v;     *)
(* else fill the lowest empty slot; else replace the lowest slot the       *)
(* search finds unused; else fail.                                         *)
(***************************************************************************)
PointPvid(p, i, pr) == pvid' = [pvid EXCEPT ![p] = [idx |-> i, pri |-> pr]]

PvidShare(p, v, pr) ==
    \E i \in Slots :
        /\ Highest(i, SlotsWith(v))
        /\ PointPvid(p, i, pr)
        /\ UNCHANGED mc

PvidFill(p, v, pr) ==
    \E i \in Slots :
        /\ SlotsWith(v) = {}
        /\ Lowest(i, EmptySlots)
        /\ LoadMc(i, v)
        /\ PointPvid(p, i, pr)

PvidReplace(p, v, pr) ==
    \E i \in Slots :
        /\ SlotsWith(v) = {} /\ EmptySlots = {}
        /\ Lowest(i, Replaceable(p))
        /\ LoadMc(i, v)
        /\ PointPvid(p, i, pr)

PortPvidSet(p, v, pr) ==
    \/ v > VIDMAX /\ Refuse("vid")
    \/ /\ v <= VIDMAX
       /\ PvidShare(p, v, pr) \/ PvidFill(p, v, pr) \/ PvidReplace(p, v, pr)
       /\ Return("ok")
       /\ UNCHANGED <<vlan4k, group, rule, gvidx, gvPorts, filter, tagMode>>
    \/ /\ v <= VIDMAX
       /\ SlotsWith(v) = {} /\ EmptySlots = {} /\ Replaceable(p) = {}
       /\ Refuse("failed")

\* rtk_vlan_portPvid_get
PvidOf(p) == [vid |-> mc[pvid[p].idx].evid, pri |-> pvid[p].pri]

(***************************************************************************)
(* rtk_vlan_protoAndPortBasedVlan_add: find or take the protocol's group,  *)
(* then find a slot with VLAN v or fill an empty one, then make the rule   *)
(* unless the port already has one in that group.  There is no search for  *)
(* a slot to replace, and a call that fails keeps what it wrote so far.    *)
(***************************************************************************)
TakeGroup_NoSearch(g, t) ==
    /\ Lowest(g, GroupsWith(NoProto))
    /\ group' = [group EXCEPT ![g] = t]

TakeGroup(g, t) ==
    \/ /\ Highest(g, GroupsWith(t))
       /\ UNCHANGED group
    \/ /\ GroupsWith(t) = {}
       /\ Lowest(g, GroupsWith(NoProto))
       /\ group' = [group EXCEPT ![g] = t]

MakeRule_Overwrite(p, g, i, pr) ==
    /\ rule' = [rule EXCEPT ![p][g] = [valid |-> TRUE, idx |-> i, pri |-> pr]]
    /\ Return("ok")

MakeRule(p, g, i, pr) ==
    \/ /\ ~rule[p][g].valid
       /\ rule' = [rule EXCEPT ![p][g] = [valid |-> TRUE, idx |-> i, pri |-> pr]]
       /\ Return("ok")
    \/ /\ rule[p][g].valid
       /\ UNCHANGED rule
       /\ Return("exist")

ProtoVlanAdd(p, t, v, pr) ==
    \/ v >= VIDMAX /\ Refuse("vid")
    \/ /\ v < VIDMAX
       /\ GroupsWith(t) = {} /\ GroupsWith(NoProto) = {}
       /\ Refuse("full")
    \/ \E g \in Groups :
       /\ v < VIDMAX
       /\ TakeGroup(g, t)
       /\ \/ \E i \in Slots :
             /\ Lowest(i, SlotsWith(v))
             /\ MakeRule(p, g, i, pr)
             /\ UNCHANGED mc
          \/ \E i \in Slots :
             /\ SlotsWith(v) = {}
             /\ Lowest(i, EmptySlots)
             /\ LoadMc(i, v)
             /\ MakeRule(p, g, i, pr)
          \/ /\ SlotsWith(v) = {} /\ EmptySlots = {}
             /\ Return("failed")
             /\ UNCHANGED <<mc, rule>>
       /\ UNCHANGED <<vlan4k, pvid, gvidx, gvPorts, filter, tagMode>>

(***************************************************************************)
(* rtk_vlan_protoAndPortBasedVlan_del: the port's rule is cleared in every *)
(* group of the protocol; the last of them -- group 0 when there is none   *)
(* -- is released if no port has a rule in it any more.                    *)
(***************************************************************************)
ReleaseUnused_Always(gs) ==
    group' = [g \in Groups |-> IF g \in gs THEN NoProto ELSE group[g]]

ReleaseUnused(gs) ==
    group' = [g \in Groups |->
                IF g \in gs /\ ~\E q \in Ports : rule'[q][g].valid
                THEN NoProto ELSE group[g]]

ProtoVlanDel(p, t) ==
    /\ rule' = [rule EXCEPT ![p] =
                  [g \in Groups |-> IF group[g] = t THEN NoRule ELSE @[g]]]
    /\ \/ GroupsWith(t) = {} /\ ReleaseUnused({0})
       \/ \E g \in Groups : Highest(g, GroupsWith(t)) /\ ReleaseUnused({g})
    /\ Return("ok")
    /\ UNCHANGED <<vlan4k, mc, pvid, gvidx, gvPorts, filter, tagMode>>

\* rtk_vlan_protoAndPortBasedVlan_delAll
ProtoVlanDelAll(p) ==
    /\ rule' = [rule EXCEPT ![p] = [g \in Groups |-> NoRule]]
    /\ ReleaseUnused(Groups)
    /\ Return("ok")
    /\ UNCHANGED <<vlan4k, mc, pvid, gvidx, gvPorts, filter, tagMode>>

\* rtk_vlan_protoAndPortBasedVlan_get: the rule of port p for protocol t, as
\* a set with its VLAN and priority, empty where the call reports an error.
RuleOf(p, t) ==
    LET matching == GroupsWith(t)
    IN {[vid |-> mc[rule[p][g].idx].evid, pri |-> rule[p][g].pri] :
           g \in {h \in matching : rule[p][h].valid /\ Lowest(h, matching)}}

(***************************************************************************)
(* rtk_dot1x_guestVlan_set: as for a PVID, without replacement.  The slot  *)
(* it fills gets the members of the 4K entry of v, but keeps the priority  *)
(* fields the search read last, which are those of slot 0.                 *)
(***************************************************************************)
GuestVlanSet(v) ==
    \/ v > VIDMAX /\ Refuse("vid")
    \/ \E i \in Slots :
       /\ v <= VIDMAX
       /\ \/ Highest(i, SlotsWith(v)) /\ UNCHANGED mc
          \/ /\ SlotsWith(v) = {}
             /\ Lowest(i, EmptySlots)
             /\ mc' = [mc EXCEPT ![i] = [CopyOf(v) EXCEPT !.vbp = mc[0].vbp]]
       /\ gvidx' = i
       /\ Return("ok")
       /\ UNCHANGED <<vlan4k, pvid, group, rule, gvPorts, filter, tagMode>>
    \/ /\ v <= VIDMAX
       /\ SlotsWith(v) = {} /\ EmptySlots = {}
       /\ Refuse("failed")

\* rtk_dot1x_guestVlan_get
GuestVlan == mc[gvidx].evid

\* rtk_dot1x_unauthPacketOper_set: DOT1X_ACTION_GUESTVLAN or another action.
UnauthPacketOperSet(p, guest) ==
    /\ gvPorts' = IF guest THEN gvPorts \cup {p} ELSE gvPorts \ {p}
    /\ Return("ok")
    /\ UNCHANGED <<vlan4k, mc, pvid, group, rule, gvidx, filter, tagMode>>

(***************************************************************************)
(* The API asks its callers to run rtk_vlan_init first; the initial state  *)
(* is the one that first call leaves on a chip out of reset.               *)
(***************************************************************************)
Init ==
    /\ vlan4k = [v \in Vids |-> IF v = 1 THEN InitVlan1 ELSE NoEntry4k]
    /\ mc = InitMc
    /\ pvid = InitPvid
    /\ group = [g \in Groups |-> NoProto]
    /\ rule = [p \in Ports |-> [g \in Groups |-> NoRule]]
    /\ gvidx = 0
    /\ gvPorts = {}
    /\ filter = TRUE
    /\ tagMode = InitTags
    /\ ret = "ok"

TableCall ==
    \/ \E v \in CallVids, m \in Masks : VlanSet(v, m)
    \/ \E v \in CallVids, pr \in VbpPrios : VlanBasedPrioritySet(v, pr)
    \/ \E i \in Slots, c \in RawCfgs : (AnyRaw \/ c.evid = mc[i].evid) /\ MbrCfgSet(i, c)
    \/ \E p \in Ports, m \in TagModes : TagModeSet(p, m)

PvidCall == \E p \in Ports, v \in CallVids, pr \in Prios : PortPvidSet(p, v, pr)

ProtoCall ==
    \/ \E p \in Ports, t \in Protos, v \in CallVids, pr \in Prios :
          ProtoVlanAdd(p, t, v, pr)
    \/ \E p \in Ports, t \in Protos : ProtoVlanDel(p, t)
    \/ \E p \in Ports : ProtoVlanDelAll(p)

GuestCall ==
    \/ \E v \in CallVids : GuestVlanSet(v)
    \/ \E p \in Ports, guest \in BOOLEAN : UnauthPacketOperSet(p, guest)

\* Every call but a second initialisation.
Call == TableCall \/ PvidCall \/ ProtoCall \/ GuestCall
Next == Call \/ VlanInit

\* A second initialisation while no protocol rule is valid and the guest VLAN
\* is where a fresh chip has it.
NothingRefers == gvidx = 0 /\ \A p \in Ports, g \in Groups : ~rule[p][g].valid
CleanInit == NothingRefers /\ VlanInit

Spec     == Init /\ [][Next]_vars
SpecOnce == Init /\ [][Call]_vars

-----------------------------------------------------------------------------
(***************************************************************************)
(* Properties.  Those marked (A) need callers that use the API as its      *)
(* documentation describes: VLAN 0 is no VLAN (0 \notin CallVids) and a     *)
(* slot written by index keeps its VLAN (~AnyRaw).  Those marked (B) need  *)
(* callers that pass no rule for the pair (0, 0) (NoProto \notin Protos).  *)
(***************************************************************************)

\* The registers hold what their fields can hold.
TypeOK ==
    /\ vlan4k \in [Vids -> Entry4k]
    /\ mc \in [Slots -> McEntry]
    /\ pvid \in [Ports -> PvidReg]
    /\ group \in [Groups -> Protos \cup {NoProto}]
    /\ rule \in [Ports -> [Groups -> RuleReg]]
    /\ gvidx \in Slots
    /\ gvPorts \subseteq Ports
    /\ filter \in BOOLEAN
    /\ tagMode \in [Ports -> TagModes]
    /\ ret \in Results

\* (A) The registers hold what their fields can hold; the slot a port's PVID
\* points to always holds a VLAN, so no later search can take it for an empty
\* one (rtk_vlan_portPvid_set, the test evid == 0 && mbr == 0); and two slots
\* never hold the same VLAN, although the three searches scan in different
\* directions and stop at different places.
PvidSlotLive == \A p \in Ports : mc[pvid[p].idx].evid # 0
OneSlotPerVid ==
    \A i, j \in Slots : mc[i].evid # 0 /\ mc[i].evid = mc[j].evid => i = j
SlotInv == TypeOK /\ PvidSlotLive /\ OneSlotPerVid

\* (B) A port's rule sits in a group that has a protocol, and no protocol has
\* two groups: rtk_vlan_protoAndPortBasedVlan_del never releases a group that
\* another port uses, and _add never opens a second one.
GroupsConsistent ==
    /\ \A p \in Ports, g \in Groups : rule[p][g].valid => group[g] # NoProto
    /\ \A g, h \in Groups : group[g] # NoProto /\ group[g] = group[h] => g = h

\* (A) The VLAN and priority of a port's untagged frames change only by
\* rtk_vlan_portPvid_set on that port or by rtk_vlan_init, whatever the other
\* calls fill, share or replace in the slots; and what such a call accepted
\* is what rtk_vlan_portPvid_get returns from then on.
PvidHonoured(p) ==
    \A v \in CallVids, pr \in Prios :
        PortPvidSet(p, v, pr) /\ ret' = "ok" => PvidOf(p)' = [vid |-> v, pri |-> pr]
PvidKept(p) ==
    PvidOf(p)' # PvidOf(p) =>
        VlanInit \/ \E v \in CallVids, pr \in Prios : PortPvidSet(p, v, pr)
PvidStable == [][\A p \in Ports : PvidKept(p) /\ PvidHonoured(p)]_vars

\* (A, B) While rtk_vlan_init is only called again when nothing refers to a
\* slot, the VLAN of a port's protocol rule changes only by a call about that
\* rule -- or because rtk_vlan_portPvid_set for another port replaced the
\* rule's slot -- and the guest VLAN of ports that use it only by
\* rtk_dot1x_guestVlan_set.
RuleKept(p, t) ==
    RuleOf(p, t)' # RuleOf(p, t) =>
        \/ ProtoVlanDel(p, t) \/ ProtoVlanDelAll(p)
        \/ \E v \in CallVids, pr \in Prios : ProtoVlanAdd(p, t, v, pr)
        \/ \E q \in Ports \ {p}, v \in CallVids, pr \in Prios :
              v <= VIDMAX /\ PvidReplace(q, v, pr)
GuestKept ==
    GuestVlan' # GuestVlan =>
        gvPorts = {} \/ VlanInit \/ \E v \in CallVids : GuestVlanSet(v)
RefsStable == [][GuestKept /\ \A p \in Ports, t \in Protos : RuleKept(p, t)]_vars

\* (B) While ports keep a rule in a group, the group keeps its protocol; and a
\* group is left with a protocol and no rule only by an add that failed for
\* want of a slot after it had taken the group: every delete releases what no
\* port uses any more.
HasRule(g) == \E p \in Ports : rule[p][g].valid
GroupKept(g) ==
    (\E p \in Ports : rule[p][g].valid /\ rule'[p][g].valid) => group'[g] = group[g]
GroupReleased(g) ==
    group'[g] # NoProto /\ ~HasRule(g)' =>
        (group[g] # NoProto /\ ~HasRule(g)) \/ ret' = "failed"
GroupsOwned == [][\A g \in Groups : GroupKept(g) /\ GroupReleased(g)]_vars

\* (A, B) With the same restriction on rtk_vlan_init, the calls keep the promise of
\* VlanClassify: seen through the three getters, every call does what that
\* specification allows and nothing more.
Promise == INSTANCE VlanClassify WITH
    pv <- [p \in Ports |-> PvidOf(p)],
    rl <- [p \in Ports |-> [t \in Protos |-> RuleOf(p, t)]],
    guest <- GuestVlan,
    guestPorts <- gvPorts
KeepsPromise == Promise!Spec

-----------------------------------------------------------------------------
(***************************************************************************)
(* A statement of the source that the code does not keep.                  *)
(***************************************************************************)

\* "found a unused entry to replace": the slot rtk_vlan_portPvid_set replaces
\* is used by no protocol rule of any port.
ReplacesUnusedOnly ==
    [][\A p \in Ports, v \in CallVids, pr \in Prios :
          PvidReplace(p, v, pr) =>
              \A q \in Ports, g \in Groups :
                  rule[q][g].valid => mc'[rule[q][g].idx] = mc[rule[q][g].idx]]_vars

=============================================================================
