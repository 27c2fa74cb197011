---------------------------- MODULE CVlanProofs ----------------------------
(***************************************************************************)
(* Proofs about CVlan for any number of ports, slots, groups and VLANs,    *)
(* and, at the end, about Acl, whose filters fill slots of CVlan.          *)
(*                                                                         *)
(* The argument for PVIDs: a slot that a port's PVID points to holds a     *)
(* VLAN (PvidSlotLive), so it is never taken for an empty one; the search  *)
(* for a replacement passes it over (InUse); and the slot shared for a     *)
(* VLAN is not rewritten.  So no call changes what a PVID slot holds, and  *)
(* the VLAN of a port changes only when its own index does.                *)
(***************************************************************************)
EXTENDS Acl, TLAPS

\* The callers the documentation has in mind: VLAN 0 is no VLAN, and a slot
\* written by index keeps its VLAN.
Disciplined == 0 \notin CallVids /\ ~AnyRaw

-----------------------------------------------------------------------------
\* The registers start in range.
LEMMA InitTypeOK == Init => TypeOK
<1> SUFFICES ASSUME Init PROVE TypeOK
    OBVIOUS
<1> USE CVlanAssumption
<1>1. 0 \in Slots /\ 1 \in Vids /\ 0 \in EVids /\ 1 \in EVids
    BY DEF Slots, Vids, EVids
<1>2. vlan4k \in [Vids -> Entry4k]
    BY DEF Init, InitVlan1, NoEntry4k, Entry4k
<1>3. mc \in [Slots -> McEntry]
    BY <1>1 DEF Init, InitMc, EmptyMc, McEntry
<1>4. pvid \in [Ports -> PvidReg] /\ tagMode \in [Ports -> TagModes]
    BY <1>1 DEF Init, InitPvid, InitTags, PvidReg
<1>5. rule \in [Ports -> [Groups -> RuleReg]]
    BY <1>1 DEF Init, NoRule, RuleReg
<1> QED
    BY <1>1, <1>2, <1>3, <1>4, <1>5 DEF Init, TypeOK, Results

\* A slot filled from the 4K table holds an entry in range.
LEMMA CopyOfType ==
    ASSUME TypeOK, NEW v \in CallVids, v <= VIDMAX
    PROVE  CopyOf(v) \in McEntry /\ CopyOf(v).evid = v /\ v \in Vids
<1>1. v \in Vids /\ v \in EVids
    BY CVlanAssumption DEF Vids, EVids
<1>2. vlan4k[v] \in Entry4k
    BY <1>1 DEF TypeOK
<1> QED
    BY <1>1, <1>2 DEF CopyOf, McEntry, Entry4k

\* A call keeps the registers in range.
LEMMA NextTypeOK == TypeOK /\ [Next]_vars => TypeOK'
<1> SUFFICES ASSUME TypeOK, [Next]_vars PROVE TypeOK'
    OBVIOUS
<1> USE CVlanAssumption
<1>0. 0 \in Slots /\ 1 \in Vids /\ 0 \in EVids /\ 1 \in EVids /\ NoRule \in RuleReg
    BY DEF Slots, Vids, EVids, NoRule, RuleReg
<1>1. ASSUME NEW v \in CallVids, NEW m \in Masks, VlanSet(v, m) PROVE TypeOK'
    <2>1. [mbr |-> m, vbp |-> NoVbp] \in Entry4k
        BY DEF Entry4k
    <2> QED
        BY <1>1, <2>1 DEF VlanSet, Refuse, Return, tables, TypeOK, Results
<1>2. ASSUME NEW v \in CallVids, NEW pr \in VbpPrios, VlanBasedPrioritySet(v, pr)
      PROVE  TypeOK'
    <2>1. ASSUME v <= VIDMAX PROVE [vlan4k[v] EXCEPT !.vbp = pr] \in Entry4k
        <3>1. v \in Vids
            BY <2>1 DEF Vids
        <3>2. vlan4k[v] \in Entry4k
            BY <3>1 DEF TypeOK
        <3> QED
            BY <3>2 DEF Entry4k
    <2> QED
        BY <1>2, <2>1 DEF VlanBasedPrioritySet, Refuse, Return, tables, TypeOK, Results
<1>3. ASSUME NEW i \in Slots, NEW c \in RawCfgs, MbrCfgSet(i, c) PROVE TypeOK'
    BY <1>3 DEF MbrCfgSet, Return, TypeOK, Results
<1>4. ASSUME NEW p \in Ports, NEW m \in TagModes, TagModeSet(p, m) PROVE TypeOK'
    BY <1>4 DEF TagModeSet, Return, TypeOK, Results
<1>5. ASSUME NEW p \in Ports, NEW v \in CallVids, NEW pr \in Prios,
             PortPvidSet(p, v, pr)
      PROVE  TypeOK'
    <2>1. CASE v > VIDMAX /\ Refuse("vid")
        BY <2>1 DEF Refuse, Return, tables, TypeOK, Results
    <2>2. CASE Refuse("failed")
        BY <2>2 DEF Refuse, Return, tables, TypeOK, Results
    <2>3. CASE /\ v <= VIDMAX
               /\ PvidShare(p, v, pr) \/ PvidFill(p, v, pr) \/ PvidReplace(p, v, pr)
               /\ Return("ok")
               /\ UNCHANGED <<vlan4k, group, rule, gvidx, gvPorts, filter, tagMode>>
        <3>1. CopyOf(v) \in McEntry
            BY <2>3, CopyOfType
        <3>2. PICK i \in Slots : PointPvid(p, i, pr) /\ (UNCHANGED mc \/ LoadMc(i, v))
            BY <2>3 DEF PvidShare, PvidFill, PvidReplace
        <3>3. pvid' \in [Ports -> PvidReg]
            BY <3>2 DEF PointPvid, TypeOK, PvidReg
        <3>4. mc' \in [Slots -> McEntry]
            BY <3>1, <3>2 DEF LoadMc, TypeOK
        <3> QED
            BY <2>3, <3>3, <3>4 DEF Return, TypeOK, Results
    <2> QED
        BY <1>5, <2>1, <2>2, <2>3 DEF PortPvidSet
<1>6. ASSUME NEW p \in Ports, NEW t \in Protos, NEW v \in CallVids, NEW pr \in Prios,
             ProtoVlanAdd(p, t, v, pr)
      PROVE  TypeOK'
    <2>1. CASE Refuse("vid") \/ Refuse("full")
        BY <2>1 DEF Refuse, Return, tables, TypeOK, Results
    <2>2. ASSUME NEW g \in Groups, v < VIDMAX, TakeGroup(g, t),
                 UNCHANGED <<vlan4k, pvid, gvidx, gvPorts, filter, tagMode>>,
                 \/ \E i \in Slots : MakeRule(p, g, i, pr) /\ (UNCHANGED mc \/ LoadMc(i, v))
                 \/ Return("failed") /\ UNCHANGED <<mc, rule>>
          PROVE  TypeOK'
        <3>1. group' \in [Groups -> Protos \cup {NoProto}]
            BY <2>2 DEF TakeGroup, TypeOK
        <3>2. CASE Return("failed") /\ UNCHANGED <<mc, rule>>
            BY <2>2, <3>1, <3>2 DEF Return, TypeOK, Results
        <3>3. ASSUME NEW i \in Slots, MakeRule(p, g, i, pr), UNCHANGED mc \/ LoadMc(i, v)
              PROVE  TypeOK'
            <4>1. CopyOf(v) \in McEntry
                BY <2>2, CopyOfType
            <4>2. mc' \in [Slots -> McEntry]
                BY <3>3, <4>1 DEF LoadMc, TypeOK
            <4>3. [valid |-> TRUE, idx |-> i, pri |-> pr] \in RuleReg
                BY DEF RuleReg
            <4>4. rule' \in [Ports -> [Groups -> RuleReg]]
                <5>1. CASE UNCHANGED rule
                    BY <5>1 DEF TypeOK
                <5>2. CASE rule' = [rule EXCEPT ![p] =
                        [rule[p] EXCEPT ![g] = [valid |-> TRUE, idx |-> i, pri |-> pr]]]
                    <6>1. rule[p] \in [Groups -> RuleReg]
                        BY DEF TypeOK
                    <6>2. [rule[p] EXCEPT ![g] = [valid |-> TRUE, idx |-> i, pri |-> pr]]
                              \in [Groups -> RuleReg]
                        BY <4>3, <6>1
                    <6> QED
                        BY <5>2, <6>2 DEF TypeOK
                <5> QED
                    BY <3>3, <5>1, <5>2 DEF MakeRule
            <4>5. ret' \in Results
                BY <3>3 DEF MakeRule, Return, Results
            <4> QED
                BY <2>2, <3>1, <4>2, <4>4, <4>5 DEF TypeOK
        <3> QED
            BY <2>2, <3>2, <3>3
    <2> QED
        BY <1>6, <2>1, <2>2 DEF ProtoVlanAdd
<1>7. ASSUME NEW p \in Ports, NEW t \in Protos, ProtoVlanDel(p, t) PROVE TypeOK'
    <2>1. rule' \in [Ports -> [Groups -> RuleReg]]
        BY <1>0, <1>7 DEF ProtoVlanDel, TypeOK
    <2>2. group' \in [Groups -> Protos \cup {NoProto}]
        BY <1>7 DEF ProtoVlanDel, ReleaseUnused, TypeOK
    <2> QED
        BY <1>7, <2>1, <2>2 DEF ProtoVlanDel, Return, TypeOK, Results
<1>8. ASSUME NEW p \in Ports, ProtoVlanDelAll(p) PROVE TypeOK'
    <2>1. rule' \in [Ports -> [Groups -> RuleReg]]
        BY <1>0, <1>8 DEF ProtoVlanDelAll, TypeOK
    <2>2. group' \in [Groups -> Protos \cup {NoProto}]
        BY <1>8 DEF ProtoVlanDelAll, ReleaseUnused, TypeOK
    <2> QED
        BY <1>8, <2>1, <2>2 DEF ProtoVlanDelAll, Return, TypeOK, Results
<1>9. ASSUME NEW v \in CallVids, GuestVlanSet(v) PROVE TypeOK'
    <2>1. CASE Refuse("vid") \/ Refuse("failed")
        BY <2>1 DEF Refuse, Return, tables, TypeOK, Results
    <2>2. ASSUME NEW i \in Slots, v <= VIDMAX, gvidx' = i, Return("ok"),
                 \/ UNCHANGED mc
                 \/ mc' = [mc EXCEPT ![i] = [CopyOf(v) EXCEPT !.vbp = mc[0].vbp]],
                 UNCHANGED <<vlan4k, pvid, group, rule, gvPorts, filter, tagMode>>
          PROVE  TypeOK'
        <3>1. CopyOf(v) \in McEntry /\ mc[0] \in McEntry
            BY <1>0, <2>2, CopyOfType DEF TypeOK
        <3>2. [CopyOf(v) EXCEPT !.vbp = mc[0].vbp] \in McEntry
            BY <3>1 DEF McEntry
        <3>3. mc' \in [Slots -> McEntry]
            BY <2>2, <3>2 DEF TypeOK
        <3> QED
            BY <2>2, <3>3 DEF Return, TypeOK, Results
    <2> QED
        BY <1>9, <2>1, <2>2 DEF GuestVlanSet
<1>10. ASSUME NEW p \in Ports, NEW guest \in BOOLEAN, UnauthPacketOperSet(p, guest)
       PROVE  TypeOK'
    BY <1>10 DEF UnauthPacketOperSet, Return, TypeOK, Results
<1>11. CASE VlanInit
    <2>1. InitVlan1 \in Entry4k
        BY DEF InitVlan1, Entry4k
    <2>2. InitMc \in [Slots -> McEntry]
        BY <1>0 DEF InitMc, EmptyMc, McEntry
    <2>3. InitPvid \in [Ports -> PvidReg] /\ InitTags \in [Ports -> TagModes]
        BY <1>0 DEF InitPvid, InitTags, PvidReg
    <2> QED
        BY <1>11, <2>1, <2>2, <2>3 DEF VlanInit, Return, TypeOK, Results
<1>12. CASE UNCHANGED vars
    BY <1>12 DEF vars, TypeOK
<1> QED
    BY <1>1, <1>2, <1>3, <1>4, <1>5, <1>6, <1>7, <1>8, <1>9, <1>10, <1>11, <1>12
    DEF Next, Call, TableCall, PvidCall, ProtoCall, GuestCall

\* TypeOK: whatever VLANs, entries and indices callers pass, the registers of
\* the VLAN tables hold values their fields can hold.
THEOREM TypeCorrect == Spec => []TypeOK
BY InitTypeOK, NextTypeOK, PTL DEF Spec

-----------------------------------------------------------------------------
\* Rewriting a slot that no port's PVID points to, with a VLAN no other slot
\* holds, keeps the slots in order.
LEMMA FillSlotInv ==
    ASSUME SlotInv, TypeOK',
           NEW i \in Slots, NEW c \in McEntry, c.evid # 0, SlotsWith(c.evid) = {},
           \A q \in Ports : pvid[q].idx # i,
           mc' = [mc EXCEPT ![i] = c],
           \A q \in Ports : pvid'[q].idx = pvid[q].idx \/ pvid'[q].idx = i
    PROVE  SlotInv'
<1>1. \A j \in Slots : mc'[j] = IF j = i THEN c ELSE mc[j]
    BY DEF SlotInv, TypeOK
<1>2. PvidSlotLive'
    <2>1. \A q \in Ports : pvid[q].idx \in Slots /\ mc[pvid[q].idx].evid # 0
        BY DEF SlotInv, TypeOK, PvidReg, PvidSlotLive
    <2> QED
        BY <1>1, <2>1 DEF PvidSlotLive
<1>3. OneSlotPerVid'
    <2>1. \A j \in Slots : mc[j].evid # c.evid
        BY DEF SlotsWith
    <2> QED
        BY <1>1, <2>1 DEF SlotInv, OneSlotPerVid
<1> QED
    BY <1>2, <1>3 DEF SlotInv

\* A slot that counts as empty is no port's PVID slot.
LEMMA EmptyNotPvid ==
    ASSUME SlotInv, NEW i \in EmptySlots
    PROVE  \A q \in Ports : pvid[q].idx # i
BY DEF SlotInv, PvidSlotLive, EmptySlots

\* Calls that write neither the slots nor the PVIDs keep the slots in order.
LEMMA FrameInv ==
    ASSUME SlotInv, TypeOK', UNCHANGED <<mc, pvid>>
    PROVE  SlotInv'
BY DEF SlotInv, PvidSlotLive, OneSlotPerVid

\* After rtk_vlan_init only slot 0 holds a VLAN, and every PVID points to it.
LEMMA InitSlots ==
    ASSUME TypeOK, mc = InitMc, pvid = InitPvid
    PROVE  SlotInv
<1>1. 0 \in Slots
    BY CVlanAssumption DEF Slots
<1> QED
    BY <1>1 DEF SlotInv, PvidSlotLive, OneSlotPerVid, InitMc, InitPvid, EmptyMc

\* SlotInv is inductive for disciplined callers: one step per call that writes
\* a slot or a PVID.
LEMMA NextSlotInv == Disciplined /\ SlotInv /\ [Next]_vars => SlotInv'
<1> SUFFICES ASSUME Disciplined, SlotInv, [Next]_vars PROVE SlotInv'
    OBVIOUS
<1>0. TypeOK /\ TypeOK'
    BY NextTypeOK DEF SlotInv
<1>1. ASSUME NEW p \in Ports, NEW v \in CallVids, NEW pr \in Prios,
             PortPvidSet(p, v, pr)
      PROVE  SlotInv'
    <2>0. v <= VIDMAX => CopyOf(v) \in McEntry /\ CopyOf(v).evid = v /\ v # 0
        BY <1>0, CopyOfType DEF Disciplined
    <2>1. CASE v <= VIDMAX /\ PvidShare(p, v, pr)
        <3>1. PICK i \in Slots : /\ mc[i].evid = v /\ UNCHANGED mc
                                 /\ PointPvid(p, i, pr)
            BY <2>1 DEF PvidShare, Highest, SlotsWith
        <3>2. \A q \in Ports : pvid'[q].idx = IF q = p THEN i ELSE pvid[q].idx
            BY <3>1, <1>0 DEF PointPvid, TypeOK
        <3> QED
            BY <1>0, <2>0, <2>1, <3>1, <3>2 DEF SlotInv, PvidSlotLive, OneSlotPerVid
    <2>2. CASE v <= VIDMAX /\ (PvidFill(p, v, pr) \/ PvidReplace(p, v, pr))
        <3>1. PICK i \in Slots : /\ SlotsWith(v) = {}
                                 /\ i \in EmptySlots \/ i \in Replaceable(p)
                                 /\ LoadMc(i, v) /\ PointPvid(p, i, pr)
            BY <2>2 DEF PvidFill, PvidReplace, Lowest
        <3>2. \A q \in Ports : pvid[q].idx # i
            BY <3>1, EmptyNotPvid DEF Replaceable, InUse
        <3>3. \A q \in Ports : pvid'[q].idx = pvid[q].idx \/ pvid'[q].idx = i
            BY <3>1, <1>0 DEF PointPvid, TypeOK
        <3> QED
            BY <1>0, <2>0, <2>2, <3>1, <3>2, <3>3, FillSlotInv DEF LoadMc
    <2>3. CASE UNCHANGED <<mc, pvid>>
        BY <1>0, <2>3, FrameInv
    <2> QED
        BY <1>1, <2>1, <2>2, <2>3 DEF PortPvidSet, Refuse, tables
<1>2. ASSUME NEW p \in Ports, NEW t \in Protos, NEW v \in CallVids, NEW pr \in Prios,
             ProtoVlanAdd(p, t, v, pr)
      PROVE  SlotInv'
    <2>1. CASE UNCHANGED <<mc, pvid>>
        BY <1>0, <2>1, FrameInv
    <2>2. ASSUME NEW i \in Slots, v < VIDMAX, UNCHANGED pvid, SlotsWith(v) = {},
                 Lowest(i, EmptySlots), LoadMc(i, v)
          PROVE  SlotInv'
        <3>1. v <= VIDMAX
            BY <2>2, CVlanAssumption
        <3>2. CopyOf(v) \in McEntry /\ CopyOf(v).evid = v /\ v # 0
            BY <1>0, <3>1, CopyOfType DEF Disciplined
        <3>3. \A q \in Ports : pvid[q].idx # i
            BY <2>2, EmptyNotPvid DEF Lowest
        <3> QED
            BY <1>0, <2>2, <3>2, <3>3, FillSlotInv DEF LoadMc
    <2> QED
        BY <1>2, <2>1, <2>2 DEF ProtoVlanAdd, Refuse, tables
<1>3. ASSUME NEW v \in CallVids, GuestVlanSet(v) PROVE SlotInv'
    <2>1. CASE UNCHANGED <<mc, pvid>>
        BY <1>0, <2>1, FrameInv
    <2>2. ASSUME NEW i \in Slots, v <= VIDMAX, UNCHANGED pvid, SlotsWith(v) = {},
                 Lowest(i, EmptySlots),
                 mc' = [mc EXCEPT ![i] = [CopyOf(v) EXCEPT !.vbp = mc[0].vbp]]
          PROVE  SlotInv'
        <3>1. CopyOf(v) \in McEntry /\ CopyOf(v).evid = v /\ v # 0
            BY <1>0, <2>2, CopyOfType DEF Disciplined
        <3>2. mc[0] \in McEntry
            BY <1>0, CVlanAssumption DEF TypeOK, Slots
        <3>3. /\ [CopyOf(v) EXCEPT !.vbp = mc[0].vbp] \in McEntry
              /\ [CopyOf(v) EXCEPT !.vbp = mc[0].vbp].evid = v
            BY <3>1, <3>2 DEF McEntry
        <3>4. \A q \in Ports : pvid[q].idx # i
            BY <2>2, EmptyNotPvid DEF Lowest
        <3> QED
            BY <1>0, <2>2, <3>1, <3>3, <3>4, FillSlotInv
    <2> QED
        BY <1>3, <2>1, <2>2 DEF GuestVlanSet, Refuse, tables
<1>4. CASE VlanInit
    <2>1. mc' = InitMc /\ pvid' = InitPvid
        BY <1>4 DEF VlanInit
    <2>2. 0 \in Slots
        BY CVlanAssumption DEF Slots
    <2> QED
        BY <1>0, <2>1, <2>2
        DEF SlotInv, PvidSlotLive, OneSlotPerVid, InitMc, InitPvid, EmptyMc
<1>5. CASE UNCHANGED <<mc, pvid>>
    BY <1>0, <1>5, FrameInv
<1>6. ASSUME NEW i \in Slots, NEW c \in RawCfgs, c.evid = mc[i].evid, MbrCfgSet(i, c)
      PROVE  SlotInv'
    <2>1. \A j \in Slots : mc'[j].evid = mc[j].evid
        BY <1>0, <1>6 DEF MbrCfgSet, TypeOK
    <2>2. \A q \in Ports : pvid'[q] = pvid[q] /\ pvid[q].idx \in Slots
        BY <1>0, <1>6 DEF MbrCfgSet, TypeOK, PvidReg
    <2> QED
        BY <1>0, <2>1, <2>2 DEF SlotInv, PvidSlotLive, OneSlotPerVid
<1> QED
    <2>1. CASE TableCall \/ UNCHANGED vars
        BY <1>5, <1>6, <2>1
        DEF TableCall, VlanSet, VlanBasedPrioritySet, TagModeSet, Refuse, tables, vars,
            Disciplined
    <2>2. CASE ProtoCall
        BY <1>2, <1>5, <2>2 DEF ProtoCall, ProtoVlanDel, ProtoVlanDelAll
    <2>3. CASE GuestCall
        BY <1>3, <1>5, <2>3 DEF GuestCall, UnauthPacketOperSet
    <2> QED
        BY <1>1, <1>4, <2>1, <2>2, <2>3 DEF Next, Call, PvidCall

\* SlotInv: the allocation of rtk_vlan_portPvid_set,
\* rtk_vlan_protoAndPortBasedVlan_add and rtk_dot1x_guestVlan_set never leaves
\* a PVID on a slot that counts as empty, nor two slots with one VLAN.
THEOREM SlotsSafe ==
    ASSUME Disciplined
    PROVE  Spec => []SlotInv
<1>1. Init => SlotInv
    BY InitTypeOK, InitSlots DEF Init
<1>2. SlotInv /\ [Next]_vars => SlotInv'
    BY NextSlotInv
<1> QED
    BY <1>1, <1>2, PTL DEF Spec

-----------------------------------------------------------------------------
\* The VLAN a port's PVID slot holds is changed by no call, rtk_vlan_init
\* apart.
LEMMA PvidSlotKept ==
    ASSUME Disciplined, SlotInv, [Next]_vars, ~VlanInit, NEW p \in Ports
    PROVE  mc'[pvid[p].idx].evid = mc[pvid[p].idx].evid
<1> DEFINE s == pvid[p].idx
<1>1. s \in Slots /\ s \notin EmptySlots
    BY DEF SlotInv, TypeOK, PvidReg, PvidSlotLive, EmptySlots
<1>2. mc \in [Slots -> McEntry]
    BY DEF SlotInv, TypeOK
<1>3. ASSUME NEW i \in Slots, i # s, NEW c, mc' = [mc EXCEPT ![i] = c]
      PROVE  mc'[s].evid = mc[s].evid
    BY <1>1, <1>2, <1>3
<1>4. CASE PvidCall
    <2>1. PICK q \in Ports, v \in CallVids, pr \in Prios : PortPvidSet(q, v, pr)
        BY <1>4 DEF PvidCall
    <2>2. CASE UNCHANGED mc
        BY <2>2
    <2>3. ASSUME NEW i \in Slots, i \in EmptySlots \/ i \in Replaceable(q), LoadMc(i, v)
          PROVE  mc'[s].evid = mc[s].evid
        <3>1. i # s
            BY <1>1, <2>3 DEF Replaceable, InUse
        <3> QED
            BY <1>3, <2>3, <3>1 DEF LoadMc
    <2> QED
        BY <2>1, <2>2, <2>3
        DEF PortPvidSet, PvidShare, PvidFill, PvidReplace, Lowest, Refuse, tables
<1>5. CASE ProtoCall
    <2>1. CASE UNCHANGED mc
        BY <2>1
    <2>2. ASSUME NEW v \in CallVids, NEW i \in Slots, Lowest(i, EmptySlots), LoadMc(i, v)
          PROVE  mc'[s].evid = mc[s].evid
        <3>1. i # s
            BY <1>1, <2>2 DEF Lowest
        <3> QED
            BY <1>3, <2>2, <3>1 DEF LoadMc
    <2> QED
        BY <1>5, <2>1, <2>2
        DEF ProtoCall, ProtoVlanAdd, ProtoVlanDel, ProtoVlanDelAll, Refuse, tables
<1>6. CASE GuestCall
    <2>1. CASE UNCHANGED mc
        BY <2>1
    <2>2. ASSUME NEW i \in Slots, Lowest(i, EmptySlots), NEW c, mc' = [mc EXCEPT ![i] = c]
          PROVE  mc'[s].evid = mc[s].evid
        <3>1. i # s
            BY <1>1, <2>2 DEF Lowest
        <3> QED
            BY <1>3, <2>2, <3>1
    <2> QED
        BY <1>6, <2>1, <2>2 DEF GuestCall, GuestVlanSet, UnauthPacketOperSet, Refuse, tables
<1>7. CASE TableCall \/ UNCHANGED vars
    <2>1. ASSUME NEW i \in Slots, NEW c \in RawCfgs, c.evid = mc[i].evid, MbrCfgSet(i, c)
          PROVE  mc'[s].evid = mc[s].evid
        BY <1>1, <1>2, <2>1 DEF MbrCfgSet
    <2> QED
        BY <1>7, <2>1
        DEF TableCall, VlanSet, VlanBasedPrioritySet, TagModeSet, Refuse, tables, vars,
            Disciplined
<1> QED
    BY <1>4, <1>5, <1>6, <1>7 DEF Next, Call

\* A port's own index is written by rtk_vlan_portPvid_set on that port only.
LEMMA PvidIndexKept ==
    ASSUME SlotInv, [Next]_vars, NEW p \in Ports, pvid'[p] # pvid[p]
    PROVE  VlanInit \/ \E v \in CallVids, pr \in Prios : PortPvidSet(p, v, pr)
<1>1. pvid' # pvid
    OBVIOUS
<1>2. CASE PvidCall
    <2>1. PICK q \in Ports, v \in CallVids, pr \in Prios : PortPvidSet(q, v, pr)
        BY <1>2 DEF PvidCall
    <2>2. PICK i \in Slots : PointPvid(q, i, pr)
        BY <1>1, <2>1 DEF PortPvidSet, PvidShare, PvidFill, PvidReplace, Refuse, tables
    <2>3. q = p
        BY <2>2 DEF PointPvid, SlotInv, TypeOK
    <2> QED
        BY <2>1, <2>3
<1>3. ~TableCall /\ ~ProtoCall /\ ~GuestCall /\ ~UNCHANGED vars
    BY <1>1
    DEF TableCall, VlanSet, VlanBasedPrioritySet, MbrCfgSet, TagModeSet,
        ProtoCall, ProtoVlanAdd, ProtoVlanDel, ProtoVlanDelAll,
        GuestCall, GuestVlanSet, UnauthPacketOperSet, Refuse, tables, vars
<1> QED
    BY <1>2, <1>3 DEF Next, Call

\* What rtk_vlan_portPvid_set accepts, rtk_vlan_portPvid_get returns.
LEMMA PvidSetHonoured ==
    ASSUME TypeOK, NEW p \in Ports
    PROVE  PvidHonoured(p)
<1> SUFFICES ASSUME NEW v \in CallVids, NEW pr \in Prios,
                    PortPvidSet(p, v, pr), ret' = "ok"
             PROVE  PvidOf(p)' = [vid |-> v, pri |-> pr]
    BY DEF PvidHonoured
<1>1. /\ v <= VIDMAX
      /\ PvidShare(p, v, pr) \/ PvidFill(p, v, pr) \/ PvidReplace(p, v, pr)
    BY DEF PortPvidSet, Refuse, Return
<1>2. PICK i \in Slots : /\ PointPvid(p, i, pr)
                         /\ (UNCHANGED mc /\ mc[i].evid = v) \/ LoadMc(i, v)
    BY <1>1 DEF PvidShare, PvidFill, PvidReplace, Highest, SlotsWith
<1>3. mc'[i].evid = v
    BY <1>1, <1>2, CopyOfType DEF LoadMc, TypeOK
<1>4. pvid'[p] = [idx |-> i, pri |-> pr]
    BY <1>2 DEF PointPvid, TypeOK
<1> QED
    BY <1>3, <1>4 DEF PvidOf

\* PvidStable: a port's untagged frames change VLAN or priority only by
\* rtk_vlan_portPvid_set on that port or by rtk_vlan_init, however many slots
\* the other calls fill, share and replace; and the call takes effect.
THEOREM PvidsStable ==
    ASSUME Disciplined
    PROVE  Spec => PvidStable
<1>1. Init => SlotInv
    BY InitTypeOK, InitSlots DEF Init
<1>2. SlotInv /\ [Next]_vars => SlotInv'
    BY NextSlotInv
<1>3. ASSUME SlotInv, [Next]_vars, NEW p \in Ports PROVE PvidKept(p)
    <2>1. CASE pvid'[p] # pvid[p]
        BY <1>3, <2>1, PvidIndexKept DEF PvidKept
    <2>2. CASE pvid'[p] = pvid[p] /\ ~VlanInit
        <3>1. mc'[pvid[p].idx].evid = mc[pvid[p].idx].evid
            BY <1>3, <2>2, PvidSlotKept
        <3> QED
            BY <1>3, <2>2, <3>1 DEF PvidOf, PvidKept
    <2> QED
        BY <2>1, <2>2 DEF PvidKept
<1>4. SlotInv /\ [Next]_vars => [\A p \in Ports : PvidKept(p) /\ PvidHonoured(p)]_vars
    BY <1>3, PvidSetHonoured DEF SlotInv
<1> QED
    BY <1>1, <1>2, <1>4, PTL DEF Spec, PvidStable

-----------------------------------------------------------------------------
(***************************************************************************)
(* What refers to the slots of CVlan: PVIDs, protocol rules, the guest     *)
(* VLAN.                                                                   *)
(*                                                                         *)
(* Every pointer the switch follows points to a slot that holds a VLAN     *)
(* (RefsLive), and such a slot loses its VLAN only to a replacement, which *)
(* passes over the slots in use (SlotKept).  And since a protocol has one  *)
(* group, a port has one rule for it (RuleOfKept).                         *)
(***************************************************************************)
RefsLive ==
    /\ PvidSlotLive
    /\ \A p \in Ports, g \in Groups : rule[p][g].valid => mc[rule[p][g].idx].evid # 0
    /\ mc[gvidx].evid # 0

-----------------------------------------------------------------------------
\* No call but a replacement changes the VLAN of a slot that holds one, and a
\* replacement puts another in its place.
LEMMA SlotKept ==
    ASSUME Disciplined, TypeOK, Call, NEW s \in Slots, mc[s].evid # 0
    PROVE  /\ mc'[s].evid # 0
           /\ mc'[s].evid # mc[s].evid =>
                \E p \in Ports, v \in CallVids, pr \in Prios :
                   v <= VIDMAX /\ s \in Replaceable(p) /\ PvidReplace(p, v, pr)
<1> DEFINE Kept == mc'[s].evid = mc[s].evid
<1>0. mc \in [Slots -> McEntry] /\ s \notin EmptySlots
    BY DEF TypeOK, EmptySlots
<1>1. ASSUME NEW i \in EmptySlots, NEW c, mc' = [mc EXCEPT ![i] = c] PROVE Kept
    BY <1>0, <1>1
<1>2. CASE PvidCall
    <2>1. PICK p \in Ports, v \in CallVids, pr \in Prios : PortPvidSet(p, v, pr)
        BY <1>2 DEF PvidCall
    <2>2. CASE v <= VIDMAX /\ PvidReplace(p, v, pr)
        <3>1. PICK i \in Slots : i \in Replaceable(p) /\ mc' = [mc EXCEPT ![i] = CopyOf(v)]
            BY <2>2 DEF PvidReplace, LoadMc, Lowest
        <3>2. CopyOf(v).evid # 0
            BY <2>2, CopyOfType DEF Disciplined
        <3>3. CASE i = s
            BY <1>0, <2>2, <3>1, <3>2, <3>3
        <3>4. CASE i # s
            BY <1>0, <3>1, <3>4
        <3> QED
            BY <3>3, <3>4
    <2>3. CASE PvidFill(p, v, pr)
        BY <1>1, <2>3 DEF PvidFill, Lowest, LoadMc
    <2>4. CASE UNCHANGED mc
        BY <2>4
    <2> QED
        BY <2>1, <2>2, <2>3, <2>4 DEF PortPvidSet, PvidShare, Refuse, tables
<1>3. CASE ProtoCall
    BY <1>1, <1>3
    DEF ProtoCall, ProtoVlanAdd, ProtoVlanDel, ProtoVlanDelAll, Refuse, tables, LoadMc,
        Lowest
<1>4. CASE GuestCall
    BY <1>1, <1>4
    DEF GuestCall, GuestVlanSet, UnauthPacketOperSet, Refuse, tables, Lowest
<1>5. CASE TableCall
    <2>1. ASSUME NEW i \in Slots, NEW c \in RawCfgs, c.evid = mc[i].evid, MbrCfgSet(i, c)
          PROVE  Kept
        BY <1>0, <2>1 DEF MbrCfgSet
    <2>2. CASE UNCHANGED mc
        BY <2>2
    <2> QED
        BY <1>5, <2>1, <2>2
        DEF TableCall, VlanSet, VlanBasedPrioritySet, TagModeSet, Refuse, tables, Disciplined
<1> QED
    BY <1>2, <1>3, <1>4, <1>5 DEF Call

\* Every pointer keeps pointing to a slot that holds a VLAN, because slots
\* never lose theirs and a call that sets a pointer sets it to such a slot.
LEMMA CallRefsLive ==
    ASSUME Disciplined, SlotInv, SlotInv', RefsLive, Call
    PROVE  RefsLive'
<1>0. TypeOK /\ TypeOK'
    BY DEF SlotInv
<1>1. \A s \in Slots : mc[s].evid # 0 => mc'[s].evid # 0
    BY <1>0, SlotKept
<1>2. PvidSlotLive'
    BY DEF SlotInv
<1>3. \A p \in Ports, g \in Groups : rule[p][g].valid => mc'[rule[p][g].idx].evid # 0
    BY <1>0, <1>1 DEF RefsLive, TypeOK, RuleReg
<1>4. mc'[gvidx].evid # 0
    BY <1>0, <1>1 DEF RefsLive, TypeOK
<1>5. \A p \in Ports, g \in Groups : rule'[p][g].valid => mc'[rule'[p][g].idx].evid # 0
    <2>1. CASE UNCHANGED rule
        BY <1>3, <2>1
    <2>2. ASSUME NEW p \in Ports, NEW t \in Protos, NEW v \in CallVids, NEW pr \in Prios,
                 ProtoVlanAdd(p, t, v, pr)
          PROVE  \A q \in Ports, h \in Groups :
                     rule'[q][h].valid => mc'[rule'[q][h].idx].evid # 0
        <3>1. CASE UNCHANGED rule
            BY <1>3, <3>1
        <3>2. ASSUME NEW g \in Groups, NEW i \in Slots, mc'[i].evid = v, v # 0,
                     rule' = [rule EXCEPT ![p][g] = [valid |-> TRUE, idx |-> i, pri |-> pr]]
              PROVE  \A q \in Ports, h \in Groups :
                         rule'[q][h].valid => mc'[rule'[q][h].idx].evid # 0
            BY <1>0, <1>3, <3>2 DEF TypeOK
        <3>3. ASSUME NEW i \in Slots, LoadMc(i, v), v < VIDMAX
              PROVE  mc'[i].evid = v
            <4>1. CopyOf(v).evid = v
                BY <1>0, <3>3, CopyOfType, CVlanAssumption
            <4> QED
                BY <1>0, <3>3, <4>1 DEF LoadMc, TypeOK
        <3>4. ASSUME NEW i \in Slots, Lowest(i, SlotsWith(v)), UNCHANGED mc
              PROVE  mc'[i].evid = v
            BY <3>4 DEF Lowest, SlotsWith
        <3>5. v # 0
            BY DEF Disciplined
        <3> QED
            BY <2>2, <3>1, <3>2, <3>3, <3>4, <3>5 DEF ProtoVlanAdd, MakeRule, Refuse, tables
    <2>3. ASSUME \A q \in Ports, h \in Groups : rule'[q][h] \in {rule[q][h], NoRule}
          PROVE  \A q \in Ports, h \in Groups :
                     rule'[q][h].valid => mc'[rule'[q][h].idx].evid # 0
        BY <1>3, <2>3 DEF NoRule
    <2>4. ASSUME NEW p \in Ports, NEW t \in Protos, ProtoVlanDel(p, t)
          PROVE  \A q \in Ports, h \in Groups : rule'[q][h] \in {rule[q][h], NoRule}
        BY <1>0, <2>4 DEF ProtoVlanDel, TypeOK
    <2>5. ASSUME NEW p \in Ports, ProtoVlanDelAll(p)
          PROVE  \A q \in Ports, h \in Groups : rule'[q][h] \in {rule[q][h], NoRule}
        BY <1>0, <2>5 DEF ProtoVlanDelAll, TypeOK
    <2>6. TableCall \/ PvidCall \/ GuestCall => UNCHANGED rule
        BY DEF TableCall, VlanSet, VlanBasedPrioritySet, MbrCfgSet, TagModeSet,
               PvidCall, PortPvidSet, GuestCall, GuestVlanSet, UnauthPacketOperSet,
               Refuse, tables
    <2> QED
        BY <2>1, <2>2, <2>3, <2>4, <2>5, <2>6 DEF Call, ProtoCall
<1>6. mc'[gvidx'].evid # 0
    <2>1. CASE UNCHANGED gvidx
        BY <1>4, <2>1
    <2>2. ASSUME NEW v \in CallVids, GuestVlanSet(v), gvidx' # gvidx
          PROVE  mc'[gvidx'].evid # 0
        <3>1. PICK i \in Slots :
                 /\ v <= VIDMAX /\ gvidx' = i
                 /\ \/ Highest(i, SlotsWith(v)) /\ UNCHANGED mc
                    \/ mc' = [mc EXCEPT ![i] = [CopyOf(v) EXCEPT !.vbp = mc[0].vbp]]
            BY <2>2 DEF GuestVlanSet, Refuse, tables
        <3>2. CopyOf(v) \in McEntry /\ CopyOf(v).evid = v /\ v # 0
            BY <1>0, <3>1, CopyOfType DEF Disciplined
        <3>3. [CopyOf(v) EXCEPT !.vbp = mc[0].vbp].evid = v
            BY <3>2 DEF McEntry
        <3>4. mc'[i].evid = v
            BY <1>0, <3>1, <3>3 DEF Highest, SlotsWith, TypeOK
        <3> QED
            BY <3>1, <3>2, <3>4
    <2> QED
        BY <2>1, <2>2
        DEF Call, TableCall, VlanSet, VlanBasedPrioritySet, MbrCfgSet, TagModeSet,
            PvidCall, PortPvidSet, ProtoCall, ProtoVlanAdd, ProtoVlanDel, ProtoVlanDelAll,
            GuestCall, UnauthPacketOperSet, Refuse, tables
<1> QED
    BY <1>2, <1>5, <1>6 DEF RefsLive

-----------------------------------------------------------------------------
\* Calls that take, keep or release groups: a rule is made in a group of its
\* protocol, and a group is released when no port has a rule in it.
LEMMA InitGroups == Init => GroupsConsistent
BY DEF Init, NoRule, GroupsConsistent

LEMMA AddGroups ==
    ASSUME TypeOK, GroupsConsistent, NoProto \notin Protos,
           NEW p \in Ports, NEW t \in Protos, NEW v \in CallVids, NEW pr \in Prios,
           ProtoVlanAdd(p, t, v, pr)
    PROVE  GroupsConsistent'
<1>1. CASE UNCHANGED <<group, rule>>
    BY <1>1 DEF GroupsConsistent
<1>2. ASSUME NEW g \in Groups, TakeGroup(g, t),
             \/ UNCHANGED rule
             \/ \E i : rule' = [rule EXCEPT ![p][g] = [valid |-> TRUE, idx |-> i, pri |-> pr]]
      PROVE  GroupsConsistent'
    <2>1. /\ \A h \in Groups : group'[h] = IF h = g THEN t ELSE group[h]
          /\ group[g] = t \/ (GroupsWith(t) = {} /\ group[g] = NoProto)
        BY <1>2 DEF TakeGroup, Highest, Lowest, GroupsWith, TypeOK
    <2>2. \A q \in Ports, h \in Groups : rule'[q][h].valid => rule[q][h].valid \/ h = g
        BY <1>2 DEF TypeOK
    <2>3. \A q \in Ports, h \in Groups : rule'[q][h].valid => group'[h] # NoProto
        BY <2>1, <2>2 DEF GroupsConsistent
    <2>4. \A h, k \in Groups : group'[h] # NoProto /\ group'[h] = group'[k] => h = k
        BY <2>1 DEF GroupsConsistent, GroupsWith
    <2> QED
        BY <2>3, <2>4 DEF GroupsConsistent
<1> QED
    BY <1>1, <1>2 DEF ProtoVlanAdd, MakeRule, Refuse, tables

\* What a delete for port p does to groups and rules: some rules of the port
\* go, and with them groups that no port has a rule in any more.
Releases(p, S) ==
    /\ rule' = [rule EXCEPT ![p] = [h \in Groups |-> IF h \in S THEN NoRule ELSE @[h]]]
    /\ \A h \in Groups :
          \/ group'[h] = group[h]
          \/ group'[h] = NoProto /\ ~HasRule(h)'
    /\ \A h \in S \cap Groups : group'[h] = NoProto \/ HasRule(h)'

LEMMA DelReleases ==
    ASSUME TypeOK, GroupsConsistent, NoProto \notin Protos,
           NEW p \in Ports, NEW t \in Protos, ProtoVlanDel(p, t)
    PROVE  Releases(p, GroupsWith(t))
<1>1. rule' = [rule EXCEPT ![p] = [h \in Groups |-> IF h \in GroupsWith(t) THEN NoRule ELSE @[h]]]
    BY DEF ProtoVlanDel, GroupsWith
<1>2. PICK gs \in SUBSET Nat : ReleaseUnused(gs) /\ GroupsWith(t) \subseteq gs
    <2>1. ASSUME NEW g \in Groups, Highest(g, GroupsWith(t)) PROVE GroupsWith(t) \subseteq {g}
        BY <2>1 DEF Highest, GroupsWith, GroupsConsistent
    <2>2. Groups \subseteq Nat
        BY CVlanAssumption DEF Groups
    <2>3. CASE GroupsWith(t) = {} /\ ReleaseUnused({0})
        BY <2>3
    <2>4. ASSUME NEW g \in Groups, Highest(g, GroupsWith(t)), ReleaseUnused({g})
          PROVE  \E gs \in SUBSET Nat : ReleaseUnused(gs) /\ GroupsWith(t) \subseteq gs
        <3>1. {g} \in SUBSET Nat
            BY <2>2
        <3> QED
            BY <2>1, <2>4, <3>1
    <2> QED
        BY <2>3, <2>4 DEF ProtoVlanDel
<1> QED
    BY <1>1, <1>2 DEF Releases, ReleaseUnused, HasRule

LEMMA DelAllReleases ==
    ASSUME TypeOK, NEW p \in Ports, ProtoVlanDelAll(p)
    PROVE  Releases(p, Groups)
<1>1. rule' = [rule EXCEPT ![p] = [h \in Groups |-> IF h \in Groups THEN NoRule ELSE @[h]]]
    BY DEF ProtoVlanDelAll
<1> QED
    BY <1>1 DEF ProtoVlanDelAll, Releases, ReleaseUnused, HasRule

LEMMA ReleasesGroups ==
    ASSUME TypeOK, GroupsConsistent, NEW p \in Ports, NEW S, Releases(p, S)
    PROVE  GroupsConsistent'
<1>1. \A q \in Ports, h \in Groups : rule'[q][h] \in {rule[q][h], NoRule}
    BY DEF Releases, TypeOK
<1>2. \A q \in Ports, h \in Groups : rule'[q][h].valid => rule[q][h].valid /\ HasRule(h)'
    BY <1>1 DEF NoRule, HasRule
<1> QED
    BY <1>2 DEF Releases, GroupsConsistent

LEMMA OthersKeepGroups ==
    [Next]_vars /\ ~ProtoCall => UNCHANGED <<group, rule>>
BY DEF Next, Call, TableCall, VlanSet, VlanBasedPrioritySet, MbrCfgSet, TagModeSet, PvidCall,
       PortPvidSet, GuestCall, GuestVlanSet, UnauthPacketOperSet, VlanInit, Refuse, tables, vars

LEMMA NextGroups ==
    NoProto \notin Protos /\ TypeOK /\ GroupsConsistent /\ [Next]_vars => GroupsConsistent'
<1> SUFFICES ASSUME NoProto \notin Protos, TypeOK, GroupsConsistent, [Next]_vars
             PROVE  GroupsConsistent'
    OBVIOUS
<1>1. CASE ProtoCall
    BY <1>1, AddGroups, DelReleases, DelAllReleases, ReleasesGroups DEF ProtoCall
<1>2. CASE ~ProtoCall
    BY <1>2, OthersKeepGroups DEF GroupsConsistent
<1> QED
    BY <1>1, <1>2

\* GroupsConsistent, for any callers that pass no rule for the pair (0, 0):
\* rtk_vlan_protoAndPortBasedVlan_add never opens a second group for a
\* protocol, and _del and _delAll never take a group from under a rule.
THEOREM GroupsSafe ==
    ASSUME NoProto \notin Protos
    PROVE  Spec => []GroupsConsistent
<1> DEFINE IInv == TypeOK /\ GroupsConsistent
<1>1. Init => IInv
    BY InitTypeOK, InitGroups
<1>2. IInv /\ [Next]_vars => IInv'
    BY NextTypeOK, NextGroups
<1>3. IInv => GroupsConsistent
    OBVIOUS
<1> QED
    BY <1>1, <1>2, <1>3, PTL DEF Spec

-----------------------------------------------------------------------------
\* A group keeps its protocol while a rule stays in it, and is left without a
\* rule only by an add that failed.
LEMMA AddOwns ==
    ASSUME TypeOK, GroupsConsistent, NoProto \notin Protos,
           NEW p \in Ports, NEW t \in Protos, NEW v \in CallVids, NEW pr \in Prios,
           ProtoVlanAdd(p, t, v, pr), NEW h \in Groups
    PROVE  GroupKept(h) /\ GroupReleased(h)
<1>1. CASE UNCHANGED <<group, rule>>
    BY <1>1 DEF GroupKept, GroupReleased, HasRule
<1>2. ASSUME NEW g \in Groups, TakeGroup(g, t),
             \/ UNCHANGED rule /\ rule[p][g].valid
             \/ UNCHANGED rule /\ ret' = "failed"
             \/ \E i : rule' = [rule EXCEPT ![p][g] = [valid |-> TRUE, idx |-> i, pri |-> pr]]
      PROVE  GroupKept(h) /\ GroupReleased(h)
    <2>1. /\ \A k \in Groups : group'[k] = IF k = g THEN t ELSE group[k]
          /\ group[g] = t \/ group[g] = NoProto
        BY <1>2 DEF TakeGroup, Highest, Lowest, GroupsWith, TypeOK
    <2>2. \A q \in Ports, k \in Groups : rule[q][k].valid => rule'[q][k].valid
        BY <1>2 DEF TypeOK
    <2>3. rule'[p][g].valid \/ ret' = "failed"
        BY <1>2 DEF TypeOK
    <2>4. GroupKept(h)
        BY <2>1 DEF GroupKept, GroupsConsistent
    <2>5. GroupReleased(h)
        BY <2>1, <2>2, <2>3 DEF GroupReleased, HasRule
    <2> QED
        BY <2>4, <2>5
<1> QED
    BY <1>1, <1>2 DEF ProtoVlanAdd, MakeRule, Return, Refuse, tables

LEMMA ReleasesOwn ==
    ASSUME TypeOK, NEW p \in Ports, NEW S, Releases(p, S), NEW h \in Groups
    PROVE  GroupKept(h) /\ GroupReleased(h)
<1>1. GroupKept(h)
    BY DEF Releases, GroupKept, HasRule
<1>2. h \notin S => \A q \in Ports : rule'[q][h] = rule[q][h]
    BY DEF Releases, TypeOK
<1>3. GroupReleased(h)
    BY <1>2 DEF Releases, GroupReleased, HasRule
<1> QED
    BY <1>1, <1>3

\* GroupsOwned, for any callers that pass no rule for the pair (0, 0): every
\* delete releases what no port uses any more, and nothing else is released.
THEOREM GroupsAreOwned ==
    ASSUME NoProto \notin Protos
    PROVE  Spec => GroupsOwned
<1> DEFINE IInv == TypeOK /\ GroupsConsistent
           Owned == \A g \in Groups : GroupKept(g) /\ GroupReleased(g)
<1>1. Init => IInv
    BY InitTypeOK, InitGroups
<1>2. IInv /\ [Next]_vars => IInv'
    BY NextTypeOK, NextGroups
<1>3. IInv /\ [Next]_vars => [Owned]_vars
    <2> SUFFICES ASSUME IInv, [Next]_vars PROVE Owned
        OBVIOUS
    <2>1. CASE ProtoCall
        BY <2>1, AddOwns, DelReleases, DelAllReleases, ReleasesOwn DEF ProtoCall
    <2>2. CASE ~ProtoCall
        BY <2>2, OthersKeepGroups DEF GroupKept, GroupReleased, HasRule
    <2> QED
        BY <2>1, <2>2
<1> QED
    BY <1>1, <1>2, <1>3, PTL DEF Spec, GroupsOwned

-----------------------------------------------------------------------------
\* Where the rule of port p for protocol t is: at most one group.
RulePlaces(p, t) == {h \in Groups : group[h] = t /\ rule[p][h].valid}

\* RuleOf reads the rule at that place, and there is but one group to search.
LEMMA RuleOfPlaces ==
    ASSUME GroupsConsistent, NEW p \in Ports, NEW t \in Protos, t # NoProto
    PROVE  RuleOf(p, t) = {[vid |-> mc[rule[p][g].idx].evid, pri |-> rule[p][g].pri] :
                              g \in RulePlaces(p, t)}
<1>1. \A h \in GroupsWith(t) : Lowest(h, GroupsWith(t))
    <2>1. \A h, j \in GroupsWith(t) : j = h
        BY DEF GroupsConsistent, GroupsWith
    <2>2. \A h \in Groups : h \in Nat
        BY CVlanAssumption DEF Groups
    <2> QED
        BY <2>1, <2>2 DEF Lowest, GroupsWith
<1>2. {h \in GroupsWith(t) : rule[p][h].valid /\ Lowest(h, GroupsWith(t))} = RulePlaces(p, t)
    BY <1>1 DEF RulePlaces, GroupsWith
<1> QED
    BY <1>2 DEF RuleOf

\* The same in the state after a step.
LEMMA RuleOfPlacesNext ==
    ASSUME GroupsConsistent', NEW p \in Ports, NEW t \in Protos, t # NoProto
    PROVE  RuleOf(p, t)' = {[vid |-> mc'[rule'[p][g].idx].evid, pri |-> rule'[p][g].pri] :
                               g \in RulePlaces(p, t)'}
<1>1. \A h \in GroupsWith(t)' : Lowest(h, GroupsWith(t)')
    <2>1. \A h, j \in GroupsWith(t)' : j = h
        BY DEF GroupsConsistent, GroupsWith
    <2>2. \A h \in Groups : h \in Nat
        BY CVlanAssumption DEF Groups
    <2> QED
        BY <2>1, <2>2 DEF Lowest, GroupsWith
<1>2. {h \in GroupsWith(t)' : rule'[p][h].valid /\ Lowest(h, GroupsWith(t)')} = RulePlaces(p, t)'
    BY <1>1 DEF RulePlaces, GroupsWith
<1> QED
    BY <1>2 DEF RuleOf

LEMMA RuleOfKept ==
    ASSUME GroupsConsistent, GroupsConsistent', NEW p \in Ports, NEW t \in Protos, t # NoProto,
           RulePlaces(p, t)' = RulePlaces(p, t),
           \A g \in RulePlaces(p, t) :
              rule'[p][g] = rule[p][g] /\ mc'[rule[p][g].idx].evid = mc[rule[p][g].idx].evid
    PROVE  RuleOf(p, t)' = RuleOf(p, t)
<1> DEFINE S == RulePlaces(p, t)
<1>1. RuleOf(p, t)' = {[vid |-> mc'[rule'[p][g].idx].evid, pri |-> rule'[p][g].pri] : g \in S}
    BY RuleOfPlacesNext
<1>2. RuleOf(p, t) = {[vid |-> mc[rule[p][g].idx].evid, pri |-> rule[p][g].pri] : g \in S}
    BY RuleOfPlaces
<1>3. \A g \in S : [vid |-> mc'[rule'[p][g].idx].evid, pri |-> rule'[p][g].pri]
                    = [vid |-> mc[rule[p][g].idx].evid, pri |-> rule[p][g].pri]
    OBVIOUS
<1> HIDE DEF S
<1>4. \A x : x \in RuleOf(p, t)' <=> x \in RuleOf(p, t)
    BY <1>1, <1>2, <1>3, ZenonT(60)
<1> QED
    BY <1>4, <1>1, <1>2

\* A slot in use by port p's rules or, while ports use it, the guest VLAN is
\* passed over by a replacement for p; for the guest VLAN by any.
LEMMA UsedSlotKept ==
    ASSUME Disciplined, TypeOK, RefsLive, Call
    PROVE  /\ \A p \in Ports, g \in Groups :
                rule[p][g].valid =>
                   \/ mc'[rule[p][g].idx].evid = mc[rule[p][g].idx].evid
                   \/ \E q \in Ports \ {p}, v \in CallVids, pr \in Prios :
                         v <= VIDMAX /\ PvidReplace(q, v, pr)
           /\ gvPorts # {} => mc'[gvidx].evid = mc[gvidx].evid
<1>1. ASSUME NEW p \in Ports, NEW g \in Groups, rule[p][g].valid,
             mc'[rule[p][g].idx].evid # mc[rule[p][g].idx].evid
      PROVE  \E q \in Ports \ {p}, v \in CallVids, pr \in Prios :
                 v <= VIDMAX /\ PvidReplace(q, v, pr)
    <2>1. rule[p][g].idx \in Slots /\ mc[rule[p][g].idx].evid # 0
        BY <1>1 DEF TypeOK, RuleReg, RefsLive
    <2>2. PICK q \in Ports, v \in CallVids, pr \in Prios :
             v <= VIDMAX /\ rule[p][g].idx \in Replaceable(q) /\ PvidReplace(q, v, pr)
        BY <1>1, <2>1, SlotKept
    <2>3. q # p
        BY <1>1, <2>2 DEF Replaceable, InUse
    <2> QED
        BY <2>2, <2>3
<1>2. ASSUME gvPorts # {}, mc'[gvidx].evid # mc[gvidx].evid PROVE FALSE
    <2>1. gvidx \in Slots /\ mc[gvidx].evid # 0
        BY DEF TypeOK, RefsLive
    <2>2. PICK q \in Ports : gvidx \in Replaceable(q)
        BY <1>2, <2>1, SlotKept
    <2> QED
        BY <1>2, <2>2 DEF Replaceable, InUse
<1> QED
    BY <1>1, <1>2

\* The rule of port p for protocol t stays where it is, as it is.
RulePlaceKept(p, t) ==
    /\ RulePlaces(p, t)' = RulePlaces(p, t)
    /\ \A g \in RulePlaces(p, t) : rule'[p][g] = rule[p][g]

\* A port's rule for a protocol moves to no other group and is not rewritten,
\* except by the calls about it.
LEMMA AddPlaces ==
    ASSUME NoProto \notin Protos, TypeOK, GroupsConsistent,
           NEW q \in Ports, NEW u \in Protos, NEW v \in CallVids, NEW pr \in Prios,
           ProtoVlanAdd(q, u, v, pr),
           NEW p \in Ports, NEW t \in Protos, q # p \/ u # t \/ UNCHANGED rule
    PROVE  RulePlaceKept(p, t)
<1>1. CASE UNCHANGED <<group, rule>>
    BY <1>1 DEF RulePlaces, RulePlaceKept
<1>2. ASSUME NEW g \in Groups, TakeGroup(g, u),
             \/ UNCHANGED rule
             \/ \E i : rule' = [rule EXCEPT ![q][g] = [valid |-> TRUE, idx |-> i, pri |-> pr]]
      PROVE  RulePlaceKept(p, t)
    <2>1. /\ \A k \in Groups : group'[k] = IF k = g THEN u ELSE group[k]
          /\ group[g] = u \/ group[g] = NoProto
        BY <1>2 DEF TakeGroup, Highest, Lowest, GroupsWith, TypeOK
    <2>2. \A k \in Groups : rule'[p][k] = rule[p][k] \/ (q = p /\ u # t /\ k = g)
        BY <1>2 DEF TypeOK
    <2> QED
        BY <2>1, <2>2 DEF RulePlaces, RulePlaceKept, GroupsConsistent
<1> QED
    BY <1>1, <1>2 DEF ProtoVlanAdd, MakeRule, Refuse, tables

LEMMA ReleasesPlaces ==
    ASSUME NoProto \notin Protos, TypeOK, NEW q \in Ports, NEW S, Releases(q, S),
           NEW p \in Ports, NEW t \in Protos, q # p \/ S \cap GroupsWith(t) = {}
    PROVE  RulePlaceKept(p, t)
<1>1. \A k \in GroupsWith(t) : rule'[p][k] = rule[p][k]
    BY DEF Releases, GroupsWith, TypeOK
<1>2. \A k \in Groups : group'[k] = group[k] \/ (group'[k] = NoProto /\ ~rule'[p][k].valid)
    BY DEF Releases, HasRule
<1> QED
    BY <1>1, <1>2 DEF RulePlaces, RulePlaceKept, GroupsWith

LEMMA CallPlaces ==
    ASSUME NoProto \notin Protos, TypeOK, GroupsConsistent, Call,
           NEW p \in Ports, NEW t \in Protos,
           ~ProtoVlanDel(p, t), ~ProtoVlanDelAll(p),
           ~\E v \in CallVids, pr \in Prios : ProtoVlanAdd(p, t, v, pr)
    PROVE  RulePlaceKept(p, t)
<1>1. ASSUME NEW q \in Ports, NEW u \in Protos, ProtoVlanDel(q, u) PROVE RulePlaceKept(p, t)
    <2>1. q # p \/ GroupsWith(u) \cap GroupsWith(t) = {}
        BY <1>1 DEF GroupsWith
    <2> QED
        BY <1>1, <2>1, DelReleases, ReleasesPlaces
<1>2. ASSUME NEW q \in Ports, ProtoVlanDelAll(q) PROVE RulePlaceKept(p, t)
    BY <1>2, DelAllReleases, ReleasesPlaces
<1>3. ASSUME NEW q \in Ports, NEW u \in Protos, NEW v \in CallVids, NEW pr \in Prios,
             ProtoVlanAdd(q, u, v, pr)
      PROVE  RulePlaceKept(p, t)
    BY <1>3, AddPlaces
<1>4. CASE ProtoCall
    BY <1>1, <1>2, <1>3, <1>4 DEF ProtoCall
<1>5. CASE ~ProtoCall
    <2>1. UNCHANGED <<group, rule>>
        BY <1>5, OthersKeepGroups DEF Next
    <2> QED
        BY <2>1 DEF RulePlaces, RulePlaceKept
<1> QED
    BY <1>4, <1>5

-----------------------------------------------------------------------------
\* Callers who pass no rule for the pair (0, 0) either, and initialise again
\* only while nothing refers to a slot.
RuleDisciplined == Disciplined /\ NoProto \notin Protos
CleanSpec == Init /\ [][Call \/ CleanInit]_vars

RefsInv == SlotInv /\ RefsLive /\ GroupsConsistent

LEMMA InitRefsInv == Init => RefsInv
<1> SUFFICES ASSUME Init PROVE RefsInv
    OBVIOUS
<1>1. SlotInv
    BY InitTypeOK, InitSlots DEF Init
<1>2. 0 \in Slots
    BY CVlanAssumption DEF Slots
<1>3. RefsLive
    BY <1>1, <1>2 DEF Init, RefsLive, SlotInv, InitMc, NoRule
<1> QED
    BY <1>1, <1>3, InitGroups DEF RefsInv

LEMMA NextRefsInv == RuleDisciplined /\ RefsInv /\ [Call \/ CleanInit]_vars => RefsInv'
<1> SUFFICES ASSUME RuleDisciplined, RefsInv, [Call \/ CleanInit]_vars PROVE RefsInv'
    OBVIOUS
<1>0. [Next]_vars
    BY DEF Next, CleanInit
<1>1. SlotInv' /\ GroupsConsistent'
    BY <1>0, NextSlotInv, NextGroups DEF RefsInv, RuleDisciplined, SlotInv
<1>2. CASE Call
    BY <1>1, <1>2, CallRefsLive DEF RefsInv, RuleDisciplined
<1>3. CASE CleanInit
    <2>1. 0 \in Slots
        BY CVlanAssumption DEF Slots
    <2>2. mc'[0].evid = 1 /\ gvidx' = 0
        BY <1>3, <2>1 DEF CleanInit, NothingRefers, VlanInit, InitMc
    <2>3. \A p \in Ports, g \in Groups : ~rule'[p][g].valid
        BY <1>3 DEF CleanInit, NothingRefers, VlanInit
    <2>4. PvidSlotLive'
        BY <1>1 DEF SlotInv
    <2> QED
        BY <1>1, <2>2, <2>3, <2>4 DEF RefsInv, RefsLive
<1>4. CASE UNCHANGED vars
    BY <1>1, <1>4 DEF vars, RefsInv, RefsLive, PvidSlotLive
<1> QED
    BY <1>2, <1>3, <1>4, <1>1

\* A port's rule keeps its VLAN, whatever calls about something else do.
LEMMA CallRuleKept ==
    ASSUME RuleDisciplined, RefsInv, GroupsConsistent', Call, NEW p \in Ports, NEW t \in Protos
    PROVE  RuleKept(p, t)
<1> SUFFICES ASSUME ~ProtoVlanDel(p, t), ~ProtoVlanDelAll(p),
                    ~\E v \in CallVids, pr \in Prios : ProtoVlanAdd(p, t, v, pr),
                    ~\E q \in Ports \ {p}, v \in CallVids, pr \in Prios :
                        v <= VIDMAX /\ PvidReplace(q, v, pr)
             PROVE  RuleOf(p, t)' = RuleOf(p, t)
    BY DEF RuleKept
<1>0. TypeOK /\ RefsLive /\ GroupsConsistent /\ NoProto \notin Protos /\ Disciplined
    BY DEF RefsInv, SlotInv, RuleDisciplined
<1>1. /\ RulePlaces(p, t)' = RulePlaces(p, t)
      /\ \A g \in RulePlaces(p, t) : rule'[p][g] = rule[p][g]
    BY <1>0, CallPlaces DEF RulePlaceKept
<1>2. \A g \in RulePlaces(p, t) : mc'[rule[p][g].idx].evid = mc[rule[p][g].idx].evid
    BY <1>0, UsedSlotKept DEF RulePlaces
<1>3. t # NoProto
    BY <1>0
<1> QED
    BY <1>0, <1>1, <1>2, <1>3, RuleOfKept

LEMMA CallGuestKept ==
    ASSUME RuleDisciplined, RefsInv, Call
    PROVE  GuestKept
<1>1. gvidx' # gvidx => \E v \in CallVids : GuestVlanSet(v)
    BY DEF Call, TableCall, VlanSet, VlanBasedPrioritySet, MbrCfgSet, TagModeSet, PvidCall,
           PortPvidSet, ProtoCall, ProtoVlanAdd, ProtoVlanDel, ProtoVlanDelAll, GuestCall,
           UnauthPacketOperSet, Refuse, tables
<1>2. gvPorts # {} => mc'[gvidx].evid = mc[gvidx].evid
    BY UsedSlotKept DEF RefsInv, SlotInv, RuleDisciplined
<1> QED
    BY <1>1, <1>2 DEF GuestKept, GuestVlan

\* RefsStable: the VLAN of a protocol rule, and the guest VLAN of ports that
\* use it, are moved by no call about something else, except that
\* rtk_vlan_portPvid_set does not see the rules of other ports when it replaces
\* a slot; for any number of ports, slots, groups and VLANs.
THEOREM ReferencesStable ==
    ASSUME RuleDisciplined
    PROVE  CleanSpec => RefsStable
<1> DEFINE Kept == GuestKept /\ \A p \in Ports, t \in Protos : RuleKept(p, t)
<1>1. RefsInv /\ [Call \/ CleanInit]_vars => RefsInv'
    BY NextRefsInv
<1>2. RefsInv /\ RefsInv' /\ [Call \/ CleanInit]_vars => [Kept]_vars
    <2> SUFFICES ASSUME RefsInv, RefsInv', Call \/ CleanInit PROVE Kept
        OBVIOUS
    <2>1. CASE Call
        BY <2>1, CallGuestKept, CallRuleKept DEF RefsInv
    <2>2. CASE CleanInit
        <3>1. GuestKept
            BY <2>2 DEF CleanInit, GuestKept
        <3>2. \A p \in Ports, t \in Protos : RuleOf(p, t) = {} /\ RuleOf(p, t)' = {}
            BY <2>2 DEF CleanInit, NothingRefers, VlanInit, RuleOf, GroupsWith
        <3> QED
            BY <3>1, <3>2 DEF RuleKept
    <2> QED
        BY <2>1, <2>2
<1> QED
    BY <1>1, <1>2, InitRefsInv, PTL DEF CleanSpec, RefsStable

-----------------------------------------------------------------------------
(***************************************************************************)
(* CVlan implements VlanClassify: every call maps to a step of the promise *)
(* or to a stutter.                                                        *)
(*                                                                         *)
(* Slots are unseen by the three getters.  A call that replaces no slot    *)
(* leaves the VLAN of every live slot alone (SlotsFixed), and RefsLive     *)
(* says that pointers lead to live slots only, so what the getters answer  *)
(* changes only with the pointer the call is about.  A replacement changes *)
(* one slot, whose VLAN is in no other slot (OneSlotPerVid): the rules and *)
(* the guest VLAN that move with it are those in that VLAN.                *)
(***************************************************************************)
\* No slot that holds a VLAN is given another.
SlotsFixed == \A s \in Slots : mc[s].evid # 0 => mc'[s].evid = mc[s].evid

\* The VLANs in the slots are those of calls, and the default VLAN.
VidsKnown == \A s \in Slots : mc[s].evid \in CallVids \cup {0, 1}

PromiseInv == RefsInv /\ VidsKnown

-----------------------------------------------------------------------------
\* While the slots are fixed, a getter's answer changes only with its pointer.
LEMMA SamePvid ==
    ASSUME RefsInv, SlotsFixed, NEW p \in Ports, pvid'[p] = pvid[p]
    PROVE  PvidOf(p)' = PvidOf(p)
<1>1. pvid[p].idx \in Slots /\ mc[pvid[p].idx].evid # 0
    BY DEF RefsInv, SlotInv, TypeOK, PvidReg, PvidSlotLive
<1> QED
    BY <1>1 DEF SlotsFixed, PvidOf

LEMMA SameRule ==
    ASSUME RuleDisciplined, RefsInv, GroupsConsistent', SlotsFixed,
           NEW p \in Ports, NEW t \in Protos, RulePlaceKept(p, t)
    PROVE  RuleOf(p, t)' = RuleOf(p, t)
<1>1. \A g \in RulePlaces(p, t) : rule[p][g].idx \in Slots /\ mc[rule[p][g].idx].evid # 0
    BY DEF RefsInv, SlotInv, TypeOK, RuleReg, RefsLive, RulePlaces
<1>2. t # NoProto
    BY DEF RuleDisciplined
<1> QED
    BY <1>1, <1>2, RuleOfKept DEF RefsInv, RulePlaceKept, SlotsFixed

LEMMA SameGuest ==
    ASSUME RefsInv, SlotsFixed, gvidx' = gvidx
    PROVE  GuestVlan' = GuestVlan
BY DEF RefsInv, SlotInv, TypeOK, RefsLive, SlotsFixed, GuestVlan

\* A replacement moves a port's PVID to a slot that no port's PVID was on.
LEMMA NoReplacement ==
    ASSUME TypeOK, UNCHANGED pvid, NEW p \in Ports, NEW v, NEW pr
    PROVE  ~PvidReplace(p, v, pr)
<1> SUFFICES ASSUME PvidReplace(p, v, pr) PROVE FALSE
    OBVIOUS
<1>1. PICK i \in Replaceable(p) : PointPvid(p, i, pr)
    BY DEF PvidReplace, Lowest
<1>2. pvid[p].idx = i
    BY <1>1 DEF PointPvid, TypeOK
<1> QED
    BY <1>1, <1>2 DEF Replaceable, InUse

LEMMA OthersFixSlots ==
    ASSUME Disciplined, RefsInv, Call, UNCHANGED pvid
    PROVE  SlotsFixed
<1>1. TypeOK
    BY DEF RefsInv, SlotInv
<1> QED
    BY <1>1, SlotKept, NoReplacement DEF SlotsFixed

\* A slot filled from empty leaves the live ones alone.
LEMMA FillFixesSlots ==
    ASSUME TypeOK, NEW i \in EmptySlots, NEW c, mc' = [mc EXCEPT ![i] = c]
    PROVE  SlotsFixed
BY DEF TypeOK, EmptySlots, SlotsFixed

-----------------------------------------------------------------------------
\* What the getters answer, as the state of the promise.
PvNow == [p \in Ports |-> PvidOf(p)]
RlNow == [p \in Ports |-> [t \in Protos |-> RuleOf(p, t)]]

SameRules == \A p \in Ports, t \in Protos : RuleOf(p, t)' = RuleOf(p, t)
SamePvids == \A p \in Ports : PvidOf(p)' = PvidOf(p)

\* A call that keeps what the getters answer is a stutter of the promise.
LEMMA Stutters ==
    ASSUME SamePvids, SameRules, GuestVlan' = GuestVlan, gvPorts' = gvPorts
    PROVE  UNCHANGED Promise!cvars
<1>1. PvNow' = PvNow
    BY DEF PvNow, SamePvids
<1>2. RlNow' = RlNow
    <2>1. \A p \in Ports : [t \in Protos |-> RuleOf(p, t)]' = [t \in Protos |-> RuleOf(p, t)]
        BY DEF SameRules
    <2> QED
        BY <2>1 DEF RlNow
<1> QED
    BY <1>1, <1>2 DEF Promise!cvars, PvNow, RlNow

\* A PVID call that keeps every live slot sets the VLAN of one port.
LEMMA SetsPvid ==
    ASSUME SameRules, GuestVlan' = GuestVlan, gvPorts' = gvPorts,
           NEW p \in Ports, NEW v, NEW pr,
           PvidOf(p)' = [vid |-> v, pri |-> pr],
           \A q \in Ports \ {p} : PvidOf(q)' = PvidOf(q)
    PROVE  Promise!SetPvid(p, v, pr)
<1>1. PvNow' = [PvNow EXCEPT ![p] = [vid |-> v, pri |-> pr]]
    BY DEF PvNow
<1>2. RlNow' = RlNow
    <2>1. \A q \in Ports : [t \in Protos |-> RuleOf(q, t)]' = [t \in Protos |-> RuleOf(q, t)]
        BY DEF SameRules
    <2> QED
        BY <2>1 DEF RlNow
<1> QED
    BY <1>1, <1>2 DEF Promise!SetPvid, Promise!Tag, PvNow, RlNow

\* A call that touches only the rule of port p for protocol t.
LEMMA OneRuleSet ==
    ASSUME SamePvids, GuestVlan' = GuestVlan, gvPorts' = gvPorts,
           NEW p \in Ports, NEW t \in Protos, NEW R, RuleOf(p, t)' = R,
           \A q \in Ports, u \in Protos : q # p \/ u # t => RuleOf(q, u)' = RuleOf(q, u)
    PROVE  /\ PvNow' = PvNow
           /\ RlNow' = [RlNow EXCEPT ![p][t] = R]
<1>1. PvNow' = PvNow
    BY DEF PvNow, SamePvids
<1>2. [u \in Protos |-> RuleOf(p, u)]' = [RlNow[p] EXCEPT ![t] = R]
    BY DEF RlNow
<1>3. \A q \in Ports \ {p} : [u \in Protos |-> RuleOf(q, u)]' = RlNow[q]
    BY DEF RlNow
<1>4. RlNow' = [RlNow EXCEPT ![p] = [RlNow[p] EXCEPT ![t] = R]]
    BY <1>2, <1>3, ZenonT(60) DEF RlNow
<1> QED
    BY <1>1, <1>4

-----------------------------------------------------------------------------
\* One lemma per kind of call: the step of the promise it makes.
LEMMA TablePromise ==
    ASSUME RuleDisciplined, RefsInv, RefsInv', TableCall
    PROVE  UNCHANGED Promise!cvars
<1>1. UNCHANGED <<pvid, group, rule, gvidx, gvPorts>>
    BY DEF TableCall, VlanSet, VlanBasedPrioritySet, MbrCfgSet, TagModeSet, Refuse, tables
<1>2. SlotsFixed
    BY <1>1, OthersFixSlots DEF Call, RuleDisciplined
<1>3. SamePvids
    BY <1>1, <1>2, SamePvid DEF SamePvids
<1>4. SameRules
    BY <1>1, <1>2, SameRule DEF SameRules, RefsInv, RulePlaces, RulePlaceKept
<1> QED
    BY <1>1, <1>2, <1>3, <1>4, SameGuest, Stutters

LEMMA GuestPromise ==
    ASSUME RuleDisciplined, RefsInv, RefsInv', GuestCall
    PROVE  Promise!Next \/ UNCHANGED Promise!cvars
<1>1. UNCHANGED <<pvid, group, rule>>
    BY DEF GuestCall, GuestVlanSet, UnauthPacketOperSet, Refuse, tables
<1>2. SlotsFixed
    BY <1>1, OthersFixSlots DEF Call, RuleDisciplined
<1>3. SamePvids
    BY <1>1, <1>2, SamePvid DEF SamePvids
<1>4. SameRules
    BY <1>1, <1>2, SameRule DEF SameRules, RefsInv, RulePlaces, RulePlaceKept
<1>5. PvNow' = PvNow
    BY <1>3 DEF PvNow, SamePvids
<1>6. RlNow' = RlNow
    <2>1. \A q \in Ports : [t \in Protos |-> RuleOf(q, t)]' = [t \in Protos |-> RuleOf(q, t)]
        BY <1>4 DEF SameRules
    <2> QED
        BY <2>1 DEF RlNow
<1>7. ASSUME NEW v \in CallVids, GuestVlanSet(v)
      PROVE  Promise!SetGuest(v) \/ UNCHANGED Promise!cvars
    <2>1. CASE gvidx' = gvidx
        BY <1>2, <1>3, <1>4, <1>7, <2>1, SameGuest, Stutters DEF GuestVlanSet, Refuse, tables
    <2>2. CASE gvidx' # gvidx
        <3>1. PICK i \in Slots :
                 /\ v <= VIDMAX /\ gvidx' = i /\ gvPorts' = gvPorts
                 /\ \/ Highest(i, SlotsWith(v)) /\ UNCHANGED mc
                    \/ mc' = [mc EXCEPT ![i] = [CopyOf(v) EXCEPT !.vbp = mc[0].vbp]]
            BY <1>7, <2>2 DEF GuestVlanSet, Refuse, tables
        <3>2. CopyOf(v) \in McEntry /\ CopyOf(v).evid = v
            BY <3>1, CopyOfType DEF RefsInv, SlotInv
        <3>3. [CopyOf(v) EXCEPT !.vbp = mc[0].vbp].evid = v
            BY <3>2 DEF McEntry
        <3>4. mc'[i].evid = v
            BY <3>1, <3>3 DEF Highest, SlotsWith, RefsInv, SlotInv, TypeOK
        <3> QED
            BY <1>5, <1>6, <3>1, <3>4 DEF Promise!SetGuest, PvNow, RlNow, GuestVlan
    <2> QED
        BY <2>1, <2>2
<1>8. ASSUME NEW p \in Ports, NEW on \in BOOLEAN, UnauthPacketOperSet(p, on)
      PROVE  Promise!UseGuest(p, on)
    <2>1. GuestVlan' = GuestVlan
        BY <1>2, <1>8, SameGuest DEF UnauthPacketOperSet
    <2> QED
        BY <1>5, <1>6, <1>8, <2>1 DEF Promise!UseGuest, UnauthPacketOperSet, PvNow, RlNow
<1> QED
    BY <1>7, <1>8 DEF GuestCall, Promise!Next

LEMMA AddPromise ==
    ASSUME RuleDisciplined, RefsInv, RefsInv', Call,
           NEW p \in Ports, NEW t \in Protos, NEW v \in CallVids, NEW pr \in Prios,
           ProtoVlanAdd(p, t, v, pr)
    PROVE  Promise!AddRule(p, t, v, pr) \/ UNCHANGED Promise!cvars
<1>0. TypeOK /\ GroupsConsistent /\ GroupsConsistent' /\ NoProto \notin Protos /\ t # NoProto
    BY DEF RefsInv, SlotInv, RuleDisciplined
<1>1. UNCHANGED <<pvid, gvidx, gvPorts>>
    BY DEF ProtoVlanAdd, Refuse, tables
<1>2. SlotsFixed
    BY <1>1, OthersFixSlots DEF RuleDisciplined
<1>3. SamePvids /\ GuestVlan' = GuestVlan
    BY <1>1, <1>2, SamePvid, SameGuest DEF SamePvids
<1>4. \A q \in Ports, u \in Protos :
         q # p \/ u # t \/ UNCHANGED rule => RuleOf(q, u)' = RuleOf(q, u)
    BY <1>0, <1>2, AddPlaces, SameRule
<1>5. CASE UNCHANGED rule
    BY <1>1, <1>3, <1>4, <1>5, Stutters DEF SameRules
<1>6. ASSUME NEW g \in Groups, NEW i \in Slots, TakeGroup(g, t), ~rule[p][g].valid,
             rule' = [rule EXCEPT ![p][g] = [valid |-> TRUE, idx |-> i, pri |-> pr]],
             mc'[i].evid = v
      PROVE  Promise!AddRule(p, t, v, pr)
    <2>1. /\ \A k \in Groups : group'[k] = IF k = g THEN t ELSE group[k]
          /\ group[g] = t \/ GroupsWith(t) = {}
        BY <1>0, <1>6 DEF TakeGroup, Highest, Lowest, GroupsWith, TypeOK
    <2>2. RulePlaces(p, t) = {}
        BY <1>0, <1>6, <2>1 DEF RulePlaces, GroupsWith, GroupsConsistent
    <2>3. RuleOf(p, t) = {}
        BY <1>0, <2>2, RuleOfPlaces
    <2>4. rule'[p][g] = [valid |-> TRUE, idx |-> i, pri |-> pr]
        BY <1>0, <1>6 DEF TypeOK
    <2>5. RulePlaces(p, t)' = {g}
        BY <1>0, <2>1, <2>4 DEF RulePlaces, GroupsConsistent
    <2>6. RuleOf(p, t)' = {[vid |-> v, pri |-> pr]}
        BY <1>0, <1>6, <2>4, <2>5, RuleOfPlacesNext
    <2>7. PvNow' = PvNow /\ RlNow' = [RlNow EXCEPT ![p][t] = {[vid |-> v, pri |-> pr]}]
        BY <1>1, <1>3, <1>4, <2>6, OneRuleSet
    <2> QED
        BY <1>1, <1>3, <2>3, <2>7 DEF Promise!AddRule, Promise!Tag, PvNow, RlNow
<1>7. ASSUME NEW i \in Slots, LoadMc(i, v), v < VIDMAX
      PROVE  mc'[i].evid = v
    <2>1. CopyOf(v).evid = v
        BY <1>0, <1>7, CopyOfType, CVlanAssumption
    <2> QED
        BY <1>0, <1>7, <2>1 DEF LoadMc, TypeOK
<1>8. ASSUME NEW i \in Slots, Lowest(i, SlotsWith(v)), UNCHANGED mc
      PROVE  mc'[i].evid = v
    BY <1>8 DEF Lowest, SlotsWith
<1> QED
    BY <1>5, <1>6, <1>7, <1>8 DEF ProtoVlanAdd, MakeRule, Refuse, tables

LEMMA DelPromise ==
    ASSUME RuleDisciplined, RefsInv, RefsInv', Call,
           NEW p \in Ports, NEW t \in Protos, ProtoVlanDel(p, t)
    PROVE  Promise!DelRule(p, t) \/ UNCHANGED Promise!cvars
<1>0. TypeOK /\ GroupsConsistent /\ GroupsConsistent' /\ NoProto \notin Protos /\ t # NoProto
    BY DEF RefsInv, SlotInv, RuleDisciplined
<1>1. UNCHANGED <<pvid, gvidx, gvPorts>>
    BY DEF ProtoVlanDel
<1>2. SlotsFixed
    BY <1>1, OthersFixSlots DEF RuleDisciplined
<1>3. SamePvids /\ GuestVlan' = GuestVlan
    BY <1>1, <1>2, SamePvid, SameGuest DEF SamePvids
<1>4. Releases(p, GroupsWith(t))
    BY <1>0, DelReleases
<1>5. \A q \in Ports, u \in Protos : q # p \/ u # t => RuleOf(q, u)' = RuleOf(q, u)
    <2> SUFFICES ASSUME NEW q \in Ports, NEW u \in Protos, q # p \/ u # t
                 PROVE  RuleOf(q, u)' = RuleOf(q, u)
        OBVIOUS
    <2>1. q # p \/ GroupsWith(t) \cap GroupsWith(u) = {}
        BY DEF GroupsWith
    <2> QED
        BY <1>0, <1>2, <1>4, <2>1, ReleasesPlaces, SameRule
<1>6. RuleOf(p, t)' = {}
    <2>1. RulePlaces(p, t)' = {}
        BY <1>0, <1>4 DEF Releases, RulePlaces, GroupsWith, NoRule, TypeOK
    <2> QED
        BY <1>0, <2>1, RuleOfPlacesNext
<1>7. CASE RuleOf(p, t) = {}
    BY <1>1, <1>3, <1>5, <1>6, <1>7, Stutters DEF SameRules
<1>8. CASE RuleOf(p, t) # {}
    <2>1. PvNow' = PvNow /\ RlNow' = [RlNow EXCEPT ![p][t] = {}]
        BY <1>1, <1>3, <1>5, <1>6, OneRuleSet
    <2> QED
        BY <1>1, <1>3, <1>8, <2>1 DEF Promise!DelRule, PvNow, RlNow
<1> QED
    BY <1>7, <1>8

LEMMA DelAllPromise ==
    ASSUME RuleDisciplined, RefsInv, RefsInv', Call, NEW p \in Ports, ProtoVlanDelAll(p)
    PROVE  Promise!DelRules(p)
<1>0. TypeOK /\ GroupsConsistent /\ GroupsConsistent' /\ NoProto \notin Protos
    BY DEF RefsInv, SlotInv, RuleDisciplined
<1>1. UNCHANGED <<pvid, gvidx, gvPorts>>
    BY DEF ProtoVlanDelAll
<1>2. SlotsFixed
    BY <1>1, OthersFixSlots DEF RuleDisciplined
<1>3. PvNow' = PvNow /\ GuestVlan' = GuestVlan
    BY <1>1, <1>2, SamePvid, SameGuest DEF PvNow
<1>4. Releases(p, Groups)
    BY <1>0, DelAllReleases
<1>5. \A q \in Ports \ {p}, u \in Protos : RuleOf(q, u)' = RuleOf(q, u)
    BY <1>0, <1>2, <1>4, ReleasesPlaces, SameRule
<1>6. \A u \in Protos : RuleOf(p, u)' = {}
    <2>1. \A u \in Protos : RulePlaces(p, u)' = {}
        BY <1>0, <1>4 DEF Releases, RulePlaces, NoRule, TypeOK
    <2> QED
        BY <1>0, <2>1, RuleOfPlacesNext
<1>7. \A q \in Ports :
         [u \in Protos |-> RuleOf(q, u)]' = IF q = p THEN [u \in Protos |-> {}] ELSE RlNow[q]
    BY <1>5, <1>6 DEF RlNow
<1>8. RlNow' = [RlNow EXCEPT ![p] = [u \in Protos |-> {}]]
    BY <1>7 DEF RlNow
<1> QED
    BY <1>1, <1>3, <1>8 DEF Promise!DelRules, PvNow, RlNow

\* A PVID call that shares a slot, fills one, or replaces one that holds no
\* VLAN leaves every live slot alone.
LEMMA PvidPromiseFixed ==
    ASSUME RuleDisciplined, RefsInv, RefsInv', SlotsFixed,
           NEW p \in Ports, NEW v, NEW pr, NEW i \in Slots,
           PointPvid(p, i, pr), mc'[i].evid = v,
           UNCHANGED <<group, rule, gvidx, gvPorts>>
    PROVE  Promise!SetPvid(p, v, pr)
<1>0. pvid \in [Ports -> PvidReg]
    BY DEF RefsInv, SlotInv, TypeOK
<1>1. \A q \in Ports : pvid'[q] = IF q = p THEN [idx |-> i, pri |-> pr] ELSE pvid[q]
    BY <1>0 DEF PointPvid
<1>2. PvidOf(p)' = [vid |-> v, pri |-> pr]
    BY <1>1 DEF PvidOf
<1>3. \A q \in Ports \ {p} : PvidOf(q)' = PvidOf(q)
    BY <1>1, SamePvid
<1>4. SameRules
    BY SameRule DEF SameRules, RefsInv, RulePlaces, RulePlaceKept
<1> QED
    BY <1>2, <1>3, <1>4, SameGuest, SetsPvid

\* The slot of a live VLAN w replaced: no port in w, no rule of the port in w,
\* no guest in w; the other rules in w and an idle guest VLAN move.
LEMMA PvidPromiseReplacing ==
    ASSUME RuleDisciplined, PromiseInv, RefsInv',
           NEW p \in Ports, NEW v \in CallVids, NEW pr \in Prios, v <= VIDMAX,
           NEW i \in Slots, SlotsWith(v) = {}, i \in Replaceable(p), LoadMc(i, v),
           PointPvid(p, i, pr), mc[i].evid # 0,
           UNCHANGED <<group, rule, gvidx, gvPorts>>
    PROVE  \E w \in CallVids \cup {1} : Promise!SetPvidReplacing(p, v, pr, w)
<1> DEFINE w == mc[i].evid
<1>0. TypeOK /\ OneSlotPerVid /\ RefsLive /\ GroupsConsistent /\ GroupsConsistent'
      /\ NoProto \notin Protos
    BY DEF PromiseInv, RefsInv, SlotInv, RuleDisciplined
<1>1. w \in CallVids \cup {1} /\ w # v
    BY DEF PromiseInv, VidsKnown, SlotsWith
<1>2. CopyOf(v).evid = v
    BY <1>0, CopyOfType
<1>3. \A s \in Slots : mc'[s].evid = IF s = i THEN v ELSE mc[s].evid
    BY <1>0, <1>2 DEF LoadMc, TypeOK
<1>4. \A s \in Slots : mc[s].evid = w <=> s = i
    BY <1>0 DEF OneSlotPerVid
<1>5. \A q \in Ports : pvid'[q] = IF q = p THEN [idx |-> i, pri |-> pr] ELSE pvid[q]
    BY <1>0 DEF PointPvid, TypeOK
<1>6. \A q \in Ports : pvid[q].idx \in Slots /\ pvid[q].idx # i
    BY <1>0 DEF TypeOK, PvidReg, Replaceable, InUse
<1>7. PvidOf(p)' = [vid |-> v, pri |-> pr] /\ \A q \in Ports \ {p} : PvidOf(q)' = PvidOf(q)
    BY <1>3, <1>5, <1>6 DEF PvidOf
<1>8. PvNow' = [PvNow EXCEPT ![p] = [vid |-> v, pri |-> pr]]
    BY <1>7 DEF PvNow
<1>9. \A q \in Ports : PvidOf(q).vid # w
    BY <1>4, <1>6 DEF PvidOf
<1>10. \A q \in Ports, t \in Protos : \A g \in RulePlaces(q, t) :
          /\ rule[q][g].idx \in Slots /\ rule[q][g].valid /\ g \in Groups
          /\ q = p => rule[q][g].idx # i
    BY <1>0 DEF TypeOK, RuleReg, RulePlaces, Replaceable, InUse
<1>11. \A t \in Protos : \A r \in RuleOf(p, t) : r.vid # w
    <2> SUFFICES ASSUME NEW t \in Protos, NEW r \in RuleOf(p, t) PROVE r.vid # w
        OBVIOUS
    <2>1. PICK g \in RulePlaces(p, t) :
             r = [vid |-> mc[rule[p][g].idx].evid, pri |-> rule[p][g].pri]
        BY <1>0, RuleOfPlaces
    <2> QED
        BY <1>4, <1>10, <2>1
<1>12. \A q \in Ports, t \in Protos :
          RuleOf(q, t)' = {IF r.vid = w THEN [vid |-> v, pri |-> r.pri] ELSE r : r \in RuleOf(q, t)}
    <2> SUFFICES ASSUME NEW q \in Ports, NEW t \in Protos
                 PROVE  RuleOf(q, t)' = {IF r.vid = w THEN [vid |-> v, pri |-> r.pri] ELSE r :
                                            r \in RuleOf(q, t)}
        OBVIOUS
    <2> DEFINE S == RulePlaces(q, t)
               Old(g) == [vid |-> mc[rule[q][g].idx].evid, pri |-> rule[q][g].pri]
               New(g) == [vid |-> mc'[rule[q][g].idx].evid, pri |-> rule[q][g].pri]
               Moved(r) == IF r.vid = w THEN [vid |-> v, pri |-> r.pri] ELSE r
    <2>1. RuleOf(q, t) = {Old(g) : g \in S}
        BY <1>0, RuleOfPlaces
    <2>2. RulePlaces(q, t)' = S
        BY DEF RulePlaces
    <2>3. RuleOf(q, t)' = {New(g) : g \in S}
        BY <1>0, <2>2, RuleOfPlacesNext
    <2>4. \A g \in S : New(g) = Moved(Old(g))
        BY <1>3, <1>4, <1>10
    <2> HIDE DEF S, Old, New, Moved
    <2>5. RuleOf(q, t)' = {Moved(r) : r \in RuleOf(q, t)}
        BY <2>1, <2>3, <2>4
    <2> QED
        BY <2>5 DEF Moved
<1>13. gvidx \in Slots
    BY <1>0 DEF TypeOK
<1>14. GuestVlan = w => gvPorts = {}
    BY <1>4, <1>13 DEF GuestVlan, Replaceable, InUse
<1>15. GuestVlan' = IF GuestVlan = w THEN v ELSE GuestVlan
    BY <1>3, <1>4, <1>13 DEF GuestVlan
<1> HIDE DEF w
<1>16. RlNow' = [q \in Ports |-> [t \in Protos |->
                   {IF r.vid = w THEN [vid |-> v, pri |-> r.pri] ELSE r : r \in RlNow[q][t]}]]
    <2>1. \A q \in Ports : [t \in Protos |-> RuleOf(q, t)]' = [t \in Protos |->
              {IF r.vid = w THEN [vid |-> v, pri |-> r.pri] ELSE r : r \in RlNow[q][t]}]
        BY <1>12 DEF RlNow
    <2> QED
        BY <2>1 DEF RlNow
<1>17. Promise!SetPvidReplacing(p, v, pr, w)
    <2>1. Promise!InVlan(w) = {}
        BY <1>9 DEF Promise!InVlan
    <2>2. ~Promise!HasRuleIn(p, w)
        BY <1>11 DEF Promise!HasRuleIn
    <2> QED
        BY <1>1, <1>8, <1>14, <1>15, <1>16, <2>1, <2>2
        DEF Promise!SetPvidReplacing, Promise!Tag, PvNow, RlNow
<1> QED
    BY <1>1, <1>17

LEMMA PvidPromise ==
    ASSUME RuleDisciplined, PromiseInv, PromiseInv',
           NEW p \in Ports, NEW v \in CallVids, NEW pr \in Prios, PortPvidSet(p, v, pr)
    PROVE  \/ Promise!SetPvid(p, v, pr)
           \/ \E w \in CallVids \cup {1} : Promise!SetPvidReplacing(p, v, pr, w)
           \/ UNCHANGED Promise!cvars
<1>0. RefsInv /\ RefsInv' /\ TypeOK /\ RefsLive
    BY DEF PromiseInv, RefsInv, SlotInv
<1>1. CASE UNCHANGED tables
    <2>1. SlotsFixed
        BY <1>1 DEF SlotsFixed, tables
    <2>2. SamePvids /\ GuestVlan' = GuestVlan
        BY <1>0, <1>1, <2>1, SamePvid, SameGuest DEF SamePvids, tables
    <2>3. SameRules
        BY <1>0, <1>1, <2>1, SameRule DEF SameRules, RefsInv, RulePlaces, RulePlaceKept, tables
    <2> QED
        BY <1>1, <2>2, <2>3, Stutters DEF tables
<1>2. CASE /\ v <= VIDMAX
           /\ PvidShare(p, v, pr) \/ PvidFill(p, v, pr) \/ PvidReplace(p, v, pr)
           /\ UNCHANGED <<group, rule, gvidx, gvPorts>>
    <2>1. CopyOf(v).evid = v
        BY <1>0, <1>2, CopyOfType
    <2>2. ASSUME NEW i \in Slots, LoadMc(i, v) PROVE mc'[i].evid = v
        BY <1>0, <2>1, <2>2 DEF LoadMc, TypeOK
    <2>3. CASE PvidShare(p, v, pr)
        <3>1. PICK i \in Slots : mc[i].evid = v /\ PointPvid(p, i, pr) /\ UNCHANGED mc
            BY <2>3 DEF PvidShare, Highest, SlotsWith
        <3>2. SlotsFixed
            BY <3>1 DEF SlotsFixed
        <3> QED
            BY <1>0, <1>2, <3>1, <3>2, PvidPromiseFixed
    <2>4. CASE PvidFill(p, v, pr)
        <3>1. PICK i \in Slots : i \in EmptySlots /\ LoadMc(i, v) /\ PointPvid(p, i, pr)
            BY <2>4 DEF PvidFill, Lowest
        <3>2. SlotsFixed
            BY <1>0, <3>1, FillFixesSlots DEF LoadMc
        <3> QED
            BY <1>0, <1>2, <2>2, <3>1, <3>2, PvidPromiseFixed
    <2>5. CASE PvidReplace(p, v, pr)
        <3>1. PICK i \in Slots : /\ SlotsWith(v) = {} /\ i \in Replaceable(p)
                                 /\ LoadMc(i, v) /\ PointPvid(p, i, pr)
            BY <2>5 DEF PvidReplace, Lowest
        <3>2. CASE mc[i].evid = 0
            <4>1. SlotsFixed
                BY <1>0, <3>1, <3>2 DEF SlotsFixed, LoadMc, TypeOK
            <4> QED
                BY <1>0, <1>2, <2>2, <3>1, <4>1, PvidPromiseFixed
        <3>3. CASE mc[i].evid # 0
            BY <1>0, <1>2, <3>1, <3>3, PvidPromiseReplacing
        <3> QED
            BY <3>2, <3>3
    <2> QED
        BY <1>2, <2>3, <2>4, <2>5
<1> QED
    BY <1>1, <1>2 DEF PortPvidSet, Refuse

LEMMA RestartPromise ==
    ASSUME RuleDisciplined, RefsInv, CleanInit
    PROVE  Promise!Restart
<1>1. 0 \in Slots
    BY CVlanAssumption DEF Slots
<1>2. \A p \in Ports, t \in Protos : RuleOf(p, t) = {} /\ RuleOf(p, t)' = {}
    BY DEF CleanInit, NothingRefers, VlanInit, RuleOf, GroupsWith
<1>3. RlNow' = RlNow
    <2>1. \A p \in Ports : [t \in Protos |-> RuleOf(p, t)]' = [t \in Protos |-> RuleOf(p, t)]
        BY <1>2
    <2> QED
        BY <2>1 DEF RlNow
<1>4. mc'[0].evid = 1 /\ gvidx' = 0 /\ gvPorts' = gvPorts
    BY <1>1 DEF CleanInit, NothingRefers, VlanInit, InitMc
<1>5. PvNow' = [p \in Ports |-> [vid |-> 1, pri |-> 0]]
    BY <1>4 DEF CleanInit, VlanInit, InitPvid, PvidOf, PvNow
<1> QED
    BY <1>2, <1>3, <1>4, <1>5 DEF Promise!Restart, Promise!Tag, PvNow, RlNow, GuestVlan

-----------------------------------------------------------------------------
\* The invariant of the refinement.
LEMMA InitPromiseInv == Init => PromiseInv
BY InitRefsInv DEF PromiseInv, VidsKnown, Init, InitMc, EmptyMc

LEMMA NextPromiseInv == RuleDisciplined /\ PromiseInv /\ [Call \/ CleanInit]_vars => PromiseInv'
<1> SUFFICES ASSUME RuleDisciplined, PromiseInv, [Call \/ CleanInit]_vars PROVE PromiseInv'
    OBVIOUS
<1>0. RefsInv' /\ TypeOK
    BY NextRefsInv DEF PromiseInv, RefsInv, SlotInv
<1> SUFFICES VidsKnown'
    BY <1>0 DEF PromiseInv
<1>1. ASSUME NEW i \in Slots, NEW c, c.evid \in CallVids \cup {0, 1},
             mc' = [mc EXCEPT ![i] = c]
      PROVE  VidsKnown'
    BY <1>0, <1>1 DEF PromiseInv, VidsKnown, TypeOK
<1>2. CASE UNCHANGED mc
    BY <1>2 DEF PromiseInv, VidsKnown
<1>3. ASSUME NEW i \in Slots, NEW v \in CallVids, v <= VIDMAX, LoadMc(i, v)
      PROVE  VidsKnown'
    BY <1>0, <1>1, <1>3, CopyOfType DEF LoadMc
<1>4. CASE TableCall
    <2>1. ASSUME NEW i \in Slots, NEW c \in RawCfgs, c.evid = mc[i].evid, MbrCfgSet(i, c)
          PROVE  VidsKnown'
        BY <1>1, <2>1 DEF MbrCfgSet, PromiseInv, VidsKnown
    <2> QED
        BY <1>2, <1>4, <2>1
        DEF TableCall, VlanSet, VlanBasedPrioritySet, TagModeSet, Refuse, tables,
            RuleDisciplined, Disciplined
<1>5. CASE PvidCall
    BY <1>2, <1>3, <1>5
    DEF PvidCall, PortPvidSet, PvidShare, PvidFill, PvidReplace, Refuse, tables
<1>6. CASE ProtoCall
    <2>1. \A v \in CallVids : v < VIDMAX => v <= VIDMAX
        BY CVlanAssumption
    <2> QED
        BY <1>2, <1>3, <1>6, <2>1
        DEF ProtoCall, ProtoVlanAdd, ProtoVlanDel, ProtoVlanDelAll, Refuse, tables
<1>7. CASE GuestCall
    <2>1. ASSUME NEW i \in Slots, NEW v \in CallVids, v <= VIDMAX,
                 mc' = [mc EXCEPT ![i] = [CopyOf(v) EXCEPT !.vbp = mc[0].vbp]]
          PROVE  VidsKnown'
        <3>1. CopyOf(v) \in McEntry /\ CopyOf(v).evid = v
            BY <1>0, <2>1, CopyOfType
        <3>2. [CopyOf(v) EXCEPT !.vbp = mc[0].vbp].evid = v
            BY <3>1 DEF McEntry
        <3> QED
            BY <1>1, <2>1, <3>2
    <2> QED
        BY <1>2, <1>7, <2>1 DEF GuestCall, GuestVlanSet, UnauthPacketOperSet, Refuse, tables
<1>8. CASE CleanInit
    BY <1>8 DEF CleanInit, VlanInit, InitMc, EmptyMc, VidsKnown
<1> QED
    BY <1>2, <1>4, <1>5, <1>6, <1>7, <1>8 DEF Call, vars

LEMMA InitPromise == Init => Promise!Init
<1> SUFFICES ASSUME Init PROVE Promise!Init
    OBVIOUS
<1>1. 0 \in Slots
    BY CVlanAssumption DEF Slots
<1>2. PvNow = [p \in Ports |-> [vid |-> 1, pri |-> 0]]
    BY <1>1 DEF Init, InitMc, InitPvid, PvidOf, PvNow
<1>3. \A p \in Ports, t \in Protos : RuleOf(p, t) = {}
    BY DEF Init, RuleOf, GroupsWith, NoRule
<1>4. RlNow = [p \in Ports |-> [t \in Protos |-> {}]]
    BY <1>3 DEF RlNow
<1>5. GuestVlan = 1 /\ gvPorts = {}
    BY <1>1 DEF Init, InitMc, GuestVlan
<1> QED
    BY <1>2, <1>4, <1>5 DEF Promise!Init, Promise!Tag, PvNow, RlNow

LEMMA NextPromise ==
    ASSUME RuleDisciplined, PromiseInv, PromiseInv', [Call \/ CleanInit]_vars
    PROVE  [Promise!Next]_(Promise!cvars)
<1>0. RefsInv /\ RefsInv'
    BY DEF PromiseInv
<1>1. CASE TableCall
    BY <1>0, <1>1, TablePromise
<1>2. CASE PvidCall
    BY <1>2, PvidPromise DEF PvidCall, Promise!Next
<1>3. CASE ProtoCall
    BY <1>0, <1>3, AddPromise, DelPromise, DelAllPromise DEF ProtoCall, Call, Promise!Next
<1>4. CASE GuestCall
    BY <1>0, <1>4, GuestPromise
<1>5. CASE CleanInit
    BY <1>0, <1>5, RestartPromise DEF Promise!Next
<1>6. CASE UNCHANGED vars
    <2>1. SlotsFixed /\ UNCHANGED tables
        BY <1>6 DEF SlotsFixed, vars, tables
    <2>2. SamePvids /\ GuestVlan' = GuestVlan
        BY <1>0, <2>1, SamePvid, SameGuest DEF SamePvids, tables
    <2>3. SameRules
        BY <1>0, <2>1, SameRule DEF SameRules, RefsInv, RulePlaces, RulePlaceKept, tables
    <2> QED
        BY <2>1, <2>2, <2>3, Stutters DEF tables
<1> QED
    BY <1>1, <1>2, <1>3, <1>4, <1>5, <1>6 DEF Call

\* KeepsPromise: seen through rtk_vlan_portPvid_get, the rule getter and the
\* guest VLAN getter, the calls do what VlanClassify allows and nothing more,
\* for callers who pass neither VLAN 0 nor the pair (0, 0), keep the VLAN of a
\* slot they write by index, and initialise again only while nothing refers to
\* a slot.
THEOREM PromiseKept ==
    ASSUME RuleDisciplined
    PROVE  CleanSpec => KeepsPromise
<1>1. PromiseInv /\ [Call \/ CleanInit]_vars => PromiseInv'
    BY NextPromiseInv
<1>2. PromiseInv /\ PromiseInv' /\ [Call \/ CleanInit]_vars => [Promise!Next]_(Promise!cvars)
    BY NextPromise
<1> QED
    BY <1>1, <1>2, InitPromiseInv, InitPromise, PTL DEF CleanSpec, KeepsPromise, Promise!Spec

-----------------------------------------------------------------------------
(***************************************************************************)
(* Acl, for any number of rules, templates, slots and ports.               *)
(*                                                                         *)
(* The argument for VLANs: every pointer of the switch -- a PVID, a valid  *)
(* protocol rule, the guest VLAN, the action of a filter -- either points  *)
(* to a slot that holds a VLAN or is not relied upon (RefsLive), and no    *)
(* call but a replacement changes the VLAN of a slot that holds one        *)
(* (SlotKept).  Filters therefore neither move the VLANs of others nor     *)
(* have theirs moved.                                                      *)
(***************************************************************************)

\* Callers whose filters name no VLAN 0 either.
AclDisciplined == Disciplined /\ \A r \in Requests : r.a.vid # 0

\* The tables keep their shape, and actions refer to slots there are.
AclShape ==
    /\ DOMAIN acl = Rules /\ DOMAIN actn = Rules /\ DOMAIN inv = Rules
    /\ \A i \in Rules : actn[i].cvlan.type = "ingress" => actn[i].cvlan.idx \in Slots

AclInv == SlotInv /\ RefsLive /\ AclShape

-----------------------------------------------------------------------------
\* A slot filled for a filter holds an entry of its VLAN.
LEMMA CopyOfVid ==
    ASSUME TypeOK, NEW v \in Vids
    PROVE  CopyOf(v) \in McEntry /\ CopyOf(v).evid = v
<1>1. v \in EVids
    BY CVlanAssumption DEF Vids, EVids
<1>2. vlan4k[v] \in Entry4k
    BY DEF TypeOK
<1> QED
    BY <1>1, <1>2 DEF CopyOf, McEntry, Entry4k

\* What adding a filter does to the slots: nothing, or it fills an empty one
\* with a VLAN no other slot holds.
LEMMA AddFills ==
    ASSUME AclDisciplined, TypeOK, NEW id, NEW r \in Requests, CfgAdd(id, r.f, r.a)
    PROVE  /\ UNCHANGED <<vlan4k, pvid, group, rule, gvidx, gvPorts, filter, tagMode>>
           /\ \/ UNCHANGED mc
              \/ \E s \in Slots, v \in Vids :
                    /\ v # 0 /\ SlotsWith(v) = {} /\ s \in EmptySlots
                    /\ LoadMc(s, v)
<1> DEFINE a == r.a
<1>1. a.vid # NoVid => a.vid \in Nat /\ a.vid # 0
    BY AclAssumption DEF ActionCfg, AclDisciplined
<1>2. CASE UNCHANGED tables
    BY <1>2 DEF tables
<1>3. CASE /\ ~NoRoom(a)
           /\ \E s \in Slots : a.vid # NoVid /\ FindSlot(s, a.vid)
           /\ UNCHANGED <<vlan4k, pvid, group, rule, gvidx, gvPorts, filter, tagMode>>
    <2>1. a.vid \in Vids /\ a.vid # 0
        BY <1>1, <1>3, CVlanAssumption DEF NoRoom, Vids
    <2>2. PICK s \in Slots : FindSlot(s, a.vid)
        BY <1>3
    <2>3. \/ UNCHANGED mc
          \/ SlotsWith(a.vid) = {} /\ s \in EmptySlots /\ LoadMc(s, a.vid)
        BY <2>2 DEF FindSlot, Lowest, AclEmpty, EmptySlots
    <2> QED
        BY <1>3, <2>1, <2>3
<1>4. CASE UNCHANGED <<mc, vlan4k, pvid, group, rule, gvidx, gvPorts, filter, tagMode>>
    BY <1>4
<1> QED
    BY <1>2, <1>3, <1>4 DEF CfgAdd, RefuseAcl

\* A call about filters other than an add touches none of the VLAN tables.
LEMMA AclCallFills ==
    ASSUME AclDisciplined, TypeOK, AclCall
    PROVE  /\ UNCHANGED <<vlan4k, pvid, group, rule, gvidx, gvPorts, filter, tagMode>>
           /\ \/ UNCHANGED mc
              \/ \E s \in Slots, v \in Vids :
                    /\ v # 0 /\ SlotsWith(v) = {} /\ s \in EmptySlots
                    /\ LoadMc(s, v)
<1>1. ASSUME NEW id, NEW r \in Requests, CfgAdd(id, r.f, r.a)
      PROVE  /\ UNCHANGED <<vlan4k, pvid, group, rule, gvidx, gvPorts, filter, tagMode>>
             /\ \/ UNCHANGED mc
                \/ \E s \in Slots, v \in Vids :
                      /\ v # 0 /\ SlotsWith(v) = {} /\ s \in EmptySlots
                      /\ LoadMc(s, v)
    BY <1>1, AddFills
<1>2. ASSUME NEW id, CfgDel(id) PROVE UNCHANGED tables
    BY <1>2 DEF CfgDel
<1>3. ASSUME CfgDelAll PROVE UNCHANGED tables
    BY <1>3 DEF CfgDelAll
<1> QED
    BY <1>1, <1>2, <1>3 DEF AclCall, tables

LEMMA AclCallRet == AclCall => ret' \in Results
BY DEF AclCall, CfgAdd, CfgDel, CfgDelAll, RefuseAcl, Return, Results

-----------------------------------------------------------------------------
\* A call about filters changes the VLAN of no slot that holds one: it never
\* replaces.
LEMMA AclSlotKept ==
    ASSUME AclDisciplined, TypeOK, AclCall, NEW s \in Slots, mc[s].evid # 0
    PROVE  mc'[s].evid = mc[s].evid
<1>1. s \notin EmptySlots /\ mc \in [Slots -> McEntry]
    BY DEF EmptySlots, TypeOK
<1>2. UNCHANGED mc \/ \E i \in EmptySlots, v \in Vids : LoadMc(i, v)
    BY AclCallFills
<1> QED
    BY <1>1, <1>2 DEF LoadMc

-----------------------------------------------------------------------------
\* The invariant of the VLAN tables survives calls about filters: they fill
\* empty slots as the other calls do.
LEMMA AclKeepsSlotInv ==
    ASSUME AclDisciplined, SlotInv, AclCall
    PROVE  SlotInv'
<1>0. TypeOK
    BY DEF SlotInv
<1>1. UNCHANGED <<vlan4k, pvid, group, rule, gvidx, gvPorts, filter, tagMode>>
    BY <1>0, AclCallFills
<1>2. CASE UNCHANGED mc
    <2>1. TypeOK'
        BY <1>0, <1>1, <1>2, AclCallRet DEF TypeOK
    <2> QED
        BY <1>1, <1>2, <2>1, FrameInv
<1>3. ASSUME NEW s \in Slots, NEW v \in Vids, v # 0, SlotsWith(v) = {}, s \in EmptySlots,
             LoadMc(s, v)
      PROVE  SlotInv'
    <2>1. CopyOf(v) \in McEntry /\ CopyOf(v).evid = v
        BY <1>0, CopyOfVid
    <2>2. mc' = [mc EXCEPT ![s] = CopyOf(v)] /\ mc' \in [Slots -> McEntry]
        BY <1>0, <1>3, <2>1 DEF LoadMc, TypeOK
    <2>3. TypeOK'
        BY <1>0, <1>1, <2>2, AclCallRet DEF TypeOK
    <2>4. \A q \in Ports : pvid[q].idx # s
        BY <1>3, EmptyNotPvid
    <2> QED
        BY <1>1, <1>3, <2>1, <2>2, <2>3, <2>4, FillSlotInv
<1> QED
    BY <1>0, <1>2, <1>3, AclCallFills

\* Pointers stay live when filters fill slots.
LEMMA AclKeepsRefs ==
    ASSUME AclDisciplined, SlotInv, RefsLive, AclCall
    PROVE  RefsLive'
<1>0. TypeOK
    BY DEF SlotInv
<1>1. UNCHANGED <<pvid, rule, gvidx>>
    BY <1>0, AclCallFills
<1>2. \A s \in Slots : mc[s].evid # 0 => mc'[s].evid # 0
    BY <1>0, AclSlotKept
<1> QED
    BY <1>0, <1>1, <1>2 DEF RefsLive, PvidSlotLive, TypeOK, PvidReg, RuleReg

\* Rules are written whole, and an action that uses a slot is given one.
LEMMA AclKeepsShape ==
    ASSUME AclShape, AclCall
    PROVE  AclShape'
<1>1. CASE UNCHANGED aclTables
    BY <1>1 DEF aclTables, AclShape
<1>2. ASSUME NEW id, NEW r \in Requests, CfgAdd(id, r.f, r.a) PROVE AclShape'
    <2> DEFINE a == r.a
    <2>0. a \in ActionCfg
        BY AclAssumption
    <2>1. ASSUME NEW s \in Slots, ~NoRoom(a), Accepted(a), WriteRules(id, r.f, a, s)
          PROVE  AclShape'
        <3>1. HeadAct(a, s).cvlan.type = "ingress" => HeadAct(a, s).cvlan.idx \in Slots
            <4>1. CvlanOf(a, s).type = "ingress" => CvlanOf(a, s).idx \in Slots
                BY <2>0, <2>1, CVlanAssumption
                DEF CvlanOf, Accepted, NoRoom, ActionCfg, CvlanAct, NoCvlan, Slots
            <4> QED
                BY <4>1 DEF HeadAct
        <3>2. TailAct.cvlan.idx \in Slots
            BY CVlanAssumption DEF TailAct, NoCvlan, Slots
        <3> QED
            BY <2>1, <3>1, <3>2 DEF WriteRules, AclShape
    <2> QED
        BY <1>1, <1>2, <2>1 DEF CfgAdd, RefuseAcl
<1>3. InitAct.cvlan.idx \in Slots
    BY CVlanAssumption DEF InitAct, NoCvlan, Slots
<1>4. ASSUME NEW id, CfgDel(id) PROVE AclShape'
    BY <1>1, <1>3, <1>4 DEF CfgDel, AclShape
<1>5. ASSUME CfgDelAll PROVE AclShape'
    BY <1>3, <1>5 DEF CfgDelAll, AclShape
<1> QED
    BY <1>2, <1>4, <1>5 DEF AclCall

LEMMA AclInitInv == AclInit => AclInv
<1> SUFFICES ASSUME AclInit PROVE AclInv
    OBVIOUS
<1>1. SlotInv
    BY InitTypeOK, InitSlots DEF AclInit, Init
<1>2. 0 \in Slots
    BY CVlanAssumption DEF Slots
<1>3. RefsLive
    BY <1>1, <1>2 DEF AclInit, Init, RefsLive, SlotInv, InitMc, NoRule
<1>4. AclShape
    BY <1>2 DEF AclInit, AclShape, InitAct, NoCvlan
<1> QED
    BY <1>1, <1>3, <1>4 DEF AclInv

LEMMA AclNextInv ==
    AclDisciplined /\ AclInv /\ [AclCall \/ VlanCall]_aclVars => AclInv'
<1> SUFFICES ASSUME AclDisciplined, AclInv, [AclCall \/ VlanCall]_aclVars PROVE AclInv'
    OBVIOUS
<1>1. CASE AclCall
    BY <1>1, AclKeepsSlotInv, AclKeepsRefs, AclKeepsShape DEF AclInv
<1>2. CASE VlanCall
    <2>1. SlotInv'
        BY <1>2, NextSlotInv DEF VlanCall, Next, AclInv, AclDisciplined
    <2>2. RefsLive'
        BY <1>2, <2>1, CallRefsLive DEF VlanCall, AclInv, AclDisciplined
    <2>3. AclShape'
        BY <1>2 DEF VlanCall, aclTables, AclShape, AclInv
    <2> QED
        BY <2>1, <2>2, <2>3 DEF AclInv
<1>3. CASE UNCHANGED aclVars
    <2>1. UNCHANGED vars
        BY <1>3 DEF aclVars
    <2>2. SlotInv'
        BY <2>1, NextSlotInv DEF AclInv, AclDisciplined
    <2>3. RefsLive' /\ AclShape'
        BY <1>3 DEF aclVars, vars, AclInv, RefsLive, PvidSlotLive, AclShape
    <2> QED
        BY <2>2, <2>3 DEF AclInv
<1> QED
    BY <1>1, <1>2, <1>3

-----------------------------------------------------------------------------
\* For disciplined callers the calls about filters leave the slots as sound as
\* the VLAN calls alone do: rtk_filter_igrAcl_cfg_add never leaves a PVID on a
\* slot that counts as empty, and never gives a VLAN a second slot.
THEOREM AclSlotsSafe ==
    ASSUME AclDisciplined
    PROVE  AclSpec => [](PvidSlotLive /\ OneSlotPerVid)
<1>1. AclInv => PvidSlotLive /\ OneSlotPerVid
    BY DEF AclInv, SlotInv
<1> QED
    BY <1>1, AclInitInv, AclNextInv, PTL DEF AclSpec

\* A rule changes only by the calls that name it: rtk_filter_igrAcl_cfg_add
\* looks for room at every place it writes, whatever the number of templates
\* and of rules.
LEMMA CallKeepsFilters ==
    ASSUME AclShape, NEW i \in Rules, acl[i].valid, AclCall \/ VlanCall \/ UNCHANGED aclVars
    PROVE  \/ acl'[i] = acl[i] /\ actn'[i] = actn[i] /\ inv'[i] = inv[i]
           \/ CfgDel(i) \/ CfgDelAll
<1>1. CASE UNCHANGED aclTables
    BY <1>1 DEF aclTables
<1>2. ASSUME NEW id, NEW r \in Requests, CfgAdd(id, r.f, r.a)
      PROVE  acl'[i] = acl[i] /\ actn'[i] = actn[i] /\ inv'[i] = inv[i]
    <2>1. ASSUME NEW s, Free(id, r.f), WriteRules(id, r.f, r.a, s)
          PROVE  acl'[i] = acl[i] /\ actn'[i] = actn[i] /\ inv'[i] = inv[i]
        <3>1. i \notin Places(id, r.f)
            BY <2>1 DEF Free
        <3> QED
            BY <2>1, <3>1 DEF WriteRules
    <2> QED
        BY <1>2, <2>1 DEF CfgAdd, RefuseAcl, aclTables
<1>3. ASSUME NEW id \in 0 .. ACLRULEMAX + 1, CfgDel(id)
      PROVE  \/ acl'[i] = acl[i] /\ actn'[i] = actn[i] /\ inv'[i] = inv[i]
             \/ CfgDel(i)
    <2>1. CASE id = i
        BY <1>3, <2>1
    <2>2. CASE id # i
        BY <1>3, <2>2 DEF CfgDel, AclShape, aclTables
    <2> QED
        BY <2>1, <2>2
<1>4. VlanCall \/ UNCHANGED aclVars => UNCHANGED aclTables
    BY DEF VlanCall, aclVars, aclTables
<1> QED
    BY <1>1, <1>2, <1>3, <1>4 DEF AclCall

\* The tables keep their shape whoever calls, disciplined or not.
LEMMA NextShape == AclShape /\ [AclCall \/ VlanCall]_aclVars => AclShape'
<1>1. AclShape /\ UNCHANGED aclTables => AclShape'
    BY DEF aclTables, AclShape
<1>2. VlanCall \/ UNCHANGED aclVars => UNCHANGED aclTables
    BY DEF VlanCall, aclVars, aclTables
<1> QED
    BY <1>1, <1>2, AclKeepsShape

\* For any callers: no filter is ever damaged by adding or deleting another.
THEOREM FiltersAreKept == AclSpec => FiltersKept
<1> DEFINE Kept ==
        \A i \in Rules :
            acl[i].valid =>
                \/ acl'[i] = acl[i] /\ actn'[i] = actn[i] /\ inv'[i] = inv[i]
                \/ CfgDel(i) \/ CfgDelAll
<1>1. AclInit => AclShape
    BY AclInitInv DEF AclInv
<1>2. AclShape /\ [AclCall \/ VlanCall]_aclVars => [Kept]_aclVars
    BY CallKeepsFilters
<1>3. AclShape /\ [AclCall \/ VlanCall]_aclVars => AclShape'
    BY NextShape
<1> QED
    BY <1>1, <1>2, <1>3, PTL DEF AclSpec, FiltersKept

-----------------------------------------------------------------------------
\* The VLAN of a filter's action moves only when a replacement takes its slot.
LEMMA FilterVlanKept ==
    ASSUME AclDisciplined, AclInv, AclCall \/ VlanCall, NEW i \in Rules,
           NEW v \in FilterVlan(i), v # 0, acl'[i] = acl[i], actn'[i] = actn[i]
    PROVE  v \in FilterVlan(i)' \/ Replacement
<1>1. UsesSlot(i) /\ v = mc[actn[i].cvlan.idx].evid
    BY DEF FilterVlan
<1>2. actn[i].cvlan.idx \in Slots
    BY <1>1 DEF UsesSlot, AclInv, AclShape
<1>3. mc'[actn[i].cvlan.idx].evid = v \/ Replacement
    BY <1>1, <1>2, SlotKept, AclSlotKept DEF AclInv, SlotInv, VlanCall, AclDisciplined, Replacement
<1> QED
    BY <1>1, <1>3 DEF FilterVlan, UsesSlot

\* A call about filters changes the VLAN of no port, protocol rule or guest.
LEMMA OthersKept ==
    ASSUME AclDisciplined, AclInv, AclCall
    PROVE  /\ \A p \in Ports : PvidOf(p)' = PvidOf(p)
           /\ \A p \in Ports, t \in Protos : RuleOf(p, t)' = RuleOf(p, t)
           /\ GuestVlan' = GuestVlan
<1>0. TypeOK
    BY DEF AclInv, SlotInv
<1>1. UNCHANGED <<pvid, group, rule, gvidx>>
    BY <1>0, AclCallFills
<1>2. \A s \in Slots : mc[s].evid # 0 => mc'[s].evid = mc[s].evid
    BY <1>0, AclSlotKept
<1>3. \A p \in Ports : pvid[p].idx \in Slots /\ mc[pvid[p].idx].evid # 0
    BY <1>0 DEF AclInv, RefsLive, PvidSlotLive, TypeOK, PvidReg
<1>4. \A p \in Ports : PvidOf(p)' = PvidOf(p)
    BY <1>1, <1>2, <1>3 DEF PvidOf
<1>5. GuestVlan' = GuestVlan
    BY <1>0, <1>1, <1>2 DEF AclInv, RefsLive, GuestVlan, TypeOK
<1>6. \A p \in Ports, g \in Groups :
          rule[p][g].valid => mc'[rule[p][g].idx].evid = mc[rule[p][g].idx].evid
    BY <1>0, <1>2 DEF AclInv, RefsLive, TypeOK, RuleReg
<1>7. \A p \in Ports, t \in Protos : RuleOf(p, t)' = RuleOf(p, t)
    BY <1>1, <1>6, SMTT(40) DEF RuleOf, GroupsWith
<1> QED
    BY <1>4, <1>5, <1>7

\* For disciplined callers filters and the other users of the slots do not
\* move each other's VLANs, but for the replacement by rtk_vlan_portPvid_set.
THEOREM VlansAreKept ==
    ASSUME AclDisciplined
    PROVE  AclSpec => VlansKept
<1> DEFINE Kept ==
        /\ \A i \in Rules : \A v \in FilterVlan(i) :
             v # 0 /\ acl'[i] = acl[i] /\ actn'[i] = actn[i] =>
                 v \in FilterVlan(i)' \/ Replacement
        /\ AclCall =>
             /\ \A p \in Ports : PvidOf(p)' = PvidOf(p)
             /\ \A p \in Ports, t \in Protos : RuleOf(p, t)' = RuleOf(p, t)
             /\ gvPorts # {} => GuestVlan' = GuestVlan
<1>1. AclInv /\ [AclCall \/ VlanCall]_aclVars => [Kept]_aclVars
    BY FilterVlanKept, OthersKept
<1> QED
    BY <1>1, AclInitInv, AclNextInv, PTL DEF AclSpec, VlansKept

=============================================================================
