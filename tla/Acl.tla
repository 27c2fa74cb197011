-------------------------------- MODULE Acl --------------------------------
(***************************************************************************)
(* The access control lists of the driver, on the switch of CVlan: a       *)
(* filter is written as one rule per template its fields need, at          *)
(* consecutive places from filter_id on, and only the first of them gets   *)
(* the filter's action.  An action may name a VLAN, which takes or fills   *)
(* one of the member configurations (slots) that PVIDs, protocol rules     *)
(* and the guest VLAN share.                                               *)
(*                                                                         *)
(* Data left out: the values and masks of the fields and of the basic care *)
(* tags, and the arguments of the actions other than the customer VLAN.    *)
(***************************************************************************)
EXTENDS CVlan

CONSTANTS
    ACLRULEMAX,     \* last rule: RTL8367B_ACLRULEMAX
    TEMPLATEMAX,    \* last template: RTL8367B_ACLTEMPLATENO - 1
    TagTemplates,   \* the templates with a field for the advanced care tags
    OtherActs,      \* the kinds of action other than the customer VLAN's
    Requests,       \* the filters callers pass, each with its action
    NoVid, NoIdx,   \* an action that names no VLAN, no slot
    NoLate          \* an action without one of the later customer VLAN kinds

Rules     == 0 .. ACLRULEMAX
Templates == 0 .. TEMPLATEMAX
ActKinds  == OtherActs \cup {"cvlan"}

\* on: the templates of its fields; adv: it asks for an advanced care tag;
\* range: the ports it matches were given as a range, one port or none;
\* good: its ports and its inversion are within their ranges.
FilterCfg == [on : SUBSET Templates, adv : BOOLEAN, range : BOOLEAN,
              ports : SUBSET Ports, good : BOOLEAN, invert : BOOLEAN]

\* The customer VLAN part of an action register.  The index of an "svid"
\* action, which nothing reads, is left out.
CvlanAct == [type : {"ingress", "egress", "svid", "policing"}, idx : Nat]

\* idx and vid: the customer VLAN actions read first, in this order; late: the
\* last one of the kinds read after them; good: the arguments of all other
\* actions are accepted (a meter in range, an SVLAN that has a member
\* configuration, ...).
ActionCfg == [idx : Nat \cup {NoIdx}, vid : Nat \cup {NoVid},
              late : CvlanAct \cup {NoLate}, rest : SUBSET OtherActs, good : BOOLEAN]

ASSUME AclAssumption ==
    /\ ACLRULEMAX \in Nat /\ TEMPLATEMAX \in Nat
    /\ TagTemplates \subseteq Templates /\ TagTemplates # {}
    /\ "cvlan" \notin OtherActs
    /\ \A r \in Requests : r.f \in FilterCfg /\ r.a \in ActionCfg

VARIABLES
    acl,        \* the ACL rules
    actn,       \* per rule: the enabled kinds of action, its customer VLAN part
    inv         \* per rule: whether its comparison is inverted

aclTables == <<acl, actn, inv>>
aclVars   == <<vars, acl, actn, inv>>

NoCvlan == [type |-> "ingress", idx |-> 0]      \* the register, all zeros
NoFilter == [valid |-> FALSE, tpl |-> 0, tags |-> FALSE, ports |-> Ports]
InitAct  == [kinds |-> ActKinds, cvlan |-> NoCvlan]   \* FILTER_ENACT_INIT_MASK
TailAct  == [kinds |-> {}, cvlan |-> NoCvlan]

(***************************************************************************)
(* A filter as rules: one for each template of its fields, and one more    *)
(* for the advanced care tags when none of those has a place for them.     *)
(***************************************************************************)
TagPlaces(f) ==
    IF f.on \cap TagTemplates # {} THEN f.on \cap TagTemplates ELSE TagTemplates
CarriesTags(f, t) == f.adv /\ Lowest(t, TagPlaces(f))
TemplatesOf(f) == f.on \cup {t \in Templates : CarriesTags(f, t)}
RuleNum(f) == Cardinality(TemplatesOf(f))

\* A range of ports is written to the rule of template 0 only; a rule whose
\* port field compares nothing matches every port.
PortsOf(f, t) == IF f.range /\ t # 0 THEN Ports ELSE f.ports
RuleFor(f, t) ==
    [valid |-> TRUE, tpl |-> t, tags |-> CarriesTags(f, t), ports |-> PortsOf(f, t)]

\* The template whose rule comes after k others.
TemplateAt(f, k) ==
    CHOOSE t \in TemplatesOf(f) : Cardinality({u \in TemplatesOf(f) : u < t}) = k
Places(id, f) == {i \in Rules : id <= i /\ i < id + RuleNum(f)}

\* filter_id and the number of rules are unsigned: the last place of a filter
\* without a rule is that before its first, and none is before place 0.
OutOfRange(id, f) ==
    \/ id > ACLRULEMAX
    \/ id + RuleNum(f) > ACLRULEMAX + 1
    \/ id = 0 /\ RuleNum(f) = 0

-----------------------------------------------------------------------------
(***************************************************************************)
(* rtk_filter_igrAcl_cfg_add.  The slot of the action's VLAN is found or   *)
(* filled first; a failure after that leaves it filled.                    *)
(***************************************************************************)
AclEmpty_NoVid == {i \in Slots : mc[i].mbr = {}}
AclEmpty == {i \in Slots : mc[i].mbr = {} /\ mc[i].evid = 0}

\* i is the slot the action's VLAN gets.
FindSlot(i, v) ==
    \/ Lowest(i, SlotsWith(v)) /\ UNCHANGED mc
    \/ /\ SlotsWith(v) = {}
       /\ Lowest(i, AclEmpty)
       /\ vlan4k[v].mbr # {}
       /\ LoadMc(i, v)

\* The actions refused before anything is written: a slot or a VLAN out of
\* range, no slot left for the VLAN, or a VLAN without members to fill one.
Unlabelled(a) == a.vid # NoVid /\ a.vid <= VIDMAX /\ SlotsWith(a.vid) = {}
NoRoom(a) ==
    \/ a.idx # NoIdx /\ a.idx > CVIDXMAX
    \/ a.vid # NoVid /\ a.vid > VIDMAX
    \/ Unlabelled(a) /\ AclEmpty = {}
NoMembers(a) == ~NoRoom(a) /\ Unlabelled(a) /\ vlan4k[a.vid].mbr = {}

\* What is checked after the slot of the VLAN was found or filled.
Accepted(a) ==
    /\ a.good
    /\ a.late # NoLate /\ a.late.type \in {"ingress", "egress"} => a.late.idx <= CVIDXMAX

\* The action register of the filter's first rule; later kinds replace earlier
\* ones.  s is the slot of the VLAN.
CvlanOf(a, s) ==
    IF a.late # NoLate THEN a.late
    ELSE IF a.vid # NoVid THEN [type |-> "ingress", idx |-> s]
    ELSE IF a.idx # NoIdx THEN [type |-> "ingress", idx |-> a.idx] ELSE NoCvlan
KindsOf(a) ==
    a.rest \cup IF a.late = NoLate /\ a.vid = NoVid /\ a.idx = NoIdx THEN {} ELSE {"cvlan"}
HeadAct(a, s) == [kinds |-> KindsOf(a), cvlan |-> CvlanOf(a, s)]

Free_First(id, f) == ~acl[id].valid
Free(id, f) == \A i \in Places(id, f) : ~acl[i].valid

WriteRules(id, f, a, s) ==
    /\ acl' = [i \in Rules |->
                 IF i \in Places(id, f) THEN RuleFor(f, TemplateAt(f, i - id)) ELSE acl[i]]
    /\ actn' = [i \in Rules |->
                  IF i \notin Places(id, f) THEN actn[i]
                  ELSE IF i = id THEN HeadAct(a, s) ELSE TailAct]
    /\ inv' = [i \in Rules |-> IF i \in Places(id, f) THEN f.invert ELSE inv[i]]

RefuseAcl(r) == Return(r) /\ UNCHANGED <<tables, aclTables>>

CfgAdd(id, f, a) ==
    \/ OutOfRange(id, f) /\ RefuseAcl("entry")
    \/ /\ ~OutOfRange(id, f)
       /\ ~f.good \/ NoRoom(a)
       /\ RefuseAcl("input")
    \/ /\ ~OutOfRange(id, f) /\ f.good
       /\ NoMembers(a)
       /\ RefuseAcl("empty")
    \/ \E s \in Slots :
       /\ ~OutOfRange(id, f) /\ f.good
       /\ ~NoRoom(a) /\ ~NoMembers(a)
       /\ \/ a.vid # NoVid /\ FindSlot(s, a.vid)
          \/ a.vid = NoVid /\ s = 0 /\ UNCHANGED mc
       /\ \/ ~Accepted(a) /\ Return("input") /\ UNCHANGED aclTables
          \/ Accepted(a) /\ ~Free(id, f) /\ Return("full") /\ UNCHANGED aclTables
          \/ Accepted(a) /\ Free(id, f) /\ WriteRules(id, f, a, s) /\ Return("ok")
       /\ UNCHANGED <<vlan4k, pvid, group, rule, gvidx, gvPorts, filter, tagMode>>

\* rtk_filter_igrAcl_cfg_del: the one rule at id, but not its inversion.
CfgDel(id) ==
    \/ /\ id > ACLRULEMAX
       /\ Return("entry")
       /\ UNCHANGED <<tables, aclTables>>
    \/ /\ id <= ACLRULEMAX
       /\ acl' = [acl EXCEPT ![id] = NoFilter]
       /\ actn' = [actn EXCEPT ![id] = InitAct]
       /\ Return("ok")
       /\ UNCHANGED <<tables, inv>>

\* rtk_filter_igrAcl_cfg_delAll, which is also what rtk_filter_igrAcl_init
\* does to the rules.
CfgDelAll ==
    /\ acl' = [i \in Rules |-> NoFilter]
    /\ actn' = [i \in Rules |-> InitAct]
    /\ Return("ok")
    /\ UNCHANGED <<tables, inv>>

\* rtk_filter_igrAcl_cfg_get: the VLAN of the ingress action of rule i, as a
\* set, empty where the rule has none.
UsesSlot(i) ==
    acl[i].valid /\ "cvlan" \in actn[i].kinds /\ actn[i].cvlan.type = "ingress"
FilterVlan(i) == IF UsesSlot(i) THEN {mc[actn[i].cvlan.idx].evid} ELSE {}

-----------------------------------------------------------------------------
AclInit ==
    /\ Init
    /\ acl = [i \in Rules |-> NoFilter]
    /\ actn = [i \in Rules |-> InitAct]
    /\ inv = [i \in Rules |-> FALSE]

AclCall ==
    \/ \E id \in 0 .. ACLRULEMAX + 1, r \in Requests : CfgAdd(id, r.f, r.a)
    \/ \E id \in 0 .. ACLRULEMAX + 1 : CfgDel(id)
    \/ CfgDelAll

VlanCall == Call /\ UNCHANGED aclTables

AclSpec == AclInit /\ [][AclCall \/ VlanCall]_aclVars

-----------------------------------------------------------------------------
(***************************************************************************)
(* Properties.                                                             *)
(***************************************************************************)

\* A filter is never damaged by another: the rules written for it change only
\* by a delete that names them or by the delete of all.  The room that
\* rtk_filter_igrAcl_cfg_add looks at must be the room it writes, whatever
\* templates the fields and care tags need.
FiltersKept ==
    [][\A i \in Rules :
          acl[i].valid =>
              \/ acl'[i] = acl[i] /\ actn'[i] = actn[i] /\ inv'[i] = inv[i]
              \/ CfgDel(i) \/ CfgDelAll]_aclVars

\* (A) Filters and the other users of the slots do not move each other's
\* VLANs: the VLAN of a rule's action, of a port's PVID or protocol rule or of
\* a guest VLAN in use is never changed to another by a call about something
\* else, except by rtk_vlan_portPvid_set replacing a slot, which looks neither
\* at filters nor at other ports' protocol rules.
Replacement == \E p \in Ports, v \in CallVids, pr \in Prios : PvidReplace(p, v, pr)
VlansKept ==
    [][/\ \A i \in Rules : \A v \in FilterVlan(i) :
             v # 0 /\ acl'[i] = acl[i] /\ actn'[i] = actn[i] =>
                 v \in FilterVlan(i)' \/ Replacement
       /\ AclCall =>
             /\ \A p \in Ports : PvidOf(p)' = PvidOf(p)
             /\ \A p \in Ports, t \in Protos : RuleOf(p, t)' = RuleOf(p, t)
             /\ gvPorts # {} => GuestVlan' = GuestVlan]_aclVars

(***************************************************************************)
(* A statement of the source that the code does not keep.                  *)
(***************************************************************************)

\* The rules that belong to the filter at id: those after it, up to the next
\* one that is free or has an action (callers pass none without).
GroupAt(id) ==
    {i \in Rules : id <= i /\ \A k \in id + 1 .. i : acl[k].valid /\ actn[k].kinds = {}}

\* "This function delete a group of ACL rules starting from filter_id": after
\* rtk_filter_igrAcl_cfg_del no rule of the filter is left.
DeletesGroup ==
    [][\A id \in Rules :
          CfgDel(id) /\ acl[id].valid => \A i \in GroupAt(id) : ~acl'[i].valid]_aclVars

=============================================================================
