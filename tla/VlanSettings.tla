---------------------------- MODULE VlanSettings ----------------------------
(***************************************************************************)
(* VLANs, service VLANs, spanning trees and access lists, but for their    *)
(* tables (CVlan, Svlan and Acl have those): where the drivers keep them   *)
(* and what the rtk_vlan_*, rtk_svlan_*, rtk_stp_* and rtk_filter_* calls  *)
(* put there.                                                              *)
(***************************************************************************)
EXTENDS RegMap

CONSTANTS PpbItem, Msti, Range, Template, Rule

ASSUME VlanIndexAssumption ==
  /\ PpbItem \subseteq 0 .. 3
  /\ Msti \subseteq 0 .. 15
  /\ Range \subseteq 0 .. 15
  /\ Template \subseteq 0 .. 4
  /\ Rule \subseteq 0 .. 63

-----------------------------------------------------------------------------
(* Settings of the drivers: VLANs and spanning trees.                      *)

AsicVlanIngressFilter(port) == <<Flag(Reg(VLAN_INGRESS, 0), port)>>
AsicVlanAccpetFrameType(port) == <<Field(Reg(VLAN_ACCEPT_FRAME_TYPE_CTRL0, 0), 2 * port, 2)>>
AsicVlanEgressTagMode(port) == <<Field(Reg(PORT0_MISC_CFG, port), 4, 2)>>
AsicVlanTransparent == <<Flag(Reg(VLAN_TRANSPARENT_EN_CFG, 0), 0)>>
AsicVlanEgressKeep(port) == Packed(VLAN_EGRESS_KEEP_CTRL0, 2, 8, 8, port)
AsicVlanFilter == <<Flag(Reg(VLAN_CTRL, 0), 0)>>
AsicVlanUntagDscpPriorityEn == <<Flag(Reg(UNTAG_DSCP_PRI_CFG, 0), 0)>>
AsicPortBasedFidEn(port) == <<Flag(Reg(PORT_PBFIDEN, 0), port)>>
AsicPortBasedFid(port) == <<Word(Reg(PORT0_PBFID, port))>>

PvidSlot(port) == Packed(VLAN_PVID_CTRL0, 2, 8, 5, port)
PvidPriority(port) == Packed(VLAN_PORTBASED_PRIORITY_CTRL0, 4, 4, 3, port)
AsicVlanPortBasedVID(port, index, pri) == <<To(PvidSlot(port), index), To(PvidPriority(port), pri)>>

(* Three ports to a register for the slots, four for the priorities; the   *)
(* last register of slots has room for the frame type.                     *)
PpbSlot(port, item) ==
  <<Field(Reg(<<VLAN_PPB0_CTRL0, VLAN_PPB0_CTRL1, VLAN_PPB0_CTRL2>>[1 + (port \div 3)], item), 5 * (port % 3), 5)>>
PpbPriority(port, item) ==
  <<Field(Reg(<<VLAN_PPB_PRIORITY_ITEM0_CTRL0, VLAN_PPB_PRIORITY_ITEM0_CTRL1>>[1 + (port \div 4)], item), 4 * (port % 4), 3)>>
PpbValid(port, item) == <<Flag(Reg(VLAN_PPB0_VALID, item), port)>>
AsicVlanPortAndProtocolBased(port, item, valid, index, pri) ==
  <<To(PpbValid(port, item), valid), To(PpbSlot(port, item), index), To(PpbPriority(port, item), pri)>>

AsicVlanProtocolBasedGroupData(item, frameType, etherType) ==
  <<To(<<Field(Reg(VLAN_PPB0_CTRL2, item), 10, 2)>>, frameType), To(<<Word(Reg(VLAN_PPB0_CTRL3, item))>>, etherType)>>

AsicSpanningTreeStatus(port, msti) == <<Field(Reg(VLAN_MSTI0_CTRL0, msti), 2 * port, 2)>>

-----------------------------------------------------------------------------
(* Settings of the drivers: service VLANs.                                 *)

AsicSvlanUplinkPort(port) == <<Flag(Reg(SVLAN_UPLINK_PORTMASK, 0), port)>>
AsicSvlanTpid == <<Word(Reg(VS_TPID, 0))>>
AsicSvlanPrioritySel == <<Field(Reg(SVLAN_CFG, 0), 0, 2)>>
AsicSvlanIngressUntag == <<Field(Reg(SVLAN_CFG, 0), 2, 2)>>
AsicSvlanIngressUnmatch == <<Field(Reg(SVLAN_CFG, 0), 4, 2)>>
AsicSvlanEgressUnassign == <<Flag(Reg(SVLAN_CFG, 0), 6)>>
AsicSvlanDmacCvidSel(port) == <<Flag(Reg(SVLAN_CFG, 0), 7 + port)>>
AsicSvlanTrapPriority == <<Field(Reg(QOS_TRAP_PRIORITY0, 0), 8, 3)>>
AsicSvlanDefaultVlan(port) == Packed(SVLAN_PORTBASED_SVIDX_CTRL0, 2, 8, 6, port)
AsicSvlanUntagVlan == <<Field(Reg(SVLAN_UNTAG_UNMAT_CFG, 0), 8, 6)>>
AsicSvlanUnmatchVlan == <<Field(Reg(SVLAN_UNTAG_UNMAT_CFG, 0), 0, 6)>>

-----------------------------------------------------------------------------
(* Settings of the drivers: access lists.                                  *)

AsicAcl(port) == <<Flag(Reg(ACL_ENABLE, 0), port)>>
AsicAclUnmatchedPermit(port) == <<Flag(Reg(ACL_UNMATCH_PERMIT, 0), port)>>

(* Two rules to a register. *)
AsicAclNot(rule) == <<Flag(Reg(ACL_ACTION_CTRL0, rule \div 2), 6 + 8 * (rule % 2))>>
AsicAclActCtrl(rule) == Packed(ACL_ACTION_CTRL0, 2, 8, 6, rule)

AsicAclTemplate(index) ==
  <<Word(Reg(ACL_RULE_TEMPLATE0_CTRL0, index)), From(16, Word(Reg(ACL_RULE_TEMPLATE0_CTRL1, index))),
    From(32, Word(Reg(ACL_RULE_TEMPLATE0_CTRL2, index))), From(48, Word(Reg(ACL_RULE_TEMPLATE0_CTRL3, index)))>>

(* The ends of a range and, above them, which field it is about. *)
AsicAclPortRange(index) ==
  <<From(32, Field(Reg(ACL_SDPORT_RANGE_ENTRY0_CTRL2, index), 0, 2)),
    From(16, Word(Reg(ACL_SDPORT_RANGE_ENTRY0_CTRL1, index))), Word(Reg(ACL_SDPORT_RANGE_ENTRY0_CTRL0, index))>>
AsicAclVidRange(index) ==
  <<From(16, Word(Reg(ACL_VID_RANGE_ENTRY0_CTRL1, index))), Word(Reg(ACL_VID_RANGE_ENTRY0_CTRL0, index))>>
AsicAclIpRange(index) ==
  <<From(64, Field(Reg(ACL_IP_RANGE_ENTRY0_CTRL4, index), 0, 3)),
    From(32, Word(Reg(ACL_IP_RANGE_ENTRY0_CTRL2, index))), From(48, Word(Reg(ACL_IP_RANGE_ENTRY0_CTRL3, index))),
    Word(Reg(ACL_IP_RANGE_ENTRY0_CTRL0, index)), From(16, Word(Reg(ACL_IP_RANGE_ENTRY0_CTRL1, index)))>>

AsicAclGpioPolarity == <<Flag(Reg(ACL_GPIO_POLARITY, 0), 0)>>
AsicFieldSelector(index) == <<Word(Reg(FIELD_SELECTOR0, index))>>

-----------------------------------------------------------------------------
(* VLANs and spanning trees.                                               *)

VlanPortIgrFilterEnable(e) == {Does(<<To(AsicVlanIngressFilter(p), Of(e, 0, 1))>>) : p \in Port}

VlanPortAcceptFrameType(e) == {Does(<<To(AsicVlanAccpetFrameType(p), Of(e, 0, 2))>>) : p \in Port}

VlanTagMode(e) == {Does(<<To(AsicVlanEgressTagMode(p), Of(e, 0, 3))>>) : p \in Port}

(* The switch of all ports is written with the mask of one. *)
VlanTransparent(e) ==
  {Does(<<To(AsicVlanTransparent, Of(e, 0, 1)), ToBits(AsicVlanEgressKeep(p), OfBits(e, 8))>>) : p \in Port}

VlanPortFid(e) == {Does(<<To(AsicPortBasedFidEn(p), Of(e, 0, 1)), To(AsicPortBasedFid(p), Of(e, 0, 15))>>) : p \in Port}

(* What the calls of CVlan do for one port or one group. *)
VlanDriver(e) ==
  {Does(AsicVlanPortBasedVID(p, Of(e, 0, 31), Of(e, 0, 7))) : p \in Port}
  \cup {Does(AsicVlanPortAndProtocolBased(p, i, Of(e, 0, 1), Of(e, 0, 31), Of(e, 0, 7))) : p \in Port, i \in PpbItem}
  \cup {Does(AsicVlanProtocolBasedGroupData(i, Of(e, 0, 2), Of(e, 0, RegDataMax))) : i \in PpbItem}
  \cup {Does(<<To(s, Of(e, 0, 1))>>) : s \in {AsicVlanFilter, AsicVlanUntagDscpPriorityEn}}

StpMstpState(e) == {Does(<<To(AsicSpanningTreeStatus(p, m), Of(e, 0, 3))>>) : p \in Port, m \in Msti}

-----------------------------------------------------------------------------
(* Service VLANs.                                                          *)

SvlanServicePortAdd(e) == {Does(<<To(AsicSvlanUplinkPort(p), 1)>>) : p \in Port}

SvlanServicePortDel(e) == {Does(<<To(AsicSvlanUplinkPort(p), 0)>>) : p \in Port}

SvlanTpidEntry(e) == {Does(<<To(AsicSvlanTpid, Of(e, 0, RegDataMax))>>)}

SvlanPriorityRef(e) == {Does(<<To(AsicSvlanPrioritySel, Of(e, 0, 3))>>)}

SvlanDmacVidsel(e) == {Does(<<To(AsicSvlanDmacCvidSel(p), Of(e, 0, 1))>>) : p \in Port}

(* What the calls of Svlan do for one port or for frames without a place. *)
SvlanDriver(e) ==
  {Does(<<To(AsicSvlanDefaultVlan(p), Of(e, 0, 63))>>) : p \in Port}
  \cup {Does(<<To(s, Of(e, 0, 63))>>) : s \in {AsicSvlanUntagVlan, AsicSvlanUnmatchVlan}}
  \cup {Does(<<To(s, Of(e, 0, 2))>>) : s \in {AsicSvlanIngressUntag, AsicSvlanIngressUnmatch}}
  \cup {Does(<<To(AsicSvlanEgressUnassign, Of(e, 0, 1))>>), Does(<<To(AsicSvlanTrapPriority, Of(e, 0, 7))>>)}

-----------------------------------------------------------------------------
(* Access lists.                                                           *)

FilterIgrAclState(e) == {Does(<<To(AsicAcl(p), Of(e, 0, 1))>>) : p \in Port}

FilterIgrAclUnmatchAction(e) == {Does(<<To(AsicAclUnmatchedPermit(p), Of(e, 0, 1))>>) : p \in Port}

(* All eight fields of the same raw type, of which there are 1 .. 79. *)
FilterIgrAclTemplate(e) ==
  {Does(<<ToBits(AsicAclTemplate(i), {8 * n + b : n \in 0 .. 7, b \in Code(Of(e, 1, 79))})>>) : i \in Template}

FilterIgrAclFieldSel(e) == {Does(<<To(AsicFieldSelector(i), Of(e, 0, 255 + 256 * 6))>>) : i \in Range}

FilterIprange(e) == {Does(<<ToBits(AsicAclIpRange(i), Either(e, {}, (0 .. 63) \cup {66}))>>) : i \in Range}

FilterVidrange(e) == {Does(<<ToBits(AsicAclVidRange(i), Either(e, {}, (0 .. 11) \cup (16 .. 27) \cup {29}))>>) : i \in Range}

FilterPortrange(e) == {Does(<<ToBits(AsicAclPortRange(i), Either(e, {}, (0 .. 31) \cup {33}))>>) : i \in Range}

(* What the calls of Acl do for one rule. *)
FilterDriver(e) ==
  {Does(<<To(AsicAclNot(r), Of(e, 0, 1)), To(AsicAclActCtrl(r), Of(e, 0, 63))>>) : r \in Rule}
  \cup {Does(<<To(AsicAclGpioPolarity, Of(e, 0, 1))>>)}

-----------------------------------------------------------------------------

VlanCalls(e) == UNION {
  VlanPortIgrFilterEnable(e), VlanPortAcceptFrameType(e), VlanTagMode(e), VlanTransparent(e),
  VlanPortFid(e), VlanDriver(e), StpMstpState(e), SvlanServicePortAdd(e), SvlanServicePortDel(e),
  SvlanTpidEntry(e), SvlanPriorityRef(e), SvlanDmacVidsel(e), SvlanDriver(e), FilterIgrAclState(e),
  FilterIgrAclUnmatchAction(e), FilterIgrAclTemplate(e), FilterIgrAclFieldSel(e), FilterIprange(e),
  FilterVidrange(e), FilterPortrange(e), FilterDriver(e)}
=============================================================================
