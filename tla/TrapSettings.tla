---------------------------- MODULE TrapSettings ----------------------------
(***************************************************************************)
(* Frames the switch does not simply forward: reserved multicast (RMA),    *)
(* unknown multicast, IGMP and MLD, 802.1X and Ethernet AV, and what leaks *)
(* across VLANs and isolated ports: where the drivers keep it and what the *)
(* rtk_trap_*, rtk_leaky_*, rtk_igmp_* and rtk_dot1x_* calls put there.    *)
(***************************************************************************)
EXTENDS RegMap

CONSTANT RmaOctet   \* last bytes of reserved addresses

ASSUME OctetAssumption == RmaOctet \subseteq 0 .. 47

-----------------------------------------------------------------------------
(* Settings of the drivers.                                                *)

(* Reserved addresses by their last byte.  Several share a register.       *)
RmaClass(octet) ==
  CASE octet \in (4 .. 7) \cup (9 .. 12) \cup {15} -> 4
    [] octet \in (19 .. 23) \cup {25} \cup (27 .. 31) -> 19
    [] octet \in 34 .. 47 -> 34
    [] OTHER -> octet

AsicRma(octet, lo, len) == <<Field(Reg(RMA_CTRL00, RmaClass(octet)), lo, len)>>
RmaOperation(octet) == AsicRma(octet, 7, 2)
RmaStormFilter(octet) == AsicRma(octet, 6, 1)
RmaVlanLeaky(octet) == AsicRma(octet, 1, 1)
RmaPortIsoLeaky(octet) == AsicRma(octet, 0, 1)
RmaTrapPriority == AsicRma(0, 3, 3)

AsicUnknownL2MulticastBehavior(port) == <<Field(Reg(UNKNOWN_L2_MULTICAST_CTRL0, 0), 2 * port, 2)>>
AsicUnknownIPv4MulticastBehavior(port) == <<Field(Reg(UNKNOWN_IPV4_MULTICAST_CTRL0, 0), 2 * port, 2)>>
AsicUnknownIPv6MulticastBehavior(port) == <<Field(Reg(UNKNOWN_IPV6_MULTICAST_CTRL0, 0), 2 * port, 2)>>
AsicUnknownMulticastTrapPriority_Shifted == <<Field(Reg(QOS_TRAP_PRIORITY0, 0), 11, 3)>>
AsicUnknownMulticastTrapPriority == <<Field(Reg(QOS_TRAP_PRIORITY0, 0), 12, 3)>>

AsicIgmp == <<Flag(Reg(IGMP_MLD_CFG0, 0), 0)>>
AsicIGMPCRCErrOP == <<Field(Reg(IGMP_MLD_CFG0, 0), 1, 2)>>
AsicIGMPFastLeaveEn == <<Flag(Reg(IGMP_MLD_CFG0, 0), 3)>>
AsicIGMPLeaveTimer == <<Field(Reg(IGMP_MLD_CFG0, 0), 4, 3)>>
IGMPReportSuppression == <<Flag(Reg(IGMP_MLD_CFG0, 0), 7)>>
IGMPLeaveSuppression == <<Flag(Reg(IGMP_MLD_CFG0, 0), 8)>>
AsicIGMPRobVar == <<Field(Reg(IGMP_MLD_CFG0, 0), 9, 3)>>
AsicIGMPReportFlood == <<Flag(Reg(IGMP_MLD_CFG0, 0), 12)>>
AsicIGMPBypassStormCTRL == <<Flag(Reg(IGMP_MLD_CFG0, 0), 13)>>
AsicIGMPVLANLeaky == <<Flag(Reg(IGMP_MLD_CFG0, 0), 14)>>
AsicIGMPIsoLeaky == <<Flag(Reg(IGMP_MLD_CFG0, 0), 15)>>
AsicIGMPTableFullOP == <<Field(Reg(IGMP_MLD_CFG1, 0), 0, 2)>>
AsicIGMPDropLeaveZero == <<Flag(Reg(IGMP_MLD_CFG1, 0), 2)>>
AsicIGMPQueryInterval == <<Word(Reg(IGMP_MLD_CFG2, 0))>>
AsicIGMPStaticRouterPort == <<Field(Reg(IGMP_STATIC_ROUTER_PORT, 0), 0, 8)>>
AsicIGMPPortMAXGroup(port) == Packed(IGMP_PORT01_MAX_GROUP, 2, 8, 8, port)
AsicIpMulticastVlanLeaky(port) == <<Flag(Reg(IPMCAST_VLAN_LEAKY, 0), port)>>
AsicIpMulticastPortIsoLeaky(port) == <<Flag(Reg(IPMCAST_PORTISO_LEAKY, 0), port)>>

AsicIGMPv1Opeartion(port) == <<Field(Reg(IGMP_PORT0_CONTROL, port), 0, 2)>>
AsicIGMPv2Opeartion(port) == <<Field(Reg(IGMP_PORT0_CONTROL, port), 2, 2)>>
AsicIGMPv3Opeartion(port) == <<Field(Reg(IGMP_PORT0_CONTROL, port), 4, 2)>>
AsicMLDv1Opeartion(port) == <<Field(Reg(IGMP_PORT0_CONTROL, port), 6, 2)>>
AsicMLDv2Opeartion(port) == <<Field(Reg(IGMP_PORT0_CONTROL, port), 8, 2)>>
AsicIGMPMcDataRX(port) == <<Flag(Reg(IGMP_PORT0_CONTROL, port), 10)>>
AsicIGMPMRPRX(port) == <<Flag(Reg(IGMP_PORT0_CONTROL, port), 11)>>
AsicIGMPLeaveRX(port) == <<Flag(Reg(IGMP_PORT0_CONTROL, port), 12)>>
AsicIGMPReportRX(port) == <<Flag(Reg(IGMP_PORT0_CONTROL, port), 13)>>
AsicIGMPQueryRX(port) == <<Flag(Reg(IGMP_PORT0_CONTROL, port), 14)>>

AsicIpMulticastLookup == <<Flag(Reg(LUT_CFG, 0), 4)>>
AsicIpLookupMethod == <<Flag(Reg(LUT_CFG, 0), 3)>>

Asic1xPBEnConfig(port) == <<Flag(Reg(DOT1X_PORT_ENABLE, 0), port)>>
Asic1xMBEnConfig(port) == <<Flag(Reg(DOT1X_MAC_ENABLE, 0), port)>>
Asic1xPBAuthConfig(port) == <<Flag(Reg(DOT1X_PORT_AUTH, 0), port)>>
Asic1xPBOpdirConfig(port) == <<Flag(Reg(DOT1X_PORT_OPDIR, 0), port)>>
Asic1xProcConfig(port) == <<Field(Reg(DOT1X_UNAUTH_ACT_W0, 0), 2 * port, 2)>>
Asic1xGuestVidx == <<Field(Reg(DOT1X_CFG, 0), 0, 5)>>
Asic1xMBOpdirConfig == <<Flag(Reg(DOT1X_CFG, 0), 5)>>
Asic1xGVOpdir == <<Flag(Reg(DOT1X_CFG, 0), 6)>>
Asic1xTrapPriority == <<Field(Reg(QOS_TRAP_PRIORITY0, 0), 0, 3)>>

AsicEavEnable(port) == <<Flag(Reg(EAV_CTRL0, 0), port)>>
AsicEavPriRemapping(pri) == Packed(EAV_CTRL1, 4, 3, 3, pri)
AsicEavTimeFreq == <<Word(Reg(SYS_TIME_FREQ, 0))>>
AsicEavTimeOffsetSeccond ==
  <<Word(Reg(SYS_TIME_OFFSET_L, 0)), From(16, Word(Reg(SYS_TIME_OFFSET_H, 0)))>>
AsicEavTimeOffset512ns ==
  <<Word(Reg(SYS_TIME_OFFSET_512NS_L, 0)), From(16, Field(Reg(SYS_TIME_OFFSET_512NS_H, 0), 0, 5))>>
AsicEavOffsetTune == <<Flag(Reg(SYS_TIME_OFFSET_512NS_H, 0), 5)>>
AsicEavTimeSyncEn(port) == <<Flag(Reg(PTP_PORT0_CFG1, port), 7)>>
AsicEavTimeStampFillEn(port) == <<Flag(Reg(PTP_PORT0_CFG1, port), 6)>>

-----------------------------------------------------------------------------
(* Reserved addresses, multicast and leaks.                                *)

(* All fields of an address are read, then the priority its frames are     *)
(* trapped with, which is common to all and kept with address 0; one field *)
(* is changed; then the priority is written back to its place, and all     *)
(* fields, with a copy of the priority that nothing reads, to theirs.      *)
RmaPriorityBits == 3 .. 5

RmaSet(setting, v) ==
  LET here == setting[1].reg
      first == Reg(RMA_CTRL00, 0)
  IN DoesWith(<<TakeBits(here, 0 .. 15, {here}), TakeBits(first, RmaPriorityBits, {first, here})>>,
              <<Keep(RmaTrapPriority), Over(setting, v)>>)

TrapRmaAction(e) == {RmaSet(RmaOperation(o), Of(e, 0, 3)) : o \in RmaOctet}

Dot1xEapolFrame2CpuEnable(e) == {RmaSet(RmaOperation(3), Of(e, 0, 1))}

StormBypass(e) ==
  {RmaSet(RmaStormFilter(o), Of(e, 0, 1)) : o \in RmaOctet} \cup {Does(<<To(AsicIGMPBypassStormCTRL, Of(e, 0, 1))>>)}

LeakyVlan(e) ==
  {RmaSet(RmaVlanLeaky(o), Of(e, 0, 1)) : o \in RmaOctet}
  \cup {Does(ForEach(8, LAMBDA p : To(AsicIpMulticastVlanLeaky(p), Of(e, 0, 1)))),
        Does(<<To(AsicIGMPVLANLeaky, Of(e, 0, 1))>>)}

LeakyPortIsolation(e) ==
  {RmaSet(RmaPortIsoLeaky(o), Of(e, 0, 1)) : o \in RmaOctet}
  \cup {Does(ForEach(8, LAMBDA p : To(AsicIpMulticastPortIsoLeaky(p), Of(e, 0, 1)))),
        Does(<<To(AsicIGMPIsoLeaky, Of(e, 0, 1))>>)}

TrapUnknownMcastPktAction(e) ==
  {Does(<<To(AsicUnknownL2MulticastBehavior(p), Of(e, 0, 2))>>) : p \in Port}
  \cup {Does(<<To(AsicUnknownIPv4MulticastBehavior(p), Of(e, 0, 3))>>) : p \in Port}
  \cup {Does(<<To(AsicUnknownIPv6MulticastBehavior(p), Of(e, 0, 3))>>) : p \in Port}

TrapEthernetAv(e) == {Does(ForEach(8, LAMBDA p : To(AsicEavEnable(p), Of(e, 0, 1))))}

-----------------------------------------------------------------------------
(* IGMP and MLD.  What is done with a protocol's frames: left to the chip  *)
(* (0), flooded (1), trapped (2) or dropped (3).                           *)

TrapIgmpCtrlPktAction(e) ==
  {Does(ForEach(16, LAMBDA i :
         To(IF i % 2 = 0 THEN AsicMLDv1Opeartion(i \div 2) ELSE AsicMLDv2Opeartion(i \div 2), Of(e, 0, 3)))),
   Does(ForEach(24, LAMBDA i :
         To(CASE i % 3 = 0 -> AsicIGMPv1Opeartion(i \div 3)
              [] i % 3 = 1 -> AsicIGMPv2Opeartion(i \div 3)
              [] i % 3 = 2 -> AsicIGMPv3Opeartion(i \div 3), Of(e, 0, 3))))}

IgmpProtocol(e) ==
  {Does(<<To(s, Of(e, 0, 3))>>) :
     s \in UNION {{AsicIGMPv1Opeartion(p), AsicIGMPv2Opeartion(p), AsicIGMPv3Opeartion(p),
                   AsicMLDv1Opeartion(p), AsicMLDv2Opeartion(p)} : p \in Port}}

IgmpInit(e) == {Does(<<To(AsicIpMulticastLookup, 1), To(AsicIpLookupMethod, 1), To(AsicIgmp, 1)>>)}

IgmpState(e) == {Does(<<To(AsicIgmp, Of(e, 0, 1))>>)}

IgmpStaticRouterPort(e) == {Does(<<ToBits(AsicIGMPStaticRouterPort, OfBits(e, 8))>>)}

IgmpFastLeave(e) == {Does(<<To(AsicIGMPFastLeaveEn, Of(e, 0, 1))>>)}

IgmpMaxGroup(e) == {Does(<<To(AsicIGMPPortMAXGroup(p), Of(e, 0, 255))>>) : p \in Port}

(* Settings only the driver's own functions reach. *)
IgmpDriver(e) ==
  {Does(<<To(s, Of(e, 0, 1))>>) :
     s \in {AsicIGMPReportFlood, AsicIGMPDropLeaveZero}
           \cup UNION {{AsicIGMPMcDataRX(p), AsicIGMPMRPRX(p), AsicIGMPLeaveRX(p),
                        AsicIGMPReportRX(p), AsicIGMPQueryRX(p)} : p \in Port}}
  \cup {Does(<<To(s, Of(e, 0, 2))>>) : s \in {AsicIGMPCRCErrOP, AsicIGMPTableFullOP}}
  \cup {Does(<<To(s, Of(e, 0, 7))>>) : s \in {AsicIGMPLeaveTimer, AsicIGMPRobVar}}
  \cup {Does(<<To(AsicIGMPQueryInterval, Of(e, 0, RegDataMax))>>),
        Does(<<To(IGMPReportSuppression, Of(e, 0, 1)), To(IGMPLeaveSuppression, Of(e, 0, 1))>>)}

-----------------------------------------------------------------------------
(* 802.1X and Ethernet AV.                                                 *)

Dot1xUnauthPacketOper(e) == {Does(<<To(Asic1xProcConfig(p), Of(e, 0, 2))>>) : p \in Port}

Dot1xPortBasedEnable(e) == {Does(<<To(Asic1xPBEnConfig(p), Of(e, 0, 1))>>) : p \in Port}

Dot1xPortBasedAuthStatus(e) == {Does(<<To(Asic1xPBAuthConfig(p), Of(e, 0, 1))>>) : p \in Port}

Dot1xPortBasedDirection(e) == {Does(<<To(Asic1xPBOpdirConfig(p), Of(e, 0, 1))>>) : p \in Port}

Dot1xMacBasedEnable(e) == {Does(<<To(Asic1xMBEnConfig(p), Of(e, 0, 1))>>) : p \in Port}

Dot1xMacBasedDirection(e) == {Does(<<To(Asic1xMBOpdirConfig, Of(e, 0, 1))>>)}

Dot1xGuestVlan2Auth(e) == {Does(<<To(Asic1xGVOpdir, Of(e, 0, 1))>>)}

TrapPriority(e) ==
  {Does(<<To(s, Of(e, 0, 7))>>) : s \in {Asic1xTrapPriority, AsicUnknownMulticastTrapPriority}}

EavDriver(e) ==
  {Does(<<To(AsicEavPriRemapping(pri), Of(e, 0, 7))>>) : pri \in Priority}
  \cup {Does(<<ToBits(AsicEavTimeFreq, OfBits(e, 16))>>),
        Does(<<ToBits(AsicEavTimeOffsetSeccond, OfBits(e, 32))>>),
        Does(<<ToBits(AsicEavTimeOffset512ns, OfBits(e, 21))>>),
        Does(<<To(AsicEavOffsetTune, Of(e, 0, 1))>>)}
  \cup {Does(<<To(s, Of(e, 0, 1))>>) :
          s \in UNION {{AsicEavTimeSyncEn(p), AsicEavTimeStampFillEn(p)} : p \in Port}}

-----------------------------------------------------------------------------

TrapCalls(e) == UNION {
  TrapRmaAction(e), Dot1xEapolFrame2CpuEnable(e), StormBypass(e), LeakyVlan(e), LeakyPortIsolation(e),
  TrapUnknownMcastPktAction(e), TrapEthernetAv(e), TrapIgmpCtrlPktAction(e), IgmpProtocol(e),
  IgmpInit(e), IgmpState(e), IgmpStaticRouterPort(e), IgmpFastLeave(e), IgmpMaxGroup(e),
  IgmpDriver(e), Dot1xUnauthPacketOper(e), Dot1xPortBasedEnable(e), Dot1xPortBasedAuthStatus(e),
  Dot1xPortBasedDirection(e), Dot1xMacBasedEnable(e), Dot1xMacBasedDirection(e),
  Dot1xGuestVlan2Auth(e), TrapPriority(e), EavDriver(e)}
=============================================================================
