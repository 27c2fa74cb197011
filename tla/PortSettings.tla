---------------------------- MODULE PortSettings ----------------------------
(***************************************************************************)
(* Ports, their PHYs, flooding and learning, mirrors, trunks, LEDs, the    *)
(* CPU port, counters, interrupts and frame lengths: where the drivers     *)
(* keep them and what the rtk_port_*, rtk_l2_*, rtk_mirror_*, rtk_trunk_*, *)
(* rtk_led_*, rtk_cpu_*, rtk_stat_*, rtk_int_*, rtk_eee_* and rtk_switch_* *)
(* calls put there.                                                        *)
(***************************************************************************)
EXTENDS RegMap

CONSTANTS Phy, IpmcGroup, Hash, Counter, Interrupt

ASSUME PortIndexAssumption ==
  /\ Phy \subseteq 0 .. 4
  /\ IpmcGroup \subseteq 0 .. 63
  /\ Hash \subseteq 0 .. 15
  /\ Counter \subseteq 0 .. 15
  /\ Interrupt \subseteq 0 .. 11

Ext == 0 .. 2
LedGroup == 0 .. 2
TrunkGroup == {0, 1}

-----------------------------------------------------------------------------
(* Settings of the drivers.                                                *)

AsicPortUnknownDaBehavior == <<Field(Reg(PORT_SECURITY_CTRL, 0), 6, 2)>>
AsicPortUnknownSaBehavior == <<Field(Reg(PORT_SECURITY_CTRL, 0), 0, 2)>>
AsicPortUnmatchedSaBehavior == <<Field(Reg(PORT_SECURITY_CTRL, 0), 2, 2)>>
AsicLutLearnOverAct == <<Field(Reg(PORT_SECURITY_CTRL, 0), 4, 2)>>
AsicPortUnknownDaFloodingPortmask == <<Word(Reg(UNDA_FLOODING_PMSK, 0))>>
AsicPortUnknownMulticastFloodingPortmask == <<Word(Reg(UNMCAST_FLOADING_PMSK, 0))>>
AsicPortBcastFloodingPortmask == <<Word(Reg(BCAST_FLOADING_PMSK, 0))>>
AsicPortBlockSpa(port) == <<Flag(Reg(SOURCE_PORT_PERMIT, 0), port)>>
AsicPortDos(type) == <<Flag(Reg(DOS_CFG, 0), type)>>

(* speed, duplex, link, rxpause, txpause, nway and forcemode of a port: they *)
(* are changed in what was read of the register, and it is written.        *)
Ability == [b \in {0, 1, 2, 4, 5, 6, 7, 12} |-> b]
AsicPortForceLink(port) == <<Spread(Reg(MAC0_FORCE_SELECT, port), Ability)>>
AsicPortForceLinkExt(id) ==
  <<Spread(IF id < 2 THEN Reg(DIGITAL_INTERFACE0_FORCE, id) ELSE Reg(DIGITAL_INTERFACE2_FORCE, 0), Ability)>>
AsicPortExtMode(id) ==
  IF id < 2 THEN <<Field(Reg(DIGITAL_INTERFACE_SELECT, 0), 4 * id, 4)>>
  ELSE <<Field(Reg(DIGITAL_INTERFACE_SELECT_1, 0), 0, 4)>>
BypassLineRate(id) == <<Flag(Reg(BYPASS_LINE_RATE, 0), id)>>
RgtxInv(id) == <<Flag(Reg(IF id = 0 THEN EXT0_RGMXF ELSE EXT1_RGMXF, 0), 6)>>
GmiiTxDelay(id) == <<Field(Reg(EXT_TXC_DLY, 0), 9 + 3 * id, 3)>>
RgmiiDelay(id) ==
  <<Field(Reg(CASE id = 0 -> EXT0_RGMXF [] id = 1 -> EXT1_RGMXF [] id = 2 -> EXT2_RGMXF, 0), 0, 4)>>
ComboMedia == <<Word(Reg(FIBER_CFG_2, 0)), From(16, Word(Reg(UTP_FIB_DET, 0)))>>

AsicPortEnableAll == <<Flag(Reg(PHY_AD, 0), 5)>>
AsicGreenEthernet == <<Flag(Reg(PHY_AD, 0), 6)>>
AsicGreenTrafficType(pri) == <<Flag(Reg(HIGHPRI_CFG, 0), pri)>>
AsicPortSmallIpg(port) == <<Flag(Reg(PORT0_MISC_CFG, port), 15)>>
AsicPortLoopback(port) == <<Flag(Reg(PORT0_MISC_CFG, port), 6)>>
AsicEee100M(port) == <<Flag(Reg(PORT0_EEECFG, port), 11)>>
AsicEeeGiga(port) == <<Flag(Reg(PORT0_EEECFG, port), 10)>>
EeeTx(port) == <<Flag(Reg(PORT0_EEECFG, port), 9)>>
EeeRx(port) == <<Flag(Reg(PORT0_EEECFG, port), 8)>>
RtctEnable == <<Field(Reg(RTCT_ENABLE, 0), 0, 5)>>
RtctPara(bit) == <<Flag(Reg(SEL_RTCT_PARA, 0), bit)>>

AsicPortIsolationPermittedPortmask(port) == <<Word(Reg(PORT_ISOLATION_PORT0_MASK, port))>>
AsicPortIsolationEfid(port) == Packed(PORT_EFID_CTRL0, 4, 4, 3, port)

AsicLutIpMulticastLookup == <<Flag(Reg(LUT_CFG, 0), 4)>>
AsicLutIpLookupMethod == <<Flag(Reg(LUT_CFG, 0), 3)>>
AsicLutCamTbUsage == <<Flag(Reg(LUT_CFG, 0), 6)>>
AsicLutLinkDownForceAging == <<Flag(Reg(LUT_CFG, 0), 5)>>
(* Timer in the bits 0 .. 2 of the code, speed in 8 .. 9: one access. *)
AsicLutAgeTimerSpeed == <<Spread(Reg(LUT_CFG, 0), [b \in {0, 1, 2, 8, 9} |-> b])>>
AsicLutLearnLimitNo(port) == <<Word(Reg(LUT_PORT0_LEARN_LIMITNO, port))>>
AsicLutDisableAging(port) == <<Flag(Reg(LUT_AGEOUT_CTRL, 0), port)>>
AsicLutFlushMode == <<Field(Reg(L2_FLUSH_CTRL2, 0), 0, 2)>>
AsicLutFlushType == <<Flag(Reg(L2_FLUSH_CTRL2, 0), 2)>>
AsicLutFlushVid == <<Field(Reg(L2_FLUSH_CTRL1, 0), 0, 12)>>
AsicLutFlushFid == <<Field(Reg(L2_FLUSH_CTRL1, 0), 12, 4)>>
(* A group address without its first four bits, which are those of all. *)
AsicLutIPMCGroup(index) ==
  <<From(16, Word(Reg(IPMC_GROUP_ENTRY0_H, index))), Word(Reg(IPMC_GROUP_ENTRY0_L, index))>>

AsicMacAddress ==
  <<From(32, Word(Reg(SWITCH_MAC2, 0))), From(16, Word(Reg(SWITCH_MAC1, 0))), Word(Reg(SWITCH_MAC0, 0))>>
AsicPortJamMode == <<Flag(Reg(CFG_BACKPRESSURE, 0), 12)>>
AsicMaxLengthInRx == <<Field(Reg(MAX_LENGTH_LIMINT_IPG, 0), 13, 2)>>
(* The bit of a port in the masks for gigabit and for slower links. *)
AltLengthPort(port) == <<Spread(Reg(MAX_LENGTH_CFG, 0), [b \in {port, 8 + port} |-> 0])>>
AltLength == <<Field(Reg(MAX_LEN_RX_TX, 0), 0, 2)>>

AsicCputagEnable == <<Flag(Reg(CPU_CTRL, 0), 0)>>
AsicCputagInsertMode == <<Field(Reg(CPU_CTRL, 0), 1, 2)>>
AsicCputagTrapPort == <<Field(Reg(CPU_CTRL, 0), 3, 3)>>
AsicCputagPosition == <<Flag(Reg(CPU_CTRL, 0), 6)>>
AsicCputagRxMinLength == <<Flag(Reg(CPU_CTRL, 0), 7)>>
AsicCputagMode == <<Flag(Reg(CPU_CTRL, 0), 9)>>
AsicCputagPortmask == <<Word(Reg(CPU_PORT_MASK, 0))>>
AsicCputagPriorityRemapping(pri) == Packed(QOS_PRIORITY_REMAPPING_IN_CPU_CTRL0, 4, 4, 3, pri)

AsicPortMirrorSource == <<Field(Reg(MIRROR_CTRL, 0), 0, 3)>>
AsicPortMirrorMonitor == <<Field(Reg(MIRROR_CTRL, 0), 4, 3)>>
AsicPortMirrorRxFunction == <<Flag(Reg(MIRROR_CTRL, 0), 9)>>
AsicPortMirrorTxFunction == <<Flag(Reg(MIRROR_CTRL, 0), 10)>>
AsicPortMirrorIsolation == <<Flag(Reg(MIRROR_CTRL, 0), 11)>>
AsicPortMirrorMask == <<Field(Reg(MIRROR_SRC_PMSK, 0), 0, 8)>>

AsicTrunkingMode == <<Flag(Reg(PORT_TRUNK_CTRL, 0), 8)>>
AsicTrunkingFlood == <<Flag(Reg(PORT_TRUNK_CTRL, 0), 7)>>
AsicTrunkingHashSelect == <<Field(Reg(PORT_TRUNK_CTRL, 0), 0, 7)>>
AsicTrunkingFc(group) == <<Flag(Reg(PORT_TRUNK_FLOWCTRL, 0), group)>>
AsicTrunkingGroup(group) == <<Field(Reg(PORT_TRUNK_GROUP_MASK, 0), 4 * group, 4)>>
AsicTrunkingHashTable(hash) == Packed(PORT_TRUNK_HASH_MAPPING_CTRL0, 8, 2, 2, hash)

(* The groups of LEDs show what their configuration says, or the mode of   *)
(* all of them does, as LedConfigSel tells.                                *)
LedConfigSel == <<Flag(Reg(LED_CONFIGURATION, 0), 14)>>
AsicLedIndicateInfoConfig(group) == <<Field(Reg(LED_CONFIGURATION, 0), 4 * group, 4)>>
AsicLedGroupMode == <<Field(Reg(LED_CONFIGURATION, 0), 12, 2)>>
AsicForceLed(port, group) == <<Field(Reg(CPU_FORCE_LED0_CFG0, 2 * group), 2 * port, 2)>>
AsicLedBlinkRate == <<Field(Reg(LED_MODE, 0), 1, 3)>>
AsicLedForceBlinkRate == <<Field(Reg(LED_MODE, 0), 4, 2)>>
AsicLedGroupEnable(group) == Packed(PARA_LED_IO_EN1, 2, 8, 8, group)
LedSelect == <<Flag(Reg(LED_SYS_CONFIG, 0), 0)>>
LedSerialOut(bit) == <<Flag(Reg(SCAN0_LED_IO_EN, 0), bit)>>
AsicLedSerialActive == <<Flag(Reg(LED_SYS_CONFIG, 0), 7)>>
AsicLedSerialMode == <<Flag(Reg(LED_MODE, 0), 15)>>

AsicMIBsUsageMode == <<Flag(Reg(MIB_CTRL4, 0), 8)>>
AsicMIBsTimer == <<Field(Reg(MIB_CTRL4, 0), 0, 8)>>
AsicMIBsLoggingMode(index) == <<Flag(Reg(MIB_CTRL3, 0), index)>>
AsicMIBsLoggingType(index) == <<Flag(Reg(MIB_CTRL5, 0), index)>>

AsicInterruptPolarity == <<Flag(Reg(INTR_CTRL, 0), 0)>>
(* The mask is read, a bit of it changed, and written. *)
AsicInterruptMask(type) == <<Flag(Reg(INTR_IMR, 0), type)>>

(* Registers of a PHY.  Which of its pages an access reaches depends on    *)
(* the page register; the calls write that first.                          *)
PhyRegister(phy, page, number) == 65536 + 1024 * page + 32 * phy + number
PhyPage(phy) == <<Word(PhyRegister(phy, 0, 31))>>
PhyLoopback(phy) == <<Flag(PhyRegister(phy, 0, 0), 14)>>
PhyPowerDown(phy) == <<Flag(PhyRegister(phy, 0, 0), 11)>>
PhyMode(phy) == <<Spread(PhyRegister(phy, 0, 0), [b \in {6, 8, 12, 13} |-> b])>>
PhyAdvertised(phy) == <<Spread(PhyRegister(phy, 0, 4), [b \in {5, 6, 7, 8, 10, 11} |-> b])>>
PhyGigabit(phy) == <<Flag(PhyRegister(phy, 0, 9), 9)>>
PhyMaster(phy) == <<Field(PhyRegister(phy, 0, 9), 11, 2)>>
PhyTestMode(phy) == <<Field(PhyRegister(phy, 0, 9), 13, 3)>>
AsicPowerSaving(phy) == <<Flag(PhyRegister(phy, 0, 21), 12)>>
PhyExtPage(phy) == <<Word(PhyRegister(phy, 7, 30))>>
PhyTune(phy, number) == <<Word(PhyRegister(phy, 2, number))>>
PhyEee(phy) == <<Word(PhyRegister(phy, 7, 21))>>

FiberMode == <<Field(Reg(SDS_CFG4, 0), 13, 3)>>
FiberModeEnable == <<Flag(Reg(SDS_CFG4, 0), 12)>>

-----------------------------------------------------------------------------
(* Ports.                                                                  *)

(* All abilities at their highest, and all off. *)
AbilityBits(e) == Either(e, {}, {1, 2, 4, 5, 6, 7, 12})

PortMacForceLink(e) == {Does(<<ToBits(AsicPortForceLink(p), AbilityBits(e))>>) : p \in Port}

ModeTmii == {4, 5}
ModeGmii == 6

(* One mode sets delays of both interfaces, whichever it is given for. *)
ExtMode(id, mode) ==
  (IF mode = ModeGmii
   THEN <<To(RgtxInv(0), 1), To(RgtxInv(1), 1), To(GmiiTxDelay(1), 5), To(GmiiTxDelay(0), 6)>>
   ELSE <<>>)
  \o <<To(BypassLineRate(id), IF mode \in ModeTmii THEN 1 ELSE 0), To(AsicPortExtMode(id), mode)>>

PortMacForceLinkExt(e) ==
  {Does(ExtMode(id, mode) \o <<ToBits(AsicPortForceLinkExt(id), AbilityBits(e))>>) :
     id \in Ext, mode \in Either(e, {0, 1}, {ModeGmii, 8} \cup ModeTmii)}

PortMacLocalLoopbackEnable(e) ==
  {Does(<<To(AsicPortLoopback(p), Of(e, 0, 1))>>
        \o (IF p \in 0 .. 4 THEN <<To(PhyLoopback(p), Of(e, 0, 1))>> ELSE <<>>)) : p \in Port}

PortBackpressureEnable(e) == {Does(<<To(AsicPortJamMode, 1 - Of(e, 0, 1))>>)}

PortIsolation(e) ==
  {Does(<<ToBits(AsicPortIsolationPermittedPortmask(p), OfBits(e, 8))>>) : p \in Port}

PortRgmiiDelayExt(e) == {Does(<<To(RgmiiDelay(id), Of(e, 0, 15))>>) : id \in Ext}

(* The PHYs are off when the bit is set. *)
PortPhyEnableAll(e) == {Does(<<To(AsicPortEnableAll, 1 - Of(e, 0, 1))>>)}

PortEfid(e) == {Does(<<To(AsicPortIsolationEfid(p), Of(e, 0, 7))>>) : p \in Port}

(* Copper, and fiber. *)
MediaConfig(e) == Either(e, \h3000, \h3945)
MediaDetect(e) == Either(e, \h11bb, \hd5b9)

PortPhyComboPortMedia(e) ==
  {Does(<<ToBits(ComboMedia, Code(MediaConfig(e)) \cup {16 + b : b \in Code(MediaDetect(e))})>>)}

(* The test runs when the command goes from 0 to 1. *)
PortRtctEnable(e) ==
  {Does(<<ToBits(RtctEnable, OfBits(e, 5)), To(RtctPara(6), 1), To(RtctPara(5), 0),
          To(RtctPara(15), 0), To(RtctPara(15), 1)>>)}

PortSmallIpg(e) == {Does(<<To(AsicPortSmallIpg(p), Of(e, 0, 1))>>) : p \in Port}

PortDos(e) == {Does(<<To(AsicPortDos(type), Of(e, 0, 1))>>) : type \in 0 .. 9}

-----------------------------------------------------------------------------
(* PHYs.  Restarting the negotiation is a command of the PHY that ends by  *)
(* itself, and left out.                                                   *)

Page0(phy) == To(PhyPage(phy), 0)

PortPhyAutoNegoAbility(e) ==
  {Does(<<Page0(p), To(PhyGigabit(p), Of(e, 0, 1)),
          ToBits(PhyAdvertised(p), Either(e, {}, {5, 6, 7, 8, 10, 11})),
          ToBits(PhyMode(p), Either(e, {12}, {6, 8, 12}))>>) : p \in Phy}
  \cup {Does(<<To(FiberMode, Either(e, 5, 7)), To(FiberModeEnable, Of(e, 0, 1))>>)}

(* The control register is written as a whole, with the power off and then *)
(* on: what else it holds is cleared.                                      *)
PortPhyForceModeAbility(e) ==
  {Does(<<Page0(p), To(PhyGigabit(p), 0),
          ToBits(PhyAdvertised(p), Either(e, {}, {5, 6, 7, 8, 10, 11})),
          To(PhyPowerDown(p), 1), To(PhyLoopback(p), 0),
          ToBits(PhyMode(p), Either(e, {}, {8, 13})), To(PhyPowerDown(p), 0)>>) : p \in Phy}
  \cup {Does(<<To(FiberMode, 5), To(FiberModeEnable, 0)>>)}

Tuning == \hAA00

(* A test needs all other PHYs to be in none.  Test mode 1 tunes PHY 2,    *)
(* whichever is to be tested, and leaves it on the page of the tuning.     *)
PortPhyTestMode(e) ==
  LET Test(p, mode) == <<Page0(p), To(PhyTestMode(p), mode)>>
      Others(p) == ForEach(4, LAMBDA i : Page0(IF i < p THEN i ELSE i + 1))
      Tune == <<To(PhyPage(2), 2)>> \o ForEach(5, LAMBDA i : To(PhyTune(2, 19 + i), Tuning)) \o <<To(PhyPage(2), 2)>>
  IN {Does(Test(p, 0)) : p \in Phy}
     \cup {Does(Others(p) \o Tune \o Test(p, 1)) : p \in Phy}
     \cup {Does(Others(p) \o Test(p, 4)) : p \in Phy}
     \cup {GivesUp(SubSeq(Others(p), 1, i)) : p \in Phy, i \in 1 .. 4}

PortPhy1000BaseTMasterSlave(e) ==
  {Does(<<Page0(p), To(PhyMaster(p), Of(e, 0, 3)), To(PhyMaster(p), Of(e, 0, 3))>>) : p \in Phy}

PortAdminEnable(e) == {Does(<<Page0(p), Page0(p), To(PhyPowerDown(p), 1 - Of(e, 0, 1))>>) : p \in Phy}

SwitchGreenEthernet(e) ==
  {Does(<<To(AsicGreenEthernet, Of(e, 0, 1))>>
        \o ForEach(10, LAMBDA i : IF i % 2 = 0 THEN Page0(i \div 2) ELSE To(AsicPowerSaving(i \div 2), Of(e, 0, 1))))}

(* The MAC of any port is changed; a port above 4 has no PHY, and there the *)
(* call ends.                                                              *)
EeePortEnable(e) ==
  LET Mac(p) == <<To(AsicEee100M(p), Of(e, 0, 1)), To(AsicEeeGiga(p), Of(e, 0, 1)),
                  To(EeeTx(p), Of(e, 0, 1)), To(EeeRx(p), Of(e, 0, 1))>>
      OfPhy(p) == <<To(PhyPage(p), 7), To(PhyExtPage(p), 32), To(PhyEee(p), Either(e, 0, 256)), Page0(p)>>
  IN {Does(Mac(p) \o OfPhy(p)) : p \in Phy} \cup {GivesUp(Mac(p)) : p \in {5, 7}}

EeeInit(e) == {Does(<<To(AsicEeeGiga(0), 1), To(AsicEee100M(0), 1)>>)}

-----------------------------------------------------------------------------
(* Addresses: flooding, learning and ageing.                               *)

LearnLimitMax == \h840

L2Init(e) ==
  {Does(<<To(AsicLutIpMulticastLookup, 0), To(AsicLutCamTbUsage, 0), To(AsicLutAgeTimerSpeed, 6 + 256 * 2)>>
        \o ForEach(8, LAMBDA p : To(AsicLutLearnLimitNo(p), LearnLimitMax)))}

L2FloodPortMask(e) ==
  {Does(<<ToBits(mask, OfBits(e, 8))>>) :
     mask \in {AsicPortUnknownDaFloodingPortmask, AsicPortUnknownMulticastFloodingPortmask, AsicPortBcastFloodingPortmask}}

L2LocalPktPermit(e) == {Does(<<To(AsicPortBlockSpa(p), Of(e, 0, 1))>>) : p \in Port}

L2LimitLearningCnt(e) == {Does(<<To(AsicLutLearnLimitNo(p), Of(e, 0, LearnLimitMax))>>) : p \in Port}

L2LimitLearningCntAction(e) == {Does(<<To(AsicLutLearnOverAct, Of(e, 0, 2))>>)}

L2AgingEnable(e) == {Does(<<To(AsicLutDisableAging(p), 1 - Of(e, 0, 1))>>) : p \in Port}

L2FlushLinkDownPortAddrEnable(e) == {Does(<<To(AsicLutLinkDownForceAging, 1 - Of(e, 0, 1))>>)}

L2Aging(e) == {Does(<<To(AsicLutAgeTimerSpeed, Of(e, 1, 7) + 256 * Of(e, 0, 3))>>)}

L2IpMcastAddrLookup(e) ==
  {Does(<<To(AsicLutIpMulticastLookup, 0)>>),
   Does(<<To(AsicLutIpMulticastLookup, 1), To(AsicLutIpLookupMethod, Of(e, 0, 1))>>)}

(* Settings that flushing and looking up addresses work with (L2Table). *)
L2Driver(e) ==
  {Does(<<To(AsicLutFlushMode, Of(e, 0, 2))>>), Does(<<To(AsicLutFlushType, Of(e, 0, 1))>>),
   Does(<<To(AsicLutFlushVid, Of(e, 0, VidMax))>>), Does(<<To(AsicLutFlushFid, Of(e, 0, 15))>>)}
  \cup {Does(<<ToBits(AsicLutIPMCGroup(i), OfBits(e, 28))>>) : i \in IpmcGroup}

TrapUnknownUnicastPktAction(e) ==
  {Does(<<To(b, Of(e, 0, 2))>>) :
     b \in {AsicPortUnknownDaBehavior, AsicPortUnknownSaBehavior, AsicPortUnmatchedSaBehavior}}

-----------------------------------------------------------------------------
(* The CPU port, mirrors and trunks.                                       *)

CpuEnable(e) ==
  {Does(Either(e, <<To(AsicCputagEnable, 0), To(AsicCputagPortmask, 0)>>, <<To(AsicCputagEnable, 1)>>))}

CpuTagPort(e) ==
  {Does(<<ToBits(AsicCputagPortmask, {p}), To(AsicCputagTrapPort, p),
          To(AsicCputagInsertMode, Of(e, 0, 2))>>) : p \in Port}

CpuDriver(e) ==
  {Does(<<To(s, Of(e, 0, 1))>>) : s \in {AsicCputagPosition, AsicCputagMode, AsicCputagRxMinLength}}
  \cup {Does(<<To(AsicCputagPriorityRemapping(pri), Of(e, 0, 7))>>) : pri \in Priority}

(* Frames received (rx) and sent (tx) at the mirrored ports; when both are *)
(* asked for they are the same ports, and never the mirroring port.        *)
MirrorPortBased(e) ==
  LET Lowest(ports) == IF ports = {} THEN 0 ELSE CHOOSE p \in ports : \A o \in ports : p <= o
      IsAny(ports) == IF ports = {} THEN 0 ELSE 1
      Mirror(to, rx, tx) ==
        <<To(AsicPortMirrorSource, Lowest(rx \cup tx)), To(AsicPortMirrorMonitor, to),
          ToBits(AsicPortMirrorMask, IF rx # {} THEN rx ELSE tx),
          To(AsicPortMirrorRxFunction, IsAny(rx)), To(AsicPortMirrorTxFunction, IsAny(tx))>>
      ports(p) == (0 .. 7) \ {p}
  IN {Does(Mirror(p, {}, Either(e, {}, ports(p)))) : p \in Port}
     \cup {Does(Mirror(p, Either(e, {}, ports(p)), Either(e, {}, ports(p)))) : p \in Port}
     \cup {Does(Mirror(p, Either(e, {}, ports(p)), {})) : p \in Port}

MirrorPortIso(e) == {Does(<<To(AsicPortMirrorIsolation, Of(e, 0, 1))>>)}

TrunkPort(e) == {Does(<<ToBits(AsicTrunkingGroup(g), OfBits(e, 4))>>) : g \in TrunkGroup}

TrunkDistributionAlgorithm(e) == {Does(<<ToBits(AsicTrunkingHashSelect, OfBits(e, 7))>>)}

TrunkDriver(e) ==
  {Does(<<To(s, Of(e, 0, 1))>>) :
     s \in {AsicTrunkingMode, AsicTrunkingFlood} \cup {AsicTrunkingFc(g) : g \in TrunkGroup}}
  \cup {Does(<<To(AsicTrunkingHashTable(hash), Of(e, 0, 3))>>) : hash \in Hash}

-----------------------------------------------------------------------------
(* LEDs, counters, interrupts and frame lengths.                           *)

LedEnable(e) == {Does(<<ToBits(AsicLedGroupEnable(g), OfBits(e, 5))>>) : g \in LedGroup}

LedOperation(e) ==
  {Does(<<To(LedSelect, Of(e, 0, 1)), To(LedSerialOut(0), Of(e, 0, 1)), To(LedSerialOut(1), Of(e, 0, 1))>>)}

LedMode(e) == {Does(<<To(LedConfigSel, 1), To(AsicLedGroupMode, Of(e, 0, 3))>>)}

LedGroupConfig(e) ==
  {Does(<<To(LedConfigSel, 0), To(AsicLedIndicateInfoConfig(g), Of(e, 0, 15))>>) : g \in LedGroup}

LedModeForce(e) == {Does(ForEach(8, LAMBDA p : To(AsicForceLed(p, g), Of(e, 0, 3)))) : g \in LedGroup}

LedBlinkRate(e) == {Does(<<To(AsicLedBlinkRate, Of(e, 0, 7))>>)}

LedForceBlinkRate(e) == {Does(<<To(AsicLedForceBlinkRate, Of(e, 0, 3))>>)}

LedSerialMode(e) == {Does(<<To(AsicLedSerialActive, Of(e, 0, 1)), To(AsicLedSerialMode, 1)>>)}

(* Two counters make one, of packets or of bytes: every second has a setting. *)
StatLoggingCounterCfg(e) ==
  {Does(<<To(AsicMIBsLoggingType(i), Of(e, 0, 1)), To(AsicMIBsLoggingMode(i), Of(e, 0, 1))>>) : i \in Counter}

StatDriver(e) == {Does(<<To(AsicMIBsUsageMode, Of(e, 0, 1))>>), Does(<<To(AsicMIBsTimer, Of(e, 0, 255))>>)}

IntPolarity(e) == {Does(<<To(AsicInterruptPolarity, Of(e, 0, 1))>>)}

IntControl(e) == {Does(<<To(AsicInterruptMask(type), Of(e, 0, 1))>>) : type \in Interrupt}

SwitchMaxPktLen(e) == {Does(<<To(AsicMaxLengthInRx, Of(e, 0, 3))>>)}

(* A port whose length is that of all ports is taken out of the ports with *)
(* the alternate length; any other length becomes the alternate one, for   *)
(* every port that has it.  The ports and the length are read first, and   *)
(* the ports written back with one changed.                                *)
AltLengthTaken ==
  LET ports == Reg(MAX_LENGTH_CFG, 0)
      length == Reg(MAX_LEN_RX_TX, 0)
  IN <<TakeBits(ports, 0 .. 15, {ports}), TakeBits(length, 0 .. 1, {length})>>

SwitchPortMaxPktLen(e) ==
  {DoesWith(AltLengthTaken, <<Over(AltLengthPort(p), 0), Keep(AltLength)>>) : p \in Port}
  \cup {DoesWith(AltLengthTaken, <<Over(AltLengthPort(p), 1), To(AltLength, Of(e, 0, 3))>>) : p \in Port}

SwitchMacAddress(e) == {Does(<<ToBits(AsicMacAddress, OfBits(e, 48))>>)}

SwitchGreenTrafficType(e) == {Does(<<To(AsicGreenTrafficType(pri), Of(e, 0, 1))>>) : pri \in Priority}

-----------------------------------------------------------------------------

PortCalls(e) == UNION {
  PortMacForceLink(e), PortMacForceLinkExt(e), PortMacLocalLoopbackEnable(e), PortBackpressureEnable(e),
  PortIsolation(e), PortRgmiiDelayExt(e), PortPhyEnableAll(e), PortEfid(e), PortPhyComboPortMedia(e),
  PortRtctEnable(e), PortSmallIpg(e), PortDos(e), PortPhyAutoNegoAbility(e), PortPhyForceModeAbility(e), PortPhyTestMode(e),
  PortPhy1000BaseTMasterSlave(e), PortAdminEnable(e), SwitchGreenEthernet(e), EeePortEnable(e),
  EeeInit(e), L2Init(e), L2FloodPortMask(e), L2LocalPktPermit(e), L2LimitLearningCnt(e),
  L2LimitLearningCntAction(e), L2AgingEnable(e), L2FlushLinkDownPortAddrEnable(e), L2Aging(e),
  L2IpMcastAddrLookup(e), L2Driver(e), TrapUnknownUnicastPktAction(e), CpuEnable(e), CpuTagPort(e), CpuDriver(e),
  MirrorPortBased(e), MirrorPortIso(e), TrunkPort(e), TrunkDistributionAlgorithm(e), TrunkDriver(e),
  LedEnable(e), LedOperation(e), LedMode(e), LedGroupConfig(e), LedModeForce(e), LedBlinkRate(e),
  LedForceBlinkRate(e), LedSerialMode(e), StatLoggingCounterCfg(e), StatDriver(e), IntPolarity(e), IntControl(e), SwitchMaxPktLen(e),
  SwitchPortMaxPktLen(e), SwitchMacAddress(e), SwitchGreenTrafficType(e)}
=============================================================================
