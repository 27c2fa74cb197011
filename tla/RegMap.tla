------------------------------- MODULE RegMap -------------------------------
(***************************************************************************)
(* The part of the chip's register map (rtl8367b_reg.h) that the settings  *)
(* use: where a block of registers begins, how far its registers are apart *)
(* and how many there are, and the fields the map declares in them, but    *)
(* for those it calls dummies.  Names are those of the map without         *)
(* RTL8367B_REG_.                                                          *)
(***************************************************************************)
EXTENDS RegCells

PORT0_MISC_CFG == Block(\h000E, 32, 8, {<<0, 4>>, <<4, 2>>, <<6, 1>>, <<7, 1>>, <<8, 1>>, <<9, 1>>, <<10, 1>>, <<11, 1>>, <<12, 1>>, <<13, 1>>, <<14, 1>>, <<15, 1>>})
INGRESSBW_PORT0_RATE_CTRL0 == Block(\h000F, 32, 8, All)
INGRESSBW_PORT0_RATE_CTRL1 == Block(\h0010, 32, 8, Low(1))
PORT0_EEECFG == Block(\h0018, 32, 8, {<<0, 1>>, <<1, 1>>, <<2, 1>>, <<3, 1>>, <<4, 1>>, <<5, 1>>, <<6, 1>>, <<8, 1>>, <<9, 1>>, <<10, 1>>, <<11, 1>>, <<12, 1>>, <<13, 1>>, <<14, 1>>})
PTP_PORT0_CFG1 == Block(\h001E, 32, 8, {<<0, 5>>, <<5, 1>>, <<6, 1>>, <<7, 1>>, <<8, 8>>})
FLOWCTRL_QUEUE0_DROP_ON == Block(\h0200, 1, 8, Low(10))
FLOWCTRL_PORT0_DROP_ON == Block(\h0208, 1, 8, Low(10))
FLOWCTRL_PORT_GAP == One(\h0218, Low(10))
FLOWCTRL_QUEUE_GAP == One(\h0219, Low(10))
SCHEDULE_WFQ_CTRL == One(\h0300, Low(1))
SCHEDULE_WFQ_BURST_SIZE == One(\h0301, All)
SCHEDULE_QUEUE_TYPE_CTRL0 == Block(\h0302, 1, 4, Each(16, 1, 1))
SCHEDULE_APR_CTRL0 == One(\h030A, Each(8, 1, 1))
SCHEDULE_PORT0_QUEUE0_WFQ_WEIGHT == Block(\h030C, 1, 64, {<<0, 7>>, <<0, 16>>})
PORT0_EGRESSBW_CTRL0 == Block(\h038C, 2, 8, All)
PORT0_EGRESSBW_CTRL1 == Block(\h038D, 2, 8, Low(1))
SCHEDULE_PORT0_APR_METER_CTRL0 == Block(\h03AC, 1, 32, Each(5, 3, 3))
BYPASS_LINE_RATE == One(\h03F7, Each(3, 1, 1))
ACL_RULE_TEMPLATE0_CTRL0 == Block(\h0600, 4, 5, Each(2, 8, 7))
ACL_RULE_TEMPLATE0_CTRL1 == Block(\h0601, 4, 5, Each(2, 8, 7))
ACL_RULE_TEMPLATE0_CTRL2 == Block(\h0602, 4, 5, Each(2, 8, 7))
ACL_RULE_TEMPLATE0_CTRL3 == Block(\h0603, 4, 5, Each(2, 8, 7))
ACL_ACTION_CTRL0 == Block(\h0614, 1, 32, {<<0, 1>>, <<1, 1>>, <<2, 1>>, <<3, 1>>, <<4, 1>>, <<5, 1>>, <<6, 1>>, <<8, 1>>, <<9, 1>>, <<10, 1>>, <<11, 1>>, <<12, 1>>, <<13, 1>>, <<14, 1>>})
ACL_SDPORT_RANGE_ENTRY0_CTRL0 == Block(\h0635, 3, 16, All)
ACL_SDPORT_RANGE_ENTRY0_CTRL1 == Block(\h0636, 3, 16, All)
ACL_SDPORT_RANGE_ENTRY0_CTRL2 == Block(\h0637, 3, 16, Low(2))
ACL_VID_RANGE_ENTRY0_CTRL0 == Block(\h0665, 2, 16, Low(12))
ACL_VID_RANGE_ENTRY0_CTRL1 == Block(\h0666, 2, 16, {<<0, 12>>, <<12, 2>>})
ACL_IP_RANGE_ENTRY0_CTRL0 == Block(\h0685, 5, 16, All)
ACL_IP_RANGE_ENTRY0_CTRL1 == Block(\h0686, 5, 16, All)
ACL_IP_RANGE_ENTRY0_CTRL2 == Block(\h0687, 5, 16, All)
ACL_IP_RANGE_ENTRY0_CTRL3 == Block(\h0688, 5, 16, All)
ACL_IP_RANGE_ENTRY0_CTRL4 == Block(\h0689, 5, 16, Low(3))
ACL_ENABLE == One(\h06D5, Each(8, 1, 1))
ACL_UNMATCH_PERMIT == One(\h06D6, Each(8, 1, 1))
ACL_GPIO_POLARITY == One(\h06D7, Low(1))
VLAN_PVID_CTRL0 == Block(\h0700, 1, 4, Each(2, 8, 5))
VLAN_PPB0_VALID == Block(\h0708, 8, 4, Low(8))
VLAN_PPB0_CTRL0 == Block(\h0709, 8, 4, Each(3, 5, 5))
VLAN_PPB0_CTRL1 == Block(\h070A, 8, 4, Each(3, 5, 5))
VLAN_PPB0_CTRL2 == Block(\h070B, 8, 4, {<<0, 5>>, <<5, 5>>, <<10, 2>>})
VLAN_PPB0_CTRL3 == Block(\h070F, 8, 4, All)
VLAN_CTRL == One(\h07A8, Low(1))
VLAN_INGRESS == One(\h07A9, Low(8))
VLAN_ACCEPT_FRAME_TYPE_CTRL0 == One(\h07AA, Each(8, 2, 2))
PORT_PBFIDEN == One(\h07AC, Low(8))
PORT0_PBFID == Block(\h07AD, 1, 8, Low(4))
RMA_CTRL00 == Block(\h0800, 1, 35, {<<0, 1>>, <<1, 1>>, <<2, 1>>, <<3, 3>>, <<6, 1>>, <<7, 2>>})
VLAN_PORTBASED_PRIORITY_CTRL0 == Block(\h0851, 1, 2, Each(4, 4, 3))
VLAN_PPB_PRIORITY_ITEM0_CTRL0 == Block(\h0855, 4, 4, Each(4, 4, 3))
VLAN_PPB_PRIORITY_ITEM0_CTRL1 == Block(\h0856, 4, 4, Each(4, 4, 3))
QOS_1Q_PRIORITY_REMAPPING_CTRL0 == Block(\h0865, 1, 2, Each(4, 4, 3))
QOS_DSCP_TO_PRIORITY_CTRL0 == Block(\h0867, 1, 16, Each(4, 4, 3))
QOS_PORTBASED_PRIORITY_CTRL0 == Block(\h0877, 1, 2, Each(4, 4, 3))
QOS_INTERNAL_PRIORITY_DECISION_CTRL0 == Block(\h087B, 1, 4, Each(2, 8, 8))
QOS_PRIORITY_REMAPPING_IN_CPU_CTRL0 == Block(\h087F, 1, 2, Each(4, 4, 3))
QOS_TRAP_PRIORITY0 == One(\h0881, Each(4, 4, 3))
MAX_LENGTH_CFG == One(\h0883, Each(2, 8, 8))
MAX_LEN_RX_TX == One(\h0884, Low(2))
UNDA_FLOODING_PMSK == One(\h0890, Low(8))
UNMCAST_FLOADING_PMSK == One(\h0891, Low(8))
BCAST_FLOADING_PMSK == One(\h0892, Low(8))
PORT_ISOLATION_PORT0_MASK == Block(\h08A2, 1, 8, Low(8))
SOURCE_PORT_PERMIT == One(\h08C5, Low(8))
IPMCAST_VLAN_LEAKY == One(\h08C6, Low(8))
IPMCAST_PORTISO_LEAKY == One(\h08C7, Low(8))
PORT_SECURITY_CTRL == One(\h08C8, Each(4, 2, 2))
UNKNOWN_IPV4_MULTICAST_CTRL0 == One(\h08C9, Each(8, 2, 2))
UNKNOWN_IPV6_MULTICAST_CTRL0 == One(\h08CB, Each(8, 2, 2))
UNKNOWN_L2_MULTICAST_CTRL0 == One(\h08CD, Each(8, 2, 2))
PORT_TRUNK_CTRL == One(\h08CF, Each(9, 1, 1))
PORT_TRUNK_GROUP_MASK == One(\h08D0, Each(2, 4, 4))
PORT_TRUNK_FLOWCTRL == One(\h08D1, Each(2, 1, 1))
PORT_TRUNK_HASH_MAPPING_CTRL0 == Block(\h08D2, 1, 2, Each(8, 2, 2))
DOS_CFG == One(\h08D4, Each(10, 1, 1))
QOS_PORT_QUEUE_NUMBER_CTRL0 == Block(\h0900, 1, 2, Each(4, 4, 3))
QOS_1Q_PRIORITY_TO_QID_CTRL0 == Block(\h0904, 1, 16, Each(4, 4, 3))
HIGHPRI_CFG == One(\h0916, Low(8))
FLOWCRTL_EGRESS_QUEUE_ENABLE_CTRL0 == Block(\h0930, 1, 4, Each(2, 8, 8))
UNTAG_DSCP_PRI_CFG == One(\h093A, Low(1))
VLAN_EGRESS_KEEP_CTRL0 == Block(\h093B, 1, 4, Each(2, 8, 8))
VLAN_TRANSPARENT_EN_CFG == One(\h093F, Low(1))
IPMC_GROUP_ENTRY0_H == Block(\h0940, 2, 64, Low(12))
IPMC_GROUP_ENTRY0_L == Block(\h0941, 2, 64, All)
VLAN_MSTI0_CTRL0 == Block(\h0A00, 2, 16, Each(8, 2, 2))
LUT_PORT0_LEARN_LIMITNO == Block(\h0A20, 1, 8, Low(12))
LUT_CFG == One(\h0A30, {<<0, 3>>, <<3, 1>>, <<4, 1>>, <<5, 1>>, <<6, 1>>, <<8, 2>>})
LUT_AGEOUT_CTRL == One(\h0A31, Low(8))
PORT_EFID_CTRL0 == Block(\h0A32, 1, 2, Each(4, 4, 3))
L2_FLUSH_CTRL1 == One(\h0A37, {<<0, 12>>, <<12, 4>>})
L2_FLUSH_CTRL2 == One(\h0A38, {<<0, 2>>, <<2, 1>>})
STORM_BCAST == One(\h0A40, Low(8))
STORM_MCAST == One(\h0A41, Low(8))
STORM_UNKOWN_UCAST == One(\h0A42, Low(8))
STORM_UNKOWN_MCAST == One(\h0A43, Low(8))
STORM_BCAST_METER_CTRL0 == Block(\h0A44, 1, 4, Each(2, 8, 5))
STORM_MCAST_METER_CTRL0 == Block(\h0A4C, 1, 4, Each(2, 8, 5))
STORM_UNDA_METER_CTRL0 == Block(\h0A54, 1, 4, Each(2, 8, 5))
STORM_UNMC_METER_CTRL0 == Block(\h0A5C, 1, 4, Each(2, 8, 5))
DOT1X_PORT_ENABLE == One(\h0A80, Low(8))
DOT1X_MAC_ENABLE == One(\h0A81, Low(8))
DOT1X_PORT_AUTH == One(\h0A82, Low(8))
DOT1X_PORT_OPDIR == One(\h0A83, Low(8))
DOT1X_UNAUTH_ACT_W0 == One(\h0A84, Each(8, 2, 2))
DOT1X_CFG == One(\h0A86, {<<0, 5>>, <<5, 1>>, <<6, 1>>})
SVLAN_CFG == One(\h0E80, {<<0, 2>>, <<2, 2>>, <<4, 2>>, <<6, 1>>, <<7, 1>>, <<8, 1>>, <<9, 1>>, <<10, 1>>, <<11, 1>>, <<12, 1>>, <<13, 1>>, <<14, 1>>})
SVLAN_PORTBASED_SVIDX_CTRL0 == Block(\h0E81, 1, 4, Each(2, 8, 6))
SVLAN_UNTAG_UNMAT_CFG == One(\h0E85, Each(2, 8, 6))
MIB_CTRL3 == One(\h1009, Each(16, 1, 1))
MIB_CTRL4 == One(\h100A, {<<0, 8>>, <<8, 1>>})
MIB_CTRL5 == One(\h100B, Each(16, 1, 1))
INTR_CTRL == One(\h1100, Low(1))
INTR_IMR == One(\h1101, Each(12, 1, 1))
MAX_LENGTH_LIMINT_IPG == One(\h1200, {<<0, 5>>, <<5, 1>>, <<6, 7>>, <<13, 2>>})
VS_TPID == One(\h1202, All)
CFG_BACKPRESSURE == One(\h1207, Each(4, 4, 1))
SWITCH_MAC0 == One(\h1209, All)
SWITCH_MAC1 == One(\h120A, All)
SWITCH_MAC2 == One(\h120B, All)
SWITCH_CTRL0 == One(\h120C, Each(3, 4, 1))
QOS_DSCP_REMARK_CTRL0 == Block(\h120D, 1, 4, Each(2, 8, 6))
QOS_1Q_REMARK_CTRL0 == Block(\h1211, 1, 2, Each(4, 4, 3))
SVLAN_UPLINK_PORTMASK == One(\h1218, Low(8))
CPU_PORT_MASK == One(\h1219, Low(8))
CPU_CTRL == One(\h121A, {<<0, 1>>, <<1, 2>>, <<3, 3>>, <<6, 1>>, <<7, 1>>, <<8, 1>>, <<9, 1>>})
MIRROR_CTRL == One(\h121C, {<<0, 3>>, <<4, 3>>, <<9, 1>>, <<10, 1>>, <<11, 1>>})
FLOWCTRL_CTRL0 == One(\h121D, {<<0, 3>>, <<5, 10>>, <<15, 1>>})
FLOWCTRL_ALL_ON == One(\h121E, {<<0, 10>>, <<12, 1>>})
FLOWCTRL_SYS_ON == One(\h121F, Low(10))
FLOWCTRL_SYS_OFF == One(\h1220, Low(10))
FLOWCTRL_SHARE_ON == One(\h1221, Low(10))
FLOWCTRL_SHARE_OFF == One(\h1222, Low(10))
FLOWCTRL_FCOFF_SYS_ON == One(\h1223, Low(10))
FLOWCTRL_FCOFF_SYS_OFF == One(\h1224, Low(10))
FLOWCTRL_FCOFF_SHARE_ON == One(\h1225, Low(10))
FLOWCTRL_FCOFF_SHARE_OFF == One(\h1226, Low(10))
FLOWCTRL_PORT_ON == One(\h1227, Low(10))
FLOWCTRL_PORT_OFF == One(\h1228, Low(10))
FLOWCTRL_PORT_PRIVATE_ON == One(\h1229, Low(10))
FLOWCTRL_PORT_PRIVATE_OFF == One(\h122A, Low(10))
FLOWCTRL_FCOFF_PORT_ON == One(\h122F, Low(10))
FLOWCTRL_FCOFF_PORT_OFF == One(\h1230, Low(10))
FLOWCTRL_FCOFF_PORT_PRIVATE_ON == One(\h1231, Low(10))
FLOWCTRL_FCOFF_PORT_PRIVATE_OFF == One(\h1232, Low(10))
FLOWCTRL_JUMBO_SYS_ON == One(\h1233, Low(10))
FLOWCTRL_JUMBO_SYS_OFF == One(\h1234, Low(10))
FLOWCTRL_JUMBO_SHARE_ON == One(\h1235, Low(10))
FLOWCTRL_JUMBO_SHARE_OFF == One(\h1236, Low(10))
FLOWCTRL_JUMBO_PORT_ON == One(\h1237, Low(10))
FLOWCTRL_JUMBO_PORT_OFF == One(\h1238, Low(10))
FLOWCTRL_JUMBO_PORT_PRIVATE_ON == One(\h1239, Low(10))
FLOWCTRL_JUMBO_PORT_PRIVATE_OFF == One(\h123A, Low(10))
FLOWCTRL_JUMBO_SIZE == One(\h123B, {<<0, 2>>, <<2, 1>>})
FIELD_SELECTOR0 == Block(\h12E7, 1, 16, {<<0, 8>>, <<8, 3>>})
MIRROR_SRC_PMSK == One(\h12FB, Low(8))
DIGITAL_INTERFACE_SELECT == One(\h1305, {<<0, 4>>, <<4, 4>>, <<12, 1>>, <<13, 1>>, <<14, 1>>, <<15, 1>>})
EXT0_RGMXF == One(\h1306, {<<0, 5>>, <<5, 1>>, <<6, 1>>})
EXT1_RGMXF == One(\h1307, {<<0, 5>>, <<5, 1>>, <<6, 1>>})
PHY_AD == One(\h130F, {<<0, 5>>, <<5, 1>>, <<6, 1>>, <<7, 1>>, <<8, 5>>, <<13, 1>>, <<14, 1>>})
DIGITAL_INTERFACE0_FORCE == Block(\h1310, 1, 2, {<<0, 12>>, <<12, 1>>})
MAC0_FORCE_SELECT == Block(\h1312, 1, 8, {<<0, 12>>, <<12, 1>>})
DIGITAL_INTERFACE_SELECT_1 == One(\h13C3, {<<0, 4>>, <<4, 1>>})
DIGITAL_INTERFACE2_FORCE == One(\h13C4, {<<0, 12>>, <<12, 1>>})
EXT2_RGMXF == One(\h13C5, {<<0, 5>>, <<5, 1>>, <<6, 1>>})
FIBER_CFG_2 == One(\h13E8, {<<0, 2>>, <<2, 2>>, <<4, 2>>, <<6, 2>>, <<8, 2>>, <<10, 2>>, <<12, 4>>})
UTP_FIB_DET == One(\h13EB, {<<0, 1>>, <<1, 1>>, <<2, 1>>, <<3, 1>>, <<4, 2>>, <<6, 2>>, <<8, 2>>, <<10, 2>>, <<12, 2>>, <<14, 2>>})
EXT_TXC_DLY == One(\h13F9, Each(5, 3, 3))
METER0_RATE_CTRL0 == Block(\h1400, 2, 32, All)
METER0_RATE_CTRL1 == Block(\h1401, 2, 32, Low(1))
METER0_BUCKET_SIZE == Block(\h1600, 1, 32, All)
METER_CTRL0 == One(\h1700, {<<0, 8>>, <<8, 1>>})
METER_CTRL1 == One(\h1701, Low(8))
METER_IFG_CTRL0 == Block(\h1712, 1, 2, Each(16, 1, 1))
LED_SYS_CONFIG == One(\h1B00, {<<0, 1>>, <<3, 1>>, <<4, 1>>, <<5, 1>>, <<6, 1>>, <<7, 1>>, <<8, 2>>, <<10, 1>>, <<11, 1>>, <<12, 1>>, <<13, 1>>, <<14, 1>>})
LED_MODE == One(\h1B02, {<<0, 1>>, <<1, 3>>, <<4, 2>>, <<6, 2>>, <<8, 1>>, <<9, 2>>, <<11, 1>>, <<12, 2>>, <<14, 1>>, <<15, 1>>})
LED_CONFIGURATION == One(\h1B03, {<<0, 4>>, <<4, 4>>, <<8, 4>>, <<12, 2>>, <<14, 1>>})
CPU_FORCE_LED0_CFG0 == Block(\h1B08, 1, 6, Each(8, 2, 2))
SEL_RTCT_PARA == One(\h1B21, {<<0, 5>>, <<5, 1>>, <<6, 1>>, <<7, 1>>, <<8, 2>>, <<10, 2>>, <<15, 1>>})
RTCT_ENABLE == One(\h1B22, Low(5))
PARA_LED_IO_EN1 == Block(\h1B24, 1, 2, Each(2, 8, 5))
SCAN0_LED_IO_EN == One(\h1B26, Each(3, 1, 1))
IGMP_MLD_CFG0 == One(\h1C00, {<<0, 1>>, <<1, 2>>, <<3, 1>>, <<4, 3>>, <<7, 1>>, <<8, 1>>, <<9, 3>>, <<12, 1>>, <<13, 1>>, <<14, 1>>, <<15, 1>>})
IGMP_MLD_CFG1 == One(\h1C01, {<<0, 2>>, <<2, 1>>})
IGMP_MLD_CFG2 == One(\h1C02, All)
IGMP_STATIC_ROUTER_PORT == One(\h1C04, Low(8))
IGMP_PORT0_CONTROL == Block(\h1C05, 1, 8, {<<0, 2>>, <<2, 2>>, <<4, 2>>, <<6, 2>>, <<8, 2>>, <<10, 1>>, <<11, 1>>, <<12, 1>>, <<13, 1>>, <<14, 1>>})
IGMP_PORT01_MAX_GROUP == Block(\h1C0D, 1, 4, Each(2, 8, 8))
EAV_CTRL0 == One(\h1C30, Low(8))
EAV_CTRL1 == Block(\h1C31, 1, 2, Each(4, 3, 3))
SYS_TIME_FREQ == One(\h1C43, All)
SYS_TIME_OFFSET_L == One(\h1C44, All)
SYS_TIME_OFFSET_H == One(\h1C45, All)
SYS_TIME_OFFSET_512NS_L == One(\h1C46, All)
SYS_TIME_OFFSET_512NS_H == One(\h1C47, {<<0, 5>>, <<5, 1>>})
SDS_CFG4 == One(\h6004, {<<2, 1>>, <<3, 1>>, <<4, 4>>, <<8, 4>>, <<12, 1>>, <<13, 3>>})

-----------------------------------------------------------------------------

RegBlocks ==
  {PORT0_MISC_CFG, INGRESSBW_PORT0_RATE_CTRL0, INGRESSBW_PORT0_RATE_CTRL1, PORT0_EEECFG,
   PTP_PORT0_CFG1, FLOWCTRL_QUEUE0_DROP_ON, FLOWCTRL_PORT0_DROP_ON, FLOWCTRL_PORT_GAP,
   FLOWCTRL_QUEUE_GAP, SCHEDULE_WFQ_CTRL, SCHEDULE_WFQ_BURST_SIZE, SCHEDULE_QUEUE_TYPE_CTRL0,
   SCHEDULE_APR_CTRL0, SCHEDULE_PORT0_QUEUE0_WFQ_WEIGHT, PORT0_EGRESSBW_CTRL0, PORT0_EGRESSBW_CTRL1,
   SCHEDULE_PORT0_APR_METER_CTRL0, BYPASS_LINE_RATE, ACL_RULE_TEMPLATE0_CTRL0,
   ACL_RULE_TEMPLATE0_CTRL1, ACL_RULE_TEMPLATE0_CTRL2, ACL_RULE_TEMPLATE0_CTRL3, ACL_ACTION_CTRL0,
   ACL_SDPORT_RANGE_ENTRY0_CTRL0, ACL_SDPORT_RANGE_ENTRY0_CTRL1, ACL_SDPORT_RANGE_ENTRY0_CTRL2,
   ACL_VID_RANGE_ENTRY0_CTRL0, ACL_VID_RANGE_ENTRY0_CTRL1, ACL_IP_RANGE_ENTRY0_CTRL0,
   ACL_IP_RANGE_ENTRY0_CTRL1, ACL_IP_RANGE_ENTRY0_CTRL2, ACL_IP_RANGE_ENTRY0_CTRL3,
   ACL_IP_RANGE_ENTRY0_CTRL4, ACL_ENABLE, ACL_UNMATCH_PERMIT, ACL_GPIO_POLARITY, VLAN_PVID_CTRL0,
   VLAN_PPB0_VALID, VLAN_PPB0_CTRL0, VLAN_PPB0_CTRL1, VLAN_PPB0_CTRL2, VLAN_PPB0_CTRL3, VLAN_CTRL,
   VLAN_INGRESS, VLAN_ACCEPT_FRAME_TYPE_CTRL0, PORT_PBFIDEN, PORT0_PBFID, RMA_CTRL00,
   VLAN_PORTBASED_PRIORITY_CTRL0, VLAN_PPB_PRIORITY_ITEM0_CTRL0, VLAN_PPB_PRIORITY_ITEM0_CTRL1,
   QOS_1Q_PRIORITY_REMAPPING_CTRL0, QOS_DSCP_TO_PRIORITY_CTRL0, QOS_PORTBASED_PRIORITY_CTRL0,
   QOS_INTERNAL_PRIORITY_DECISION_CTRL0, QOS_PRIORITY_REMAPPING_IN_CPU_CTRL0, QOS_TRAP_PRIORITY0,
   MAX_LENGTH_CFG, MAX_LEN_RX_TX, UNDA_FLOODING_PMSK, UNMCAST_FLOADING_PMSK, BCAST_FLOADING_PMSK,
   PORT_ISOLATION_PORT0_MASK, SOURCE_PORT_PERMIT, IPMCAST_VLAN_LEAKY, IPMCAST_PORTISO_LEAKY,
   PORT_SECURITY_CTRL, UNKNOWN_IPV4_MULTICAST_CTRL0, UNKNOWN_IPV6_MULTICAST_CTRL0,
   UNKNOWN_L2_MULTICAST_CTRL0, PORT_TRUNK_CTRL, PORT_TRUNK_GROUP_MASK, PORT_TRUNK_FLOWCTRL,
   PORT_TRUNK_HASH_MAPPING_CTRL0, DOS_CFG, QOS_PORT_QUEUE_NUMBER_CTRL0,
   QOS_1Q_PRIORITY_TO_QID_CTRL0, HIGHPRI_CFG, FLOWCRTL_EGRESS_QUEUE_ENABLE_CTRL0,
   UNTAG_DSCP_PRI_CFG, VLAN_EGRESS_KEEP_CTRL0, VLAN_TRANSPARENT_EN_CFG, IPMC_GROUP_ENTRY0_H,
   IPMC_GROUP_ENTRY0_L, VLAN_MSTI0_CTRL0, LUT_PORT0_LEARN_LIMITNO, LUT_CFG, LUT_AGEOUT_CTRL,
   PORT_EFID_CTRL0, L2_FLUSH_CTRL1, L2_FLUSH_CTRL2, STORM_BCAST, STORM_MCAST, STORM_UNKOWN_UCAST,
   STORM_UNKOWN_MCAST, STORM_BCAST_METER_CTRL0, STORM_MCAST_METER_CTRL0, STORM_UNDA_METER_CTRL0,
   STORM_UNMC_METER_CTRL0, DOT1X_PORT_ENABLE, DOT1X_MAC_ENABLE, DOT1X_PORT_AUTH, DOT1X_PORT_OPDIR,
   DOT1X_UNAUTH_ACT_W0, DOT1X_CFG, SVLAN_CFG, SVLAN_PORTBASED_SVIDX_CTRL0, SVLAN_UNTAG_UNMAT_CFG,
   MIB_CTRL3, MIB_CTRL4, MIB_CTRL5, INTR_CTRL, INTR_IMR, MAX_LENGTH_LIMINT_IPG, VS_TPID,
   CFG_BACKPRESSURE, SWITCH_MAC0, SWITCH_MAC1, SWITCH_MAC2, SWITCH_CTRL0, QOS_DSCP_REMARK_CTRL0,
   QOS_1Q_REMARK_CTRL0, SVLAN_UPLINK_PORTMASK, CPU_PORT_MASK, CPU_CTRL, MIRROR_CTRL, FLOWCTRL_CTRL0,
   FLOWCTRL_ALL_ON, FLOWCTRL_SYS_ON, FLOWCTRL_SYS_OFF, FLOWCTRL_SHARE_ON, FLOWCTRL_SHARE_OFF,
   FLOWCTRL_FCOFF_SYS_ON, FLOWCTRL_FCOFF_SYS_OFF, FLOWCTRL_FCOFF_SHARE_ON, FLOWCTRL_FCOFF_SHARE_OFF,
   FLOWCTRL_PORT_ON, FLOWCTRL_PORT_OFF, FLOWCTRL_PORT_PRIVATE_ON, FLOWCTRL_PORT_PRIVATE_OFF,
   FLOWCTRL_FCOFF_PORT_ON, FLOWCTRL_FCOFF_PORT_OFF, FLOWCTRL_FCOFF_PORT_PRIVATE_ON,
   FLOWCTRL_FCOFF_PORT_PRIVATE_OFF, FLOWCTRL_JUMBO_SYS_ON, FLOWCTRL_JUMBO_SYS_OFF,
   FLOWCTRL_JUMBO_SHARE_ON, FLOWCTRL_JUMBO_SHARE_OFF, FLOWCTRL_JUMBO_PORT_ON,
   FLOWCTRL_JUMBO_PORT_OFF, FLOWCTRL_JUMBO_PORT_PRIVATE_ON, FLOWCTRL_JUMBO_PORT_PRIVATE_OFF,
   FLOWCTRL_JUMBO_SIZE, FIELD_SELECTOR0, MIRROR_SRC_PMSK, DIGITAL_INTERFACE_SELECT, EXT0_RGMXF,
   EXT1_RGMXF, PHY_AD, DIGITAL_INTERFACE0_FORCE, MAC0_FORCE_SELECT, DIGITAL_INTERFACE_SELECT_1,
   DIGITAL_INTERFACE2_FORCE, EXT2_RGMXF, FIBER_CFG_2, UTP_FIB_DET, EXT_TXC_DLY, METER0_RATE_CTRL0,
   METER0_RATE_CTRL1, METER0_BUCKET_SIZE, METER_CTRL0, METER_CTRL1, METER_IFG_CTRL0, LED_SYS_CONFIG,
   LED_MODE, LED_CONFIGURATION, CPU_FORCE_LED0_CFG0, SEL_RTCT_PARA, RTCT_ENABLE, PARA_LED_IO_EN1,
   SCAN0_LED_IO_EN, IGMP_MLD_CFG0, IGMP_MLD_CFG1, IGMP_MLD_CFG2, IGMP_STATIC_ROUTER_PORT,
   IGMP_PORT0_CONTROL, IGMP_PORT01_MAX_GROUP, EAV_CTRL0, EAV_CTRL1, SYS_TIME_FREQ,
   SYS_TIME_OFFSET_L, SYS_TIME_OFFSET_H, SYS_TIME_OFFSET_512NS_L, SYS_TIME_OFFSET_512NS_H, SDS_CFG4}

(* The fields the map declares at an address. *)
FieldsAt(a) == UNION {b.fields : b \in {x \in RegBlocks : \E i \in 0 .. x.count - 1 : Reg(x, i) = a}}

(* The map gives an address to one register, though blocks of registers    *)
(* lie within one another (a port's, a rule's), and fields lie within the  *)
(* 16 bits of theirs.                                                      *)
ASSUME MapAssumption ==
  /\ \A x, y \in RegBlocks : \A i \in 0 .. x.count - 1, j \in 0 .. y.count - 1 : Reg(x, i) = Reg(y, j) => x = y /\ i = j
  /\ \A x \in RegBlocks : \A f \in x.fields : f[1] \in Nat /\ f[2] \in Nat /\ f[1] + f[2] <= 16
=============================================================================
