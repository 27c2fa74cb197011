---------------------------- MODULE QosSettings ----------------------------
(***************************************************************************)
(* Priorities, queues, scheduling, rates and storm filters: where the      *)
(* drivers keep them (rtl8367b_asicdrv_qos, _scheduling, _meter, _inbwctrl *)
(* and _storm) and what the rtk_qos_*, rtk_rate_* and rtk_storm_* calls    *)
(* put there.                                                              *)
(***************************************************************************)
EXTENDS RegMap

-----------------------------------------------------------------------------
(* Settings of the drivers.                                                *)

AsicPriorityDot1qRemapping(pri) == Packed(QOS_1Q_PRIORITY_REMAPPING_CTRL0, 4, 4, 3, pri)
AsicPriorityPortBased(port) == Packed(QOS_PORTBASED_PRIORITY_CTRL0, 4, 4, 3, port)
AsicPriorityDscpBased(dscp) == Packed(QOS_DSCP_TO_PRIORITY_CTRL0, 4, 4, 3, dscp)
AsicPriorityDecision(source) == Packed(QOS_INTERNAL_PRIORITY_DECISION_CTRL0, 2, 8, 8, source)
AsicOutputQueueMappingIndex(port) == Packed(QOS_PORT_QUEUE_NUMBER_CTRL0, 4, 4, 3, port)
AsicPriorityToQIDMappingTable(index, pri) == Packed(QOS_1Q_PRIORITY_TO_QID_CTRL0, 4, 4, 3, 8 * index + pri)
AsicRemarkingDot1pAbility(port) == <<Flag(Reg(PORT0_MISC_CFG, port), 12)>>
AsicRemarkingDot1pParameter(pri) == Packed(QOS_1Q_REMARK_CTRL0, 4, 4, 3, pri)
AsicRemarkingDscpAbility == <<Flag(Reg(SWITCH_CTRL0, 0), 8)>>
AsicRemarkingDscpParameter(pri) == Packed(QOS_DSCP_REMARK_CTRL0, 2, 8, 6, pri)

AsicAprMeter(port, qid) ==
  <<Field(Reg(SCHEDULE_PORT0_APR_METER_CTRL0, 4 * port + qid \div 5), 3 * (qid % 5), 3)>>
AsicAprEnable(port) == <<Flag(Reg(SCHEDULE_APR_CTRL0, 0), port)>>
AsicWFQWeight(port, qid) == <<Word(Reg(SCHEDULE_PORT0_QUEUE0_WFQ_WEIGHT, 8 * port + qid))>>
AsicQueueType(port, qid) == Packed(SCHEDULE_QUEUE_TYPE_CTRL0, 16, 1, 1, 8 * port + qid)
AsicPortEgressRate(port) ==
  <<Word(Reg(PORT0_EGRESSBW_CTRL0, port)), From(16, Flag(Reg(PORT0_EGRESSBW_CTRL1, port), 0))>>
AsicPortEgressRateIfg == <<Flag(Reg(SCHEDULE_WFQ_CTRL, 0), 0)>>

(* The rates of meters are counted in these.                               *)
LeakyBucketTick == <<Field(Reg(METER_CTRL0, 0), 0, 8)>>
LeakyBucketToken == <<Field(Reg(METER_CTRL1, 0), 0, 8)>>
AsicWFQBurstSize == <<Word(Reg(SCHEDULE_WFQ_BURST_SIZE, 0))>>

AsicShareMeterRate(meter) ==
  <<Word(Reg(METER0_RATE_CTRL0, meter)), From(16, Word(Reg(METER0_RATE_CTRL1, meter)))>>
AsicShareMeterIfg(meter) == Packed(METER_IFG_CTRL0, 16, 1, 1, meter)
AsicShareMeterBucketSize(meter) == <<Word(Reg(METER0_BUCKET_SIZE, meter))>>

AsicPortIngressBandwidth(port) ==
  <<Word(Reg(INGRESSBW_PORT0_RATE_CTRL0, port)), From(16, Flag(Reg(INGRESSBW_PORT0_RATE_CTRL1, port), 0))>>
AsicPortIngressIfg(port) == <<Flag(Reg(PORT0_MISC_CFG, port), 10)>>
AsicPortIngressFlowControl(port) == <<Flag(Reg(PORT0_MISC_CFG, port), 11)>>

AsicStormFilterBroadcastEnable(port) == <<Flag(Reg(STORM_BCAST, 0), port)>>
AsicStormFilterBroadcastMeter(port) == Packed(STORM_BCAST_METER_CTRL0, 2, 8, 8, port)
AsicStormFilterMulticastEnable(port) == <<Flag(Reg(STORM_MCAST, 0), port)>>
AsicStormFilterMulticastMeter(port) == Packed(STORM_MCAST_METER_CTRL0, 2, 8, 8, port)
AsicStormFilterUnknownMulticastEnable(port) == <<Flag(Reg(STORM_UNKOWN_MCAST, 0), port)>>
AsicStormFilterUnknownMulticastMeter(port) == Packed(STORM_UNMC_METER_CTRL0, 2, 8, 8, port)
AsicStormFilterUnknownUnicastEnable(port) == <<Flag(Reg(STORM_UNKOWN_UCAST, 0), port)>>
AsicStormFilterUnknownUnicastMeter(port) == Packed(STORM_UNDA_METER_CTRL0, 2, 8, 8, port)

AsicFlowControlSelect == <<Flag(Reg(FLOWCTRL_CTRL0, 0), 15)>>

-----------------------------------------------------------------------------
(* Rates.  A rate is given in kbps and kept in units of 8 kbps.            *)

RateMin == 8
RateMax == 8 * 131071

ShareMeter(meter, rate, ifg) ==
  <<To(AsicShareMeterRate(meter), rate \div 8), To(AsicShareMeterIfg(meter), ifg)>>

RateShareMeter(e) ==
  {Does(ShareMeter(m, Of(e, RateMin, RateMax), Of(e, 0, 1))) : m \in Meter}

RateShareMeterBucket(e) ==
  {Does(<<To(AsicShareMeterBucketSize(m), Of(e, 0, RegDataMax))>>) : m \in Meter}

RateIgrBandwidthCtrlRate(e) ==
  {Does(<<To(AsicPortIngressBandwidth(p), Of(e, RateMin, RateMax) \div 8),
          To(AsicPortIngressIfg(p), Of(e, 0, 1)),
          To(AsicPortIngressFlowControl(p), Of(e, 0, 1))>>) : p \in Port}

(* The frame gap counts for every port, whichever port the rate is for.    *)
RateEgrBandwidthCtrlRate(e) ==
  {Does(<<To(AsicPortEgressRate(p), Of(e, RateMin, RateMax) \div 8),
          To(AsicPortEgressRateIfg, Of(e, 0, 1))>>) : p \in Port}

RateEgrQueueBwCtrlEnable(e) ==
  {Does(<<To(AsicAprEnable(p), Of(e, 0, 1))>>) : p \in Port}

(* Four ports at a time share the 32 meters: a port's are 8 from 8 * (port *)
(* mod 4), and the register keeps the place among them.                    *)
RateEgrQueueBwCtrlRate(e) ==
  {Does(<<To(AsicAprMeter(p, q), Of(e, 8 * (p % 4), 8 * (p % 4) + 7) - 8 * (p % 4))>>) :
     p \in Port, q \in Queue}

(* Settings only the driver's own functions reach. *)
RateDriver(e) ==
  {Does(<<To(LeakyBucketTick, Of(e, 0, 255)), To(LeakyBucketToken, Of(e, 0, 255))>>),
   Does(<<To(AsicWFQBurstSize, Of(e, 0, RegDataMax))>>)}

-----------------------------------------------------------------------------
(* Priorities and queues.                                                  *)

QosQid == <<<<0,0,0,0,0,0,0,0>>, <<0,0,0,0,7,7,7,7>>, <<0,0,0,0,1,1,7,7>>, <<0,0,1,1,2,2,7,7>>,
            <<0,0,1,1,2,3,7,7>>, <<0,0,1,1,2,3,4,7>>, <<0,0,1,2,3,4,5,7>>, <<0,1,2,3,4,5,6,7>>>>

QosDecision == <<1, 128, 4, 2, 32, 64, 16, 8>>

(* Eight queues use table 0, the row of one queue; the loops stop at       *)
(* priority 6 and DSCP 62.                                                 *)
QosInit(e) ==
  LET table == Of(e, 1, 8) % 8
      Remap(pri) == <<To(AsicPriorityDot1qRemapping(pri), pri),
                      To(AsicRemarkingDot1pParameter(pri), 0),
                      To(AsicRemarkingDscpParameter(pri), 0)>>
  IN {Does(ForEach(8, LAMBDA p : To(AsicOutputQueueMappingIndex(p), table))
        \o ForEach(7, LAMBDA i : To(AsicPriorityToQIDMappingTable(table, i), QosQid[table + 1][i + 1]))
        \o <<To(AsicFlowControlSelect, 1)>>
        \o ForEach(8, LAMBDA i : To(AsicPriorityDecision(i), QosDecision[i + 1]))
        \o ForEach(8, LAMBDA p : To(AsicPriorityPortBased(p), 0))
        \o ForEach(8, LAMBDA p : To(AsicRemarkingDot1pAbility(p), 0))
        \o <<To(AsicRemarkingDscpAbility, 0)>>
        \o ForEach(21, LAMBDA i : Remap(i \div 3)[1 + (i % 3)])
        \o ForEach(63, LAMBDA d : To(AsicPriorityDscpBased(d), 0)))}

(* Source i gets weight 2 ^ pri, which has no room for the accepted 8: the *)
(* driver refuses it after the sources before were written.                *)
QosPriSel(e) ==
  LET Weights(pri) == ForEach(8, LAMBDA i : To(AsicPriorityDecision(i), 2 ^ pri))
  IN {Does(Weights(Of(e, 0, 7)))}
     \cup {GivesUp(SubSeq(Weights(Of(e, 0, 7)), 1, i)) : i \in 1 .. 7}

Qos1pPriRemap(e) == {Does(<<To(AsicPriorityDot1qRemapping(i), Of(e, 0, 7))>>) : i \in Priority}

QosDscpPriRemap(e) == {Does(<<To(AsicPriorityDscpBased(d), Of(e, 0, 7))>>) : d \in Dscp}

QosPortPri(e) == {Does(<<To(AsicPriorityPortBased(p), Of(e, 0, 7))>>) : p \in Port}

(* 8 queues are kept as 0. *)
QosQueueNum_Plain(e) == {Does(<<To(AsicOutputQueueMappingIndex(p), Of(e, 1, 8))>>) : p \in Port}

QosQueueNum(e) == {Does(<<To(AsicOutputQueueMappingIndex(p), Of(e, 1, 8) % 8)>>) : p \in Port}

(* The map of n queues is table n - 1; a bad queue among the eight ends    *)
(* the call with the priorities before it written.                         *)
QosPriMap(e) ==
  LET Map(n) == ForEach(8, LAMBDA i : To(AsicPriorityToQIDMappingTable(n - 1, i), Of(e, 0, 7)))
  IN {Does(Map(n)) : n \in 1 .. 8} \cup {GivesUp(SubSeq(Map(n), 1, i)) : n \in {1, 8}, i \in {1, 7}}

(* Weight 0 makes a queue strict.  128 passes the check of the call; the   *)
(* driver takes it for queue 0 only.                                       *)
QosSchedulingQueue(e) ==
  LET Strict(p) == ForEach(8, LAMBDA q : To(AsicQueueType(p, q), 0))
      Wfq(p, w) == ForEach(16, LAMBDA i : IF i % 2 = 0 THEN To(AsicQueueType(p, i \div 2), 1)
                                          ELSE To(AsicWFQWeight(p, i \div 2), IF i = 1 THEN w + 1 ELSE w))
  IN UNION {{Does(Strict(p)), Does(Wfq(p, Of(e, 1, 127))), GivesUp(SubSeq(Wfq(p, 127), 1, 3))} : p \in Port}

Qos1pRemarkEnable(e) == {Does(<<To(AsicRemarkingDot1pAbility(p), Of(e, 0, 1))>>) : p \in Port}

Qos1pRemark(e) == {Does(<<To(AsicRemarkingDot1pParameter(i), Of(e, 0, 7))>>) : i \in Priority}

QosDscpRemarkEnable(e) == {Does(<<To(AsicRemarkingDscpAbility, Of(e, 0, 1))>>)}

QosDscpRemark(e) == {Does(<<To(AsicRemarkingDscpParameter(i), Of(e, 0, 63))>>) : i \in Priority}

-----------------------------------------------------------------------------
(* Storm filters.  Each kind of frame has a switch and a meter per port,   *)
(* and one shared meter for the rates given in mode 0.                     *)

StormFilters(p) ==
  {[enable |-> AsicStormFilterUnknownUnicastEnable(p), meter |-> AsicStormFilterUnknownUnicastMeter(p), shared |-> 28],
   [enable |-> AsicStormFilterUnknownMulticastEnable(p), meter |-> AsicStormFilterUnknownMulticastMeter(p), shared |-> 29],
   [enable |-> AsicStormFilterMulticastEnable(p), meter |-> AsicStormFilterMulticastMeter(p), shared |-> 30],
   [enable |-> AsicStormFilterBroadcastEnable(p), meter |-> AsicStormFilterBroadcastMeter(p), shared |-> 31]}

(* Mode 0 gives a rate, the highest meaning none; mode 1 gives a meter.    *)
StormControlRate(e) ==
  UNION {{Does(<<To(f.enable, 1), To(f.meter, f.shared)>> \o ShareMeter(f.shared, Of(e, RateMin, RateMax - 8), Of(e, 0, 1))),
          Does(<<To(f.enable, 0)>>),
          Does(<<To(f.enable, Of(e, 0, 1)), To(f.meter, Of(e, 0, 31))>>)} :
            f \in UNION {StormFilters(p) : p \in Port}}

-----------------------------------------------------------------------------
(* Flow control (rtl8367b_asicdrv_fc).  Of these only the choice between   *)
(* ingress and egress is made by a call of the library; the thresholds are *)
(* for programs that call the driver.                                      *)

Pages == 10
PageNumber == \h400

(* The threshold to stop at is written before the one to start at.         *)
OffThenOn(off, on, e) ==
  {Does(<<ToBits(<<Field(Reg(off, 0), 0, Pages)>>, OfBits(e, Pages)),
          ToBits(<<Field(Reg(on, 0), 0, Pages)>>, OfBits(e, Pages))>>)}

AsicFlowControlJumboMode(e) == {Does(<<To(<<Flag(Reg(FLOWCTRL_JUMBO_SIZE, 0), 2)>>, Of(e, 0, 1))>>)}
AsicFlowControlJumboModeSize(e) == {Does(<<To(<<Field(Reg(FLOWCTRL_JUMBO_SIZE, 0), 0, 2)>>, Of(e, 0, 3))>>)}
AsicFlowControlQueueEgressEnable(e) ==
  {Does(<<To(Packed(FLOWCRTL_EGRESS_QUEUE_ENABLE_CTRL0, 16, 1, 1, 8 * p + q), Of(e, 0, 1))>>) : p \in Port, q \in Queue}
AsicFlowControlDropAll(e) == {Does(<<To(<<Field(Reg(FLOWCTRL_CTRL0, 0), 5, Pages)>>, Of(e, 0, PageNumber - 1))>>)}
AsicFlowControlPauseAllThreshold(e) == {Does(<<To(<<Field(Reg(FLOWCTRL_ALL_ON, 0), 0, Pages)>>, Of(e, 0, PageNumber - 1))>>)}
AsicFlowControlSystemThreshold(e) == OffThenOn(FLOWCTRL_SYS_OFF, FLOWCTRL_SYS_ON, e)
AsicFlowControlSharedThreshold(e) == OffThenOn(FLOWCTRL_SHARE_OFF, FLOWCTRL_SHARE_ON, e)
AsicFlowControlPortThreshold(e) == OffThenOn(FLOWCTRL_PORT_OFF, FLOWCTRL_PORT_ON, e)
AsicFlowControlPortPrivateThreshold(e) == OffThenOn(FLOWCTRL_PORT_PRIVATE_OFF, FLOWCTRL_PORT_PRIVATE_ON, e)
AsicFlowControlSystemDropThreshold(e) == OffThenOn(FLOWCTRL_FCOFF_SYS_OFF, FLOWCTRL_FCOFF_SYS_ON, e)
AsicFlowControlSharedDropThreshold(e) == OffThenOn(FLOWCTRL_FCOFF_SHARE_OFF, FLOWCTRL_FCOFF_SHARE_ON, e)
AsicFlowControlPortDropThreshold(e) == OffThenOn(FLOWCTRL_FCOFF_PORT_OFF, FLOWCTRL_FCOFF_PORT_ON, e)
AsicFlowControlPortPrivateDropThreshold(e) == OffThenOn(FLOWCTRL_FCOFF_PORT_PRIVATE_OFF, FLOWCTRL_FCOFF_PORT_PRIVATE_ON, e)
AsicFlowControlSystemJumboThreshold(e) == OffThenOn(FLOWCTRL_JUMBO_SYS_OFF, FLOWCTRL_JUMBO_SYS_ON, e)
AsicFlowControlSharedJumboThreshold(e) == OffThenOn(FLOWCTRL_JUMBO_SHARE_OFF, FLOWCTRL_JUMBO_SHARE_ON, e)
AsicFlowControlPortJumboThreshold(e) == OffThenOn(FLOWCTRL_JUMBO_PORT_OFF, FLOWCTRL_JUMBO_PORT_ON, e)
AsicFlowControlPortPrivateJumboThreshold(e) == OffThenOn(FLOWCTRL_JUMBO_PORT_PRIVATE_OFF, FLOWCTRL_JUMBO_PORT_PRIVATE_ON, e)
AsicEgressFlowControlQueueDropThreshold(e) ==
  {Does(<<To(<<Field(Reg(FLOWCTRL_QUEUE0_DROP_ON, q), 0, Pages)>>, Of(e, 0, PageNumber - 1))>>) : q \in Queue}
AsicEgressFlowControlPortDropThreshold(e) ==
  {Does(<<To(<<Field(Reg(FLOWCTRL_PORT0_DROP_ON, p), 0, Pages)>>, Of(e, 0, PageNumber - 1))>>) : p \in Port}
AsicEgressFlowControlPortDropGap(e) == {Does(<<To(<<Field(Reg(FLOWCTRL_PORT_GAP, 0), 0, Pages)>>, Of(e, 0, PageNumber - 1))>>)}
AsicEgressFlowControlQueueDropGap(e) == {Does(<<To(<<Field(Reg(FLOWCTRL_QUEUE_GAP, 0), 0, Pages)>>, Of(e, 0, PageNumber - 1))>>)}
AsicFlowControlEgressPortIndep(e) == {Does(<<To(<<Flag(Reg(PORT0_MISC_CFG, p), 13)>>, Of(e, 0, 1))>>) : p \in Port}

-----------------------------------------------------------------------------

QosCalls(e) ==
  UNION {RateShareMeter(e), RateShareMeterBucket(e), RateIgrBandwidthCtrlRate(e),
         RateEgrBandwidthCtrlRate(e), RateEgrQueueBwCtrlEnable(e), RateEgrQueueBwCtrlRate(e),
         RateDriver(e), QosInit(e), QosPriSel(e), Qos1pPriRemap(e), QosDscpPriRemap(e), QosPortPri(e),
         QosQueueNum(e), QosPriMap(e), QosSchedulingQueue(e), Qos1pRemarkEnable(e), Qos1pRemark(e),
         QosDscpRemarkEnable(e), QosDscpRemark(e), StormControlRate(e),
         AsicFlowControlJumboMode(e), AsicFlowControlJumboModeSize(e),
         AsicFlowControlQueueEgressEnable(e), AsicFlowControlDropAll(e),
         AsicFlowControlPauseAllThreshold(e), AsicFlowControlSystemThreshold(e),
         AsicFlowControlSharedThreshold(e), AsicFlowControlPortThreshold(e),
         AsicFlowControlPortPrivateThreshold(e), AsicFlowControlSystemDropThreshold(e),
         AsicFlowControlSharedDropThreshold(e), AsicFlowControlPortDropThreshold(e),
         AsicFlowControlPortPrivateDropThreshold(e), AsicFlowControlSystemJumboThreshold(e),
         AsicFlowControlSharedJumboThreshold(e), AsicFlowControlPortJumboThreshold(e),
         AsicFlowControlPortPrivateJumboThreshold(e), AsicEgressFlowControlQueueDropThreshold(e),
         AsicEgressFlowControlPortDropThreshold(e), AsicEgressFlowControlPortDropGap(e),
         AsicEgressFlowControlQueueDropGap(e), AsicFlowControlEgressPortIndep(e)}
=============================================================================
