----------------------------- MODULE MCSettings -----------------------------
(***************************************************************************)
(* Registers with the calls of the library: one call on its own, over the  *)
(* whole table of calls, and two processes over calls that share registers.*)
(***************************************************************************)
EXTENDS Settings

CONSTANTS c1, c2

MCCaller == {c1, c2}

(* Indices are drawn from the ends and from both sides of the places where *)
(* packed fields go on in the next register.  Loops of the library still   *)
(* go over all of them.                                                    *)
MCPort == {0, 3, 4, 7}
MCPriority == {0, 3, 4, 7}
MCQueue == {0, 4, 5, 7}
MCDscp == {0, 3, 4, 60, 63}
MCMeter == {0, 15, 16, 31}
MCPhy == {0, 4}
MCIpmcGroup == {0, 63}
MCHash == {0, 7, 8, 15}
MCCounter == {0, 15}
MCInterrupt == {0, 7, 11}
MCRmaOctet == {0, 1, 3, 4, 8, 15, 16, 19, 24, 26, 31, 33, 34, 47}
MCPpbItem == {0, 3}
MCMsti == {0, 1, 15}
MCRange == {0, 1, 15}
MCTemplate == {0, 4}
MCRule == {0, 1, 62, 63}

(* Arguments are drawn from the ends of what a function accepts.           *)
MCEdge == [least |-> 0, most |-> 2 ^ 30]

MCCall == UNION {AllCalls(MCEdge[n]) : n \in DOMAIN MCEdge}

MCRound == DOMAIN MCEdge \cup {"pairs", "rma", "lengths"}

(* Calls that change bits of one register of a port, and others besides. *)
PairCalls ==
  {k \in UNION {RateIgrBandwidthCtrlRate(e) \cup VlanTagMode(e) \cup PortSmallIpg(e) : e \in {MCEdge[n] : n \in DOMAIN MCEdge}} :
     Reg(PORT0_MISC_CFG, 0) \in Places(k)}

(* Calls that write back words they have taken: fields of reserved         *)
(* addresses in the register that also has the priority and in another,    *)
(* and the ports with the alternate length.                                *)
RmaCalls ==
  [c \in MCCaller |-> IF c = c1 THEN {RmaSet(RmaOperation(0), 3), RmaSet(RmaOperation(3), 3)}
                      ELSE {RmaSet(RmaOperation(0), 0), RmaSet(RmaVlanLeaky(0), 1), RmaSet(RmaVlanLeaky(3), 1)}]

LengthCalls ==
  {k \in SwitchPortMaxPktLen(MCEdge["most"]) :
     \E p \in {0, 7} : AltLengthPort(p) \in Named(k)}

MCCallsOf ==
  [n \in MCRound |-> [c \in MCCaller |->
     CASE n = "pairs" -> PairCalls
       [] n = "rma" -> RmaCalls[c]
       [] n = "lengths" -> LengthCalls
       [] n \in DOMAIN MCEdge /\ c = c1 -> AllCalls(MCEdge[n])
       [] n \in DOMAIN MCEdge /\ c = c2 -> {}]]

(* Where two processes meet, neighbouring bits and registers differ.       *)
MCFillOf ==
  [n \in MCRound |-> [r \in Register |->
     IF n \in DOMAIN MCEdge THEN Either(MCEdge[n], 0 .. Width - 1, {})
     ELSE {b \in 0 .. Width - 1 : (b + r) % 2 = 0}]]

MCMostOf == [n \in MCRound |-> IF n \in DOMAIN MCEdge THEN 1 ELSE 2]
=============================================================================
