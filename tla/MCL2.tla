-------------------------------- MODULE MCL2 --------------------------------
(***************************************************************************)
(* An instance of L2Table for TLC.  Two unicast addresses and a multicast  *)
(* address compete for two places, one of the addresses has a single way;  *)
(* an IP multicast group lives behind them.  A behaviour is about the      *)
(* other entries, or about lists of them while other callers add and       *)
(* delete, or about the exception table.                                   *)
(***************************************************************************)
EXTENDS L2Table

VARIABLE focus

McVid  == [k \in UcKeys |-> IF k = "u1" THEN 0 ELSE 1]
McWays == [k \in Keys |-> CASE k = "u1" -> {0, 1} [] k = "u2" -> {0}
                            [] k = "m1" -> {0, 1} [] OTHER -> {2}]

TableCalls == UcCalls \cup McCalls
\* What other callers do while one makes a list.
OtherCalls ==
    {c \in Calls : c.op \in {"addr_del", "mcast_add", "ip_add"}
                     \/ (c.op = "addr_add" /\ c.static /\ ~c.auth)}

MCInit == Init /\ focus \in {"entries", "list", "except"}
MCNext ==
    /\ \/ focus = "entries" /\ (ChipStep \/ FlushCall \/ Proceed \/ \E c \in TableCalls : Begin(c))
       \/ focus = "list" /\ (ChipStep \/ ListCall \/ Proceed \/ \E c \in OtherCalls : Begin(c))
       \/ focus = "except" /\ ExcCall
    /\ Stays
    /\ UNCHANGED focus
MCSpec == MCInit /\ [][MCNext]_<<vars, stayed, focus>>
MCFairSpec == MCSpec /\ SF_vars(NextGet) /\ WF_vars(Lookup) /\ WF_vars(Write) /\ WF_vars(Check)
=============================================================================
