------------------------------ MODULE MCSvlan ------------------------------
(***************************************************************************)
(* Instances of Svlan for TLC.  The tables meet only in the slots, so a    *)
(* behaviour of MCSpec makes slot calls and the calls of one table, its    *)
(* focus, chosen in the initial state.                                     *)
(***************************************************************************)
EXTENDS Svlan, TLC

CONSTANTS p1, p2

VARIABLE focus

MCInit == Init /\ focus \in {"frames", "c2s", "mc2s", "sp2c"}
MCNext ==
    /\ \/ SlotCall
       \/ focus = "frames" /\ FrameCall
       \/ focus = "c2s" /\ C2sCall
       \/ focus = "mc2s" /\ Mc2sCall
       \/ focus = "sp2c" /\ Sp2cCall
    /\ UNCHANGED focus
MCSpec == MCInit /\ [][MCNext]_<<vars, focus>>

BothMasks == {{}, Ports}
\* A slot freed by index that keeps its members, and one that takes members.
SomeRawCfgs == {[svid |-> 0, mbr |-> Ports], [svid |-> 1, mbr |-> {}]}
SwapPorts == Permutations({p1, p2})
=============================================================================
