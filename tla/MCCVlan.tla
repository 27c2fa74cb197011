------------------------------ MODULE MCCVlan ------------------------------
(***************************************************************************)
(* Instances of CVlan for TLC.  Two ports and two slots are the smallest   *)
(* switch with a slot to share, one to fill and one to replace; VLANs 2    *)
(* and 3 on top of the default VLAN 1 overfill the slots.  A behaviour     *)
(* either rewrites the tables as well ("tables") or has protocol rules     *)
(* ("rules"): the two families of calls share nothing but the slots.       *)
(***************************************************************************)
EXTENDS CVlan, TLC

CONSTANTS p1, p2

VARIABLE focus

SwapPorts   == Permutations({p1, p2})
\* A slot of VLAN 2, rewritten by index without its priority.
SomeRawCfgs == {[evid |-> 2, mbr |-> Ports, vbp |-> NoVbp]}

MCInit == Init /\ focus \in {"tables", "rules"}
MCNext ==
    /\ \/ PvidCall \/ GuestCall \/ CleanInit
       \/ focus = "tables" /\ TableCall
       \/ focus = "rules" /\ ProtoCall
    /\ UNCHANGED focus
MCSpec == MCInit /\ [][MCNext]_<<vars, focus>>
=============================================================================
