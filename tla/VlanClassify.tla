--------------------------- MODULE VlanClassify ---------------------------
(***************************************************************************)
(* What the VLAN calls of rtk_api.c promise their callers, without slots:  *)
(* the VLAN of each port's untagged frames, the VLAN of each port's        *)
(* protocol rules, and the guest VLAN of the 802.1X ports.                 *)
(*                                                                         *)
(* The promise is weaker than the API's documentation in one place: a PVID *)
(* call may have to replace one VLAN w of the chip's short list, and then  *)
(* every rule of ANOTHER port and an idle guest VLAN that were in w are    *)
(* moved to the new VLAN with it.                                          *)
(***************************************************************************)
EXTENDS Naturals

CONSTANTS Ports, CallVids, Prios, Protos

VARIABLES
    pv,         \* per port: VLAN and priority of its untagged frames
    rl,         \* per port and protocol: the set of its rules, at most one
    guest,      \* the guest VLAN
    guestPorts  \* the ports that use it

cvars == <<pv, rl, guest, guestPorts>>

Tag(v, pr) == [vid |-> v, pri |-> pr]

Init ==
    /\ pv = [p \in Ports |-> Tag(1, 0)]
    /\ rl = [p \in Ports |-> [t \in Protos |-> {}]]
    /\ guest = 1
    /\ guestPorts = {}

InVlan(w) == {p \in Ports : pv[p].vid = w}
HasRuleIn(p, w) == \E t \in Protos : \E r \in rl[p][t] : r.vid = w

SetPvid(p, v, pr) ==
    /\ pv' = [pv EXCEPT ![p] = Tag(v, pr)]
    /\ UNCHANGED <<rl, guest, guestPorts>>

SetPvidReplacing(p, v, pr, w) ==
    /\ pv' = [pv EXCEPT ![p] = Tag(v, pr)]
    /\ w # v
    /\ InVlan(w) = {} /\ ~HasRuleIn(p, w)
    /\ guest = w => guestPorts = {}
    /\ rl' = [q \in Ports |-> [t \in Protos |->
                {IF r.vid = w THEN Tag(v, r.pri) ELSE r : r \in rl[q][t]}]]
    /\ guest' = IF guest = w THEN v ELSE guest
    /\ UNCHANGED guestPorts

AddRule(p, t, v, pr) ==
    /\ UNCHANGED <<pv, guest, guestPorts>>
    /\ rl[p][t] = {}
    /\ rl' = [rl EXCEPT ![p][t] = {Tag(v, pr)}]

DelRule(p, t) ==
    /\ UNCHANGED <<pv, guest, guestPorts>>
    /\ rl[p][t] # {}
    /\ rl' = [rl EXCEPT ![p][t] = {}]

DelRules(p) ==
    /\ UNCHANGED <<pv, guest, guestPorts>>
    /\ rl' = [rl EXCEPT ![p] = [t \in Protos |-> {}]]

SetGuest(v) ==
    /\ guest' = v
    /\ UNCHANGED <<pv, rl, guestPorts>>

UseGuest(p, on) ==
    /\ guestPorts' = IF on THEN guestPorts \cup {p} ELSE guestPorts \ {p}
    /\ UNCHANGED <<pv, rl, guest>>

\* rtk_vlan_init while there is no rule.
Restart ==
    /\ \A p \in Ports, t \in Protos : rl[p][t] = {}
    /\ pv' = [p \in Ports |-> Tag(1, 0)]
    /\ guest' = 1
    /\ UNCHANGED <<rl, guestPorts>>

Next ==
    \/ Restart
    \/ \E p \in Ports, v \in CallVids, pr \in Prios :
          \/ SetPvid(p, v, pr)
          \/ \E w \in CallVids \cup {1} : SetPvidReplacing(p, v, pr, w)
          \/ \E t \in Protos : AddRule(p, t, v, pr)
    \/ \E p \in Ports : DelRules(p) \/ \E t \in Protos : DelRule(p, t)
    \/ \E v \in CallVids : SetGuest(v)
    \/ \E p \in Ports, on \in BOOLEAN : UseGuest(p, on)

Spec == Init /\ [][Next]_cvars
=============================================================================
