------------------------------- MODULE MCAcl -------------------------------
(***************************************************************************)
(* An instance of Acl for TLC: one port, two slots, two rules and three    *)
(* templates, of which 0 and 2 have a place for care tags.                 *)
(***************************************************************************)
EXTENDS Acl

CONSTANTS p1

OneMask == {{p1}}

Filter(on, adv, range, ps) ==
    [on |-> on, adv |-> adv, range |-> range, ports |-> ps, good |-> TRUE, invert |-> range]
\* A care tag that needs a rule of its own before the filter's, one that does
\* not, a range of ports over two templates, and a filter without any field.
TagApart   == Filter({1}, TRUE, FALSE, {p1})
TagWithin  == Filter({2}, TRUE, FALSE, {p1})
TwoFields  == Filter({0, 1}, FALSE, TRUE, {p1})
NoField    == Filter({}, FALSE, FALSE, {p1})

Act(idx, vid, late) ==
    [idx |-> idx, vid |-> vid, late |-> late, rest |-> {"fwd"}, good |-> TRUE]
ToSvid == [type |-> "svid", idx |-> 0]

\* VLANs by number, alone and with a later action that is refused (a slot out
\* of range) or takes their place; a slot by index; an action without a VLAN; a
\* filter with ports out of range.
FewRequests ==
    {[f |-> TagApart,  a |-> Act(NoIdx, 2, NoLate)],
     [f |-> TagWithin, a |-> Act(NoIdx, 3, [type |-> "egress", idx |-> 2])],
     [f |-> TagWithin, a |-> Act(NoIdx, 3, ToSvid)],
     [f |-> TagWithin, a |-> Act(1, NoVid, NoLate)],
     [f |-> TwoFields, a |-> Act(NoIdx, NoVid, NoLate)],
     [f |-> NoField,   a |-> Act(NoIdx, NoVid, NoLate)],
     [f |-> [NoField EXCEPT !.good = FALSE], a |-> Act(NoIdx, NoVid, NoLate)]}
=============================================================================
