------------------------------- MODULE MCMcfg -------------------------------
(***************************************************************************)
(* Instances of Mcfg and McfgText for TLC; a behaviour is one of either.   *)
(*                                                                         *)
(* Mcfg: "s.a" and "s.ab" share a chain before the table doubles and not   *)
(* after (hashes 0 and 2 with two chains, then four); the ranged key       *)
(* "s.a-1" has the hash of "s.a", its stem, which also begins "s.ab".      *)
(*                                                                         *)
(* McfgText: two keys without a section -- one that strcmp puts after a    *)
(* section's keys -- and a section "ip" that begins the name of the        *)
(* section "ipg" (but sorts before it).                                    *)
(***************************************************************************)
EXTENDS Mcfg, McfgText

DashKeys     == {"s.a", "s.a-1", "s.ab"}
DashBegins   == [k \in {"s.a-1"} |-> DashKeys]
McHash       == [k \in Keys |-> IF k = "s.ab" THEN 2 ELSE 0]
McKeyLen     == [k \in Keys |-> Len(k)]
McSection    == [k \in Keys |-> "s"]
McSectionLen == [s \in {"s"} |-> 1]
McValLen     == [v \in Values |-> Len(v)]

McSorted == << <<"none", "a">>, <<"ip", "x">>, <<"ip", "y">>, <<"ipg", "x">>, <<"none", "z">> >>
McKeys   == {McSorted[i] : i \in 1 .. 5}
McHeads  == {<<"ip", "ip">>, <<"ipg", "ipg">>, <<"none", "none">>, <<"ip", "ipg">>}
McCut    == [v \in {"1", "1;R", ";W"} |-> CASE v = ";W" -> "" [] OTHER -> "1"]
McEdits  == {Assign("x", "1;R"), BlankLine, BadLine}

\* No file is written: a text that is done with, of an empty dictionary.
NoText == /\ phase = "done" /\ dict = [k \in TextKeys |-> Absent]
          /\ pos = 1 /\ sec = TopLevel /\ text = <<>> /\ edited = {}
          /\ back = dict /\ rv = -1

MCInit == Init /\ (TextInit \/ NoText)
MCNext ==
    \/ Next /\ phase = "done" /\ pos = 1 /\ text = <<>> /\ UNCHANGED textvars
    \/ TextNext /\ UNCHANGED vars
MCSpec == MCInit /\ [][MCNext]_<<vars, textvars>>
=============================================================================
