------------------------------ MODULE McfgText ------------------------------
(***************************************************************************)
(* The text form of the dictionary of ts_test/vns_config.c, written by     *)
(* mcfg_dump_buffer one key at a time in the order of __mcompare, edited   *)
(* by an operator (one line inserted, or none) and read back line by line  *)
(* by mcfg_load_buffer into an empty dictionary.                           *)
(*                                                                         *)
(* A key is a pair <<section, name>>.  A line is a section header, an      *)
(* assignment, a line that is blank once its comment is cut off, or one    *)
(* that is none of these.  Dashes in keys are the business of Mcfg.        *)
(***************************************************************************)
EXTENDS Integers, Sequences, FiniteSets, SequencesExt

CONSTANTS
    TextKeys,   \* the keys of the dictionary
    TopLevel,   \* the section of a key without a '.'
    SortedKeys, \* all keys, in the order of strcmp alone
    Heads,      \* the pairs <<s, t>> of sections where t begins with s
    TextValues, \* the values stored
    Cut,        \* per value: what is left of it before its first ';', trimmed
    Blank,      \* the empty string, as such a rest
    Undef,      \* an entry without a value
    Absent,     \* no entry
    EditLines   \* the lines an operator may insert

Header(s)    == [kind |-> "header", sec |-> s]
Assign(n, v) == [kind |-> "assign", name |-> n, val |-> v]
BlankLine    == [kind |-> "blank"]
BadLine      == [kind |-> "bad"]

ASSUME McfgTextAssumption ==
    /\ SortedKeys \in Seq(TextKeys)
    /\ ToSet(SortedKeys) = TextKeys /\ Len(SortedKeys) = Cardinality(TextKeys)
    /\ \A k \in TextKeys : k = <<k[1], k[2]>>
    /\ \A s \in {k[1] : k \in TextKeys} : <<s, s>> \in Heads
    /\ Cut \in [TextValues -> TextValues \cup {Blank}]
    /\ Blank \notin TextValues /\ Undef \notin TextValues /\ Absent \notin TextValues
    /\ \A l \in EditLines : l.kind \in {"assign", "blank", "bad"}

VARIABLES
    phase,   \* "dump", "edit", "load" or "done"
    dict,    \* the dictionary being written
    pos,     \* next key to write, or next line to read
    sec,     \* the section the writer last announced, or the reader last read
    text,    \* the lines
    edited,  \* the key the operator's line assigns to, if any
    back,    \* the dictionary read back
    rv       \* result: 0 or -1

textvars == <<phase, dict, pos, sec, text, edited, back, rv>>

\* The keys of S, in the order of strcmp.
InOrder(S) ==
    LET listed[i \in 0 .. Len(SortedKeys)] ==
            IF i = 0 THEN <<>>
            ELSE IF SortedKeys[i] \in S THEN Append(listed[i - 1], SortedKeys[i])
            ELSE listed[i - 1]
    IN listed[Len(SortedKeys)]
Sectionless == {k \in TextKeys : k[1] = TopLevel}

\* __mcompare: the keys without a section first, then the order of strcmp.
Order_Strcmp == SortedKeys
Order == InOrder(Sectionless) \o InOrder(TextKeys \ Sectionless)

TextInit ==
    /\ phase = "dump"
    /\ dict \in [TextKeys -> TextValues \cup {Undef, Absent}]
    /\ pos = 1
    /\ sec = TopLevel
    /\ text = <<>>
    /\ edited = {}
    /\ back = [k \in TextKeys |-> Absent]
    /\ rv = 0

(***************************************************************************)
(* mcfg_dump_buffer: a header when the key's section differs from the one  *)
(* last announced, compared over the length of the key's own section.      *)
(***************************************************************************)
Announced(s) == s = TopLevel \/ (sec # TopLevel /\ <<s, sec>> \in Heads)
HeaderFor(s) == IF Announced(s) THEN <<>> ELSE <<BlankLine, Header(s)>>
LineFor(k)   == IF dict[k] = Undef THEN BlankLine ELSE Assign(k[2], dict[k])

DumpKey ==
    LET k == Order[pos]
    IN /\ phase = "dump" /\ pos <= Len(Order)
       /\ IF dict[k] = Absent
          THEN UNCHANGED <<text, sec>>
          ELSE /\ text' = text \o HeaderFor(k[1]) \o <<LineFor(k)>>
               /\ sec' = IF Announced(k[1]) THEN sec ELSE k[1]
       /\ pos' = pos + 1
       /\ UNCHANGED <<phase, dict, edited, back, rv>>

\* mcfg_dump_file of a dictionary that never had a key: the file has been
\* opened for writing when mcfg_get_keys_len reports nothing to dump.
DumpEmpty ==
    /\ phase = "dump" /\ \A k \in TextKeys : dict[k] = Absent
    /\ phase' = "done" /\ rv' = -1
    /\ UNCHANGED <<dict, pos, sec, text, edited, back>>

DumpDone ==
    /\ phase = "dump" /\ pos > Len(Order)
    /\ \E k \in TextKeys : dict[k] # Absent
    /\ phase' = "edit" /\ pos' = 1 /\ sec' = TopLevel
    /\ UNCHANGED <<dict, text, edited, back, rv>>

\* The section in effect before line i.
SectionAt(i) ==
    LET heads == {j \in 1 .. i - 1 : text[j].kind = "header"}
    IN IF heads = {} THEN TopLevel ELSE text[CHOOSE j \in heads : \A h \in heads : h <= j].sec

Edit ==
    \E i \in 1 .. Len(text) + 1, l \in EditLines :
        /\ phase = "edit"
        /\ text' = InsertAt(text, i, l)
        /\ edited' = IF l.kind = "assign" THEN {<<SectionAt(i), l.name>>} ELSE {}
        /\ l.kind = "assign" => <<SectionAt(i), l.name>> \in TextKeys
        /\ phase' = "load"
        /\ UNCHANGED <<dict, pos, sec, back, rv>>

NoEdit ==
    /\ phase = "edit" /\ phase' = "load"
    /\ UNCHANGED <<dict, pos, sec, text, edited, back, rv>>

(***************************************************************************)
(* mcfg_load_buffer, and mcfg_setstring on what it reads.                  *)
(***************************************************************************)
Store(k, v) == back' = [back EXCEPT ![k] = v]
Reading(kind) == phase = "load" /\ pos <= Len(text) /\ text[pos].kind = kind
NextLine == pos' = pos + 1

LoadHeader ==
    /\ Reading("header")
    /\ sec' = text[pos].sec
    /\ NextLine
    /\ UNCHANGED <<phase, dict, text, edited, back, rv>>

LoadAssign ==
    /\ Reading("assign")
    /\ LET v == Cut[text[pos].val]
       IN IF v = Blank THEN UNCHANGED back ELSE Store(<<sec, text[pos].name>>, v)
    /\ NextLine
    /\ UNCHANGED <<phase, dict, sec, text, edited, rv>>

LoadBlank ==
    /\ Reading("blank")
    /\ NextLine
    /\ UNCHANGED <<phase, dict, sec, text, edited, back, rv>>

LoadBad ==
    /\ Reading("bad")
    /\ phase' = "done" /\ rv' = -1
    /\ UNCHANGED <<dict, pos, sec, text, edited, back>>

LoadDone ==
    /\ phase = "load" /\ pos > Len(text)
    /\ phase' = "done"
    /\ UNCHANGED <<dict, pos, sec, text, edited, back, rv>>

TextNext ==
    \/ DumpKey \/ DumpEmpty \/ DumpDone
    \/ Edit \/ NoEdit
    \/ LoadHeader \/ LoadAssign \/ LoadBlank \/ LoadBad \/ LoadDone

TextSpec == TextInit /\ [][TextNext]_textvars

-----------------------------------------------------------------------------
\* A dictionary written by mcfg_dump_buffer and read by mcfg_load_buffer has
\* the values it had, cut at their first ';' -- but for the one key an operator
\* assigned to -- provided no section begins with the name of a section that
\* sorts after it.
HeadsSorted ==
    \A i, j \in 1 .. Len(Order) :
        i < j /\ Order[i][1] # Order[j][1] => <<Order[j][1], Order[i][1]>> \notin Heads
Expected(k) ==
    IF dict[k] \in TextValues /\ Cut[dict[k]] # Blank THEN Cut[dict[k]] ELSE Absent
RoundTrip ==
    phase = "done" /\ rv = 0 /\ HeadsSorted =>
        \A k \in TextKeys \ edited : back[k] = Expected(k)
=============================================================================
