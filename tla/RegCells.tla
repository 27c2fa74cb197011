----------------------------- MODULE RegCells ------------------------------
(***************************************************************************)
(* The vocabulary the *Settings modules are written in: blocks of the      *)
(* register map, cells of a setting, and the puts of a call.               *)
(***************************************************************************)
EXTENDS Integers, Sequences

CONSTANTS Port, Priority, Queue, Dscp, Meter  \* what calls are made for

(* The indices the library has room for (rtl8367b_asicdrv.h).              *)
ASSUME IndexAssumption ==
  /\ Port \subseteq 0 .. 7
  /\ Priority \subseteq 0 .. 7
  /\ Queue \subseteq 0 .. 7
  /\ Dscp \subseteq 0 .. 63
  /\ Meter \subseteq 0 .. 31

-----------------------------------------------------------------------------

(* What a register and a VLAN identifier may hold (rtl8367b_asicdrv.h). *)
RegDataMax == \hFFFF
VidMax == \hFFF

(* Registers base, base + step, ..., of the same fields.                   *)
Block(base, step, count, fields) ==
  [base |-> base, step |-> step, count |-> count, fields |-> fields]

One(address, fields) == Block(address, 1, 1, fields)

Reg(block, i) == block.base + block.step * i

(* Fields of a register of the map, as <<lowest bit, width>>.              *)
All == {<<0, 16>>}
Low(len) == {<<0, len>>}
Each(n, step, len) == {<<step * i, len>> : i \in 0 .. n - 1}

-----------------------------------------------------------------------------

(* A cell is a register and, for each of its bits that the setting uses,   *)
(* the bit of the code that goes there.  A cell that is written without    *)
(* being read is whole.                                                    *)
Spread(r, of) == [reg |-> r, of |-> of, whole |-> FALSE]

Field(r, lo, len) == Spread(r, [b \in lo .. lo + len - 1 |-> b - lo])

Flag(r, bit) == Field(r, bit, 1)

Word(r) == [reg |-> r, of |-> [b \in 0 .. 15 |-> b], whole |-> TRUE]

(* A cell that holds the code from its bit n on. *)
From(n, cell) == [cell EXCEPT !.of = [b \in DOMAIN cell.of |-> cell.of[b] + n]]

(* Item i of a block that packs fields of len bits, per to a register. *)
Packed(block, per, step, len, i) == <<Field(Reg(block, i \div per), step * (i % per), len)>>

-----------------------------------------------------------------------------

(* A code as the set of its bits that are 1. *)
Code(v) == {b \in 0 .. 30 : (v \div 2 ^ b) % 2 = 1}

ToBits(setting, bits) == [setting |-> setting, code |-> bits, how |-> "set"]

To(setting, v) == ToBits(setting, Code(v))

(* Bits of a register, taken for words that will be written later. *)
TakeBits(r, bits, to) == [reg |-> r, bits |-> bits, to |-> to]

(* A field that was taken and is written back as it was, and one that is   *)
(* changed in the word that was taken.                                     *)
Keep(setting) == [setting |-> setting, code |-> {}, how |-> "keep"]
Over(setting, v) == [setting |-> setting, code |-> Code(v), how |-> "over"]

(* A function that returns RT_ERR_OK, and one that gives up after puts.    *)
Does(puts) == [takes |-> <<>>, puts |-> puts, ok |-> TRUE]
DoesWith(takes, puts) == [takes |-> takes, puts |-> puts, ok |-> TRUE]
GivesUp(puts) == [takes |-> <<>>, puts |-> puts, ok |-> FALSE]

(* One put for each item of 0 .. n - 1, as the loops of the library do.    *)
ForEach(n, P(_)) == [i \in 1 .. n |-> P(i - 1)]

(* A table of calls is numbered by its arguments.  In table e, an argument *)
(* a function accepts from lo to hi is e above lo, or hi when that is too  *)
(* much; one of two is the first in table 0 and else the second.           *)
Of(e, lo, hi) == IF e < hi - lo THEN lo + e ELSE hi

Either(e, least, most) == IF e = 0 THEN least ELSE most

OfBits(e, n) == Either(e, {}, 0 .. n - 1)
=============================================================================
