------------------------------ MODULE Settings ------------------------------
(***************************************************************************)
(* Registers with the calls of the library, and what the drivers owe the   *)
(* register map.                                                           *)
(***************************************************************************)
EXTENDS Registers, QosSettings, PortSettings, TrapSettings, VlanSettings

AllCalls(e) == QosCalls(e) \cup PortCalls(e) \cup TrapCalls(e) \cup VlanCalls(e)

FieldBits(f) == f[1] .. f[1] + f[2] - 1

(* A register of the switch, and bits that stand side by side. *)
Plain(cell) ==
  /\ cell.reg < PhyRegister(0, 0, 0)
  /\ \E lo, hi \in Bits(cell) : Bits(cell) = lo .. hi

(* A cell that is written covers a field, lies within one, or does not     *)
(* touch it.                                                               *)
KeepsMap(cell) ==
  Plain(cell) =>
    \A f \in FieldsAt(cell.reg) :
      \/ FieldBits(f) \subseteq Bits(cell)
      \/ Bits(cell) \subseteq FieldBits(f)
      \/ FieldBits(f) \cap Bits(cell) = {}

(* The shifts and masks the drivers compute (rtl8367b_base.h) select what  *)
(* the register map (rtl8367b_reg.h) declares.  A mask that is off by a    *)
(* bit, or the place of one port taken for another's, cuts a neighbour's   *)
(* field in two.                                                           *)
AccessesKeepMap == \A c \in Busy : Working(c) => KeepsMap(NowCell(c))
=============================================================================
