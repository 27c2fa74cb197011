----------------------------- MODULE Registers -----------------------------
(***************************************************************************)
(* How the library changes settings of the chip.  A setting is a sequence  *)
(* of cells, each some bits of a 16-bit register; a register holds cells   *)
(* of many settings.  The chip is reached one register at a time, so all   *)
(* but the cells that fill their register are changed by reading the       *)
(* register and writing it back (rtl8367b_setAsicRegBits): two accesses,   *)
(* between which another process may have its own.                         *)
(*                                                                         *)
(* A call is the sequence of codes an rtk_* function puts into settings;   *)
(* the modules *Settings translate the functions.  Some functions first    *)
(* take what registers hold (rtl8367b_getAsicRma), change a field of it    *)
(* and later write from that: it may be out of date by then.  So a put     *)
(* sets the cells to its code ("set"), gives back the cell as it was taken *)
(* ("keep"), or writes the whole word that was taken with the code in it,  *)
(* and reads nothing ("over").  A register is the set of its bits that     *)
(* are 1.                                                                  *)
(***************************************************************************)
EXTENDS Integers, Sequences

CONSTANTS
  Call,       \* the calls: [takes: sequence of [reg, bits, to: what it is for],
              \*             puts: sequence of [setting, code, how], ok: BOOLEAN]
  Caller,     \* processes that use the library
  Idle,       \* a process that is in no call
  Round,      \* kinds of behaviour, each with its calls, its chip and its bound
  CallsOf,    \* CallsOf[n][c]: the calls process c makes in round n
  FillOf,     \* FillOf[n][r]: what register r holds when round n begins
  MostOf      \* MostOf[n]: how many calls are begun in round n

Width == 16

Put == UNION {{k.puts[i] : i \in DOMAIN k.puts} : k \in Call}

Setting == {q.setting : q \in Put}

Register == UNION {{s[i].reg : i \in DOMAIN s} : s \in Setting}

Named(k) == {k.puts[i].setting : i \in DOMAIN k.puts}

(* The registers a call works on. *)
Places(k) == UNION {{s[i].reg : i \in DOMAIN s} : s \in Named(k)}

(* The bits of its register a cell stands for. *)
Bits(cell) == DOMAIN cell.of

(* The register bits of a cell that stand for a code: the code is shifted  *)
(* to the cell and masked, so bits that do not fit are lost.  (A code      *)
(* shifted past the register is refused; no call here gets that far.)      *)
Placed(cell, code) == {b \in Bits(cell) : cell.of[b] \in code}

(* The bits of a code the cells of a setting have room for. *)
Room(s) == UNION {{s[j].of[b] : b \in Bits(s[j])} : j \in DOMAIN s}

-----------------------------------------------------------------------------

IsCell(cell) ==
  /\ DOMAIN cell = {"reg", "of", "whole"}
  /\ Bits(cell) \subseteq 0 .. Width - 1
  /\ cell.of \in [Bits(cell) -> Nat]
  /\ cell.whole \in BOOLEAN

ASSUME CallAssumption ==
  \A k \in Call :
    /\ k.ok \in BOOLEAN
    /\ Len(k.puts) \in Nat \ {0}
    /\ \A i \in 1 .. Len(k.puts) :
         /\ k.puts[i].how \in {"set", "keep", "over"}
         /\ k.puts[i].code \subseteq Nat
         /\ DOMAIN k.puts[i].setting = 1 .. Len(k.puts[i].setting)
         /\ Len(k.puts[i].setting) \in Nat \ {0}
         /\ \A j \in 1 .. Len(k.puts[i].setting) :
              /\ IsCell(k.puts[i].setting[j])
              /\ k.puts[i].how # "set" => ~k.puts[i].setting[j].whole
    /\ DOMAIN k.puts = 1 .. Len(k.puts)

(* A cell as it is taken to be given back: from its own register, at once. *)
Covers(t, cell) ==
  t.reg = cell.reg /\ cell.reg \in t.to /\ Bits(cell) \subseteq t.bits

(* A call takes bits of the registers it works on, for a word to be        *)
(* written to the same register or for bits of it that are no cell.  What  *)
(* it writes from what was taken, it has taken, and its own puts before    *)
(* have not changed it.                                                    *)
ASSUME TakeAssumption ==
  \A k \in Call :
    /\ Len(k.takes) \in Nat
    /\ DOMAIN k.takes = 1 .. Len(k.takes)
    /\ \A n \in 1 .. Len(k.takes) :
         /\ k.takes[n].reg \in Places(k)
         /\ k.takes[n].bits \subseteq 0 .. Width - 1
         /\ \A s \in Setting : \A j \in DOMAIN s :
              s[j].reg \in k.takes[n].to =>
                Covers(k.takes[n], s[j]) \/ Bits(s[j]) \cap k.takes[n].bits = {}
    /\ \A i \in 1 .. Len(k.puts) : k.puts[i].how # "set" =>
         /\ Len(k.puts[i].setting) = 1
         /\ \A s \in Setting : \A j \in DOMAIN s :
              /\ s[j].reg = k.puts[i].setting[1].reg
              /\ k.puts[i].how = "over" \/ s[j] = k.puts[i].setting[1]
              => \E n \in 1 .. Len(k.takes) : Covers(k.takes[n], s[j])
         /\ \A h \in 1 .. i - 1 : k.puts[h].how # "keep" =>
              \A j \in DOMAIN k.puts[h].setting :
                k.puts[h].setting[j].reg # k.puts[i].setting[1].reg

(* No two cells have a bit of a register in common.  A cell that is        *)
(* written without being read has its register to itself.                  *)
Apart(s, i, t, j) ==
  s[i].reg = t[j].reg =>
    \/ s = t /\ i = j
    \/ ~s[i].whole /\ Bits(s[i]) \cap Bits(t[j]) = {}

ASSUME DisjointAssumption ==
  \A s, t \in Setting : \A i \in DOMAIN s, j \in DOMAIN t : Apart(s, i, t, j)

ASSUME RoundAssumption ==
  /\ CallsOf \in [Round -> [Caller -> SUBSET Call]]
  /\ FillOf \in [Round -> [Register -> SUBSET (0 .. Width - 1)]]
  /\ MostOf \in [Round -> Nat]

(* Where a process is in its call: at put 0, cell is the take it is at. *)
Place == [call : Call, put : Nat, cell : Nat, read : BOOLEAN]

ASSUME IdleAssumption == Idle \notin Place \cup Call

-----------------------------------------------------------------------------

VARIABLES
  reg,        \* reg[r]: the bits of register r that are 1
  round,      \* the kind of this behaviour
  at,         \* at[c]: the call of process c, the put and the cell it is at, and
              \* whether it has read the register of that cell
  seen,       \* seen[c]: what process c read there
  held,       \* held[c][r]: what the call of process c has taken to write to r
  begun,      \* how many calls were begun
  asked,      \* every put of a call begun so far
  alone       \* alone[c]: no other call met c's at one of its registers

vars == <<reg, round, at, seen, held, begun, asked, alone>>

Nothing == [r \in Register |-> {}]

Busy == {c \in Caller : at[c] # Idle}

NowPut(c) == at[c].call.puts[at[c].put]

NowCell(c) == NowPut(c).setting[at[c].cell]

Working(c) == at[c] # Idle /\ at[c].put \in DOMAIN at[c].call.puts

Taking(c) == at[c] # Idle /\ at[c].put = 0

NowTake(c) == at[c].call.takes[at[c].cell]

(* The access before the one that changes a register.                      *)
ReadsFirst(c) == ~NowCell(c).whole /\ NowPut(c).how # "over"

Init ==
  /\ round \in Round
  /\ reg = FillOf[round]
  /\ at = [c \in Caller |-> Idle]
  /\ seen = [c \in Caller |-> {}]
  /\ held = [c \in Caller |-> Nothing]
  /\ begun = 0
  /\ asked = {}
  /\ alone = [c \in Caller |-> TRUE]

Entered(k) ==
  [call |-> k, put |-> IF Len(k.takes) = 0 THEN 1 ELSE 0, cell |-> 1, read |-> FALSE]

(* A process enters a library function.  alone and asked are there for the *)
(* properties: the library keeps neither.                                  *)
Begin(c) ==
  /\ at[c] = Idle
  /\ begun < MostOf[round]
  /\ \E k \in CallsOf[round][c] :
       LET met == {d \in Busy : Places(k) \cap Places(at[d].call) # {}}
       IN /\ at' = [at EXCEPT ![c] = Entered(k)]
          /\ asked' = asked \cup {k.puts[i] : i \in DOMAIN k.puts}
          /\ alone' = [d \in Caller |-> IF d = c THEN met = {} ELSE alone[d] /\ d \notin met]
  /\ begun' = begun + 1
  /\ UNCHANGED <<reg, round, seen, held>>

AfterTake(w) ==
  IF w.cell < Len(w.call.takes)
  THEN [w EXCEPT !.cell = w.cell + 1]
  ELSE [w EXCEPT !.put = 1, !.cell = 1, !.read = FALSE]

Taken_Alone(t, old) == reg[t.reg] \cap t.bits

(* What a take changes of the word held for a register. *)
Taken(t, old) == (old \ t.bits) \cup (reg[t.reg] \cap t.bits)

(* A register is read for what the call will write later.                  *)
Take(c) ==
  /\ Taking(c)
  /\ held' = [held EXCEPT ![c] =
       [r \in Register |-> IF r \in NowTake(c).to THEN Taken(NowTake(c), held[c][r])
                           ELSE held[c][r]]]
  /\ at' = [at EXCEPT ![c] = AfterTake(at[c])]
  /\ UNCHANGED <<reg, round, seen, begun, asked, alone>>

(* setAsicRegBits and setAsicRegBit read all of the register.              *)
Read(c) ==
  /\ Working(c)
  /\ ReadsFirst(c)
  /\ ~at[c].read
  /\ seen' = [seen EXCEPT ![c] = reg[NowCell(c).reg]]
  /\ at' = [at EXCEPT ![c].read = TRUE]
  /\ UNCHANGED <<reg, round, held, begun, asked, alone>>

Own(cell, q, kept) == IF q.how = "keep" THEN kept \cap Bits(cell) ELSE Placed(cell, q.code)

Beside(cell, q, old, kept) ==
  IF q.how = "over" THEN kept ELSE IF cell.whole THEN {} ELSE old

Written_AllBits(cell, q, old, kept) == Own(cell, q, kept)

(* What is written: the bits of the cell from the code or as they were     *)
(* taken, the others as they were read or taken.                           *)
Written(cell, q, old, kept) == (Beside(cell, q, old, kept) \ Bits(cell)) \cup Own(cell, q, kept)

After_CellKept(w) ==
  IF w.cell < Len(w.call.puts[w.put].setting)
  THEN [w EXCEPT !.cell = w.cell + 1, !.read = FALSE]
  ELSE [w EXCEPT !.put = w.put + 1, !.read = FALSE]

After_CellLeft(w) ==
  IF w.cell < Len(w.call.puts[w.put].setting) - 1
  THEN [w EXCEPT !.cell = w.cell + 1, !.read = FALSE]
  ELSE [w EXCEPT !.put = w.put + 1, !.cell = 1, !.read = FALSE]

After(w) ==
  IF w.cell < Len(w.call.puts[w.put].setting)
  THEN [w EXCEPT !.cell = w.cell + 1, !.read = FALSE]
  ELSE [w EXCEPT !.put = w.put + 1, !.cell = 1, !.read = FALSE]

Write(c) ==
  /\ Working(c)
  /\ ReadsFirst(c) => at[c].read
  /\ reg' = [reg EXCEPT ![NowCell(c).reg] =
       Written(NowCell(c), NowPut(c), seen[c], held[c][NowCell(c).reg])]
  /\ at' = [at EXCEPT ![c] = After(at[c])]
  /\ seen' = [seen EXCEPT ![c] = {}]
  /\ UNCHANGED <<round, held, begun, asked, alone>>

Return(c) ==
  /\ at[c] # Idle
  /\ ~Taking(c)
  /\ ~Working(c)
  /\ at' = [at EXCEPT ![c] = Idle]
  /\ held' = [held EXCEPT ![c] = Nothing]
  /\ UNCHANGED <<reg, round, seen, begun, asked, alone>>

Next == \E c \in Caller : Begin(c) \/ Take(c) \/ Read(c) \/ Write(c) \/ Return(c)

Spec == Init /\ [][Next]_vars

-----------------------------------------------------------------------------

(* The code a setting reads as: rtl8367b_getAsicRegBits masks and shifts   *)
(* the bits of every cell, and the drivers put the parts together.         *)
ReadsAs(s) ==
  UNION {{s[i].of[b] : b \in reg[s[i].reg] \cap Bits(s[i])} : i \in DOMAIN s}

(* A process that is in a call is at a put of it and at a cell of that put, *)
(* and what it asks for is on record: the calls go through their registers *)
(* one by one, whatever comes between.                                     *)
TypeOK ==
  /\ reg \in [Register -> SUBSET (0 .. Width - 1)]
  /\ round \in Round
  /\ at \in [Caller -> Place \cup {Idle}]
  /\ seen \in [Caller -> SUBSET (0 .. Width - 1)]
  /\ held \in [Caller -> [Register -> SUBSET (0 .. Width - 1)]]
  /\ asked \subseteq Put
  /\ \A c \in Busy :
       /\ \A i \in DOMAIN at[c].call.puts : at[c].call.puts[i] \in asked
       /\ at[c].put \in 0 .. Len(at[c].call.puts) + 1
       /\ Taking(c) => at[c].cell \in DOMAIN at[c].call.takes
       /\ Working(c) => at[c].cell \in DOMAIN NowPut(c).setting

(* What a cell of a setting may hold. *)
InOnePiece(s, i, bits) ==
  \/ bits = FillOf[round][s[i].reg] \cap Bits(s[i])
  \/ \E q \in asked : q.setting = s /\ q.how # "keep" /\ bits = Placed(s[i], q.code)

(* Whatever processes do at once, every cell of every setting holds what   *)
(* it held when the chip started or all of what one call asked for: two    *)
(* calls of rtl8367b_setAsicRegBits on one register can lose each other's  *)
(* change, and rtl8367b_setAsicRma can bring back what a register held a   *)
(* while ago, but never leave a field that is partly one's and partly the  *)
(* other's, nor change a field nobody named.                               *)
NeverMixed ==
  \A s \in Setting : \A i \in DOMAIN s : InOnePiece(s, i, reg[s[i].reg] \cap Bits(s[i]))

(* The calls that are made in some round. *)
MadeCalls == UNION {CallsOf[n][c] : n \in Round, c \in Caller}

Abstract == INSTANCE SettingsMap
  WITH Call  <- MadeCalls,
       Home  <- [s \in Setting |-> {s[i].reg : i \in DOMAIN s}],
       val   <- [s \in Setting |-> ReadsAs(s)],
       doing <- [c \in Caller |-> IF at[c] = Idle THEN Idle ELSE at[c].call]

(* Seen from outside, settings are cells of their own (SettingsMap): a     *)
(* call changes the settings it asks for, and if it reports success and met *)
(* no other call at its registers, they read exactly what was asked, not   *)
(* cut to the field and not changed by a later step of the same call.      *)
ImplementsSettings == Abstract!Spec

(* A call that reports success was checked before it got to the registers: *)
(* every code it asks a setting to read fits into the cells of the setting, *)
(* so the masks of the drivers cut nothing off.                            *)
AsksFit ==
  \A c \in Busy : at[c].call.ok =>
    \A i \in DOMAIN at[c].call.puts : Abstract!Asks(at[c].call, i) =>
      at[c].call.puts[i].code \subseteq Room(at[c].call.puts[i].setting)
=============================================================================
