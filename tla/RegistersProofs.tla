-------------------------- MODULE RegistersProofs ---------------------------
(***************************************************************************)
(* Registers, for any calls, processes and rounds that its assumptions     *)
(* allow: types, that no cell is ever left with parts of two codes, and    *)
(* that calls whose codes fit their settings are those of SettingsMap.     *)
(*                                                                         *)
(* NeverMixed speaks of the registers only, and a process writes what it   *)
(* read a while ago.  The invariant therefore says of what was read what   *)
(* NeverMixed says of the registers: it may be out of date, but it was     *)
(* whole when it was read, and what is asked for stays on record.  It says *)
(* so of the words held for later puts, too.                               *)
(***************************************************************************)
EXTENDS Registers, TLAPS

SeenWhole ==
  \A c \in Busy : (Working(c) /\ at[c].read) =>
    \A s \in Setting : \A i \in DOMAIN s :
      s[i].reg = NowCell(c).reg => InOnePiece(s, i, seen[c] \cap Bits(s[i]))

(* Process c has done the take number n of its call. *)
Done(c, n) == at[c].put # 0 \/ n < at[c].cell

HoldsWhole(c) ==
  \A n \in 1 .. Len(at[c].call.takes) : Done(c, n) =>
    \A s \in Setting : \A j \in DOMAIN s :
      Covers(at[c].call.takes[n], s[j]) => InOnePiece(s, j, held[c][s[j].reg] \cap Bits(s[j]))

HeldWhole == \A c \in Busy : HoldsWhole(c)

IInv == TypeOK /\ NeverMixed /\ SeenWhole /\ HeldWhole

-----------------------------------------------------------------------------

(* What CallAssumption says of the put a process is at. *)
LEMMA NowFacts ==
  ASSUME TypeOK, NEW c \in Caller, Working(c)
  PROVE  /\ at[c] \in Place
         /\ NowPut(c) \in Put
         /\ NowPut(c) \in asked
         /\ NowPut(c).setting \in Setting
         /\ at[c].cell \in DOMAIN NowPut(c).setting
         /\ NowCell(c).reg \in Register
         /\ IsCell(NowCell(c))
         /\ NowPut(c).how \in {"set", "keep", "over"}
         /\ NowPut(c).how # "set" => ~NowCell(c).whole
         /\ at[c].put \in 1 .. Len(at[c].call.puts)
         /\ DOMAIN NowPut(c).setting = 1 .. Len(NowPut(c).setting)
         /\ Len(NowPut(c).setting) \in Nat \ {0}
<1> DEFINE k == at[c].call
           q == NowPut(c)
<1>1. c \in Busy
  BY DEF Busy, Working
<1>2. at[c] \in Place /\ k \in Call
  BY <1>1 DEF TypeOK, Busy, Place
<1>3. at[c].put \in DOMAIN k.puts
  BY DEF Working
<1>4. DOMAIN k.puts = 1 .. Len(k.puts)
  BY <1>2, CallAssumption
<1>5. q \in Put /\ q \in asked
  BY <1>1, <1>2, <1>3 DEF TypeOK, Put, NowPut
<1>6. q.setting \in Setting
  BY <1>5 DEF Setting
<1>7. at[c].cell \in DOMAIN q.setting
  BY <1>1 DEF TypeOK
<1>8. NowCell(c).reg \in Register
  BY <1>6, <1>7, SMTT(40) DEF Register, NowCell
<1>9. /\ q.how \in {"set", "keep", "over"}
      /\ DOMAIN q.setting = 1 .. Len(q.setting)
      /\ Len(q.setting) \in Nat \ {0}
      /\ \A j \in 1 .. Len(q.setting) : IsCell(q.setting[j]) /\ (q.how # "set" => ~q.setting[j].whole)
  BY <1>2, <1>3, <1>4, CallAssumption DEF NowPut
<1>10. IsCell(NowCell(c)) /\ (q.how # "set" => ~NowCell(c).whole)
  BY <1>7, <1>9 DEF NowCell
<1> QED
  BY <1>2, <1>3, <1>4, <1>5, <1>6, <1>7, <1>8, <1>9, <1>10

(* A cell keeps to its own bits. *)
LEMMA WrittenBits ==
  ASSUME NEW cell, IsCell(cell), NEW q,
         NEW old \in SUBSET (0 .. Width - 1), NEW kept \in SUBSET (0 .. Width - 1)
  PROVE  Written(cell, q, old, kept) \subseteq 0 .. Width - 1
  BY DEF Written, Own, Beside, Placed, IsCell, Bits

(* The two ends of a put: the cell itself holds the code or what was taken *)
(* of it, and the others what was read or taken of them.                   *)
LEMMA WrittenHere ==
  ASSUME NEW cell, NEW q, NEW old, NEW kept
  PROVE  Written(cell, q, old, kept) \cap Bits(cell)
           = IF q.how = "keep" THEN kept \cap Bits(cell) ELSE Placed(cell, q.code)
  BY DEF Written, Own, Placed, Bits

LEMMA WrittenBeside ==
  ASSUME NEW cell, NEW q, NEW old, NEW kept, NEW bits, bits \cap Bits(cell) = {}, ~cell.whole
  PROVE  Written(cell, q, old, kept) \cap bits
           = IF q.how = "over" THEN kept \cap bits ELSE old \cap bits
  BY DEF Written, Own, Beside, Placed, Bits

(* A call works on registers there are. *)
LEMMA PlacesThere ==
  ASSUME NEW k \in Call
  PROVE  Places(k) \subseteq Register
<1>1. Named(k) \subseteq Setting
  BY DEF Named, Setting, Put
<1> QED
  BY <1>1 DEF Places, Register

(* What TakeAssumption says of the take a process is at. *)
LEMMA TakeFacts ==
  ASSUME TypeOK, NEW c \in Caller, Taking(c)
  PROVE  /\ c \in Busy
         /\ at[c] \in Place
         /\ at[c].call \in Call
         /\ Len(at[c].call.takes) \in Nat
         /\ at[c].cell \in 1 .. Len(at[c].call.takes)
         /\ NowTake(c).reg \in Register
         /\ NowTake(c).bits \subseteq 0 .. Width - 1
         /\ \A s \in Setting : \A j \in DOMAIN s :
              s[j].reg \in NowTake(c).to =>
                Covers(NowTake(c), s[j]) \/ Bits(s[j]) \cap NowTake(c).bits = {}
<1> DEFINE k == at[c].call
<1>1. c \in Busy
  BY DEF Busy, Taking
<1>2. at[c] \in Place /\ k \in Call
  BY <1>1 DEF TypeOK, Busy, Place
<1>3. Len(k.takes) \in Nat /\ at[c].cell \in 1 .. Len(k.takes)
  BY <1>1, <1>2, TakeAssumption DEF TypeOK
<1>4. /\ NowTake(c).reg \in Places(k)
      /\ NowTake(c).bits \subseteq 0 .. Width - 1
      /\ \A s \in Setting : \A j \in DOMAIN s :
           s[j].reg \in NowTake(c).to =>
             Covers(NowTake(c), s[j]) \/ Bits(s[j]) \cap NowTake(c).bits = {}
  BY <1>2, <1>3, TakeAssumption DEF NowTake
<1> QED
  BY <1>1, <1>2, <1>3, <1>4, PlacesThere

(* What a take leaves of a cell in the word held for its register: the     *)
(* cell as it is now, or as it was held.                                   *)
LEMMA TakenCell ==
  ASSUME TypeOK, NEW c \in Caller, Take(c), NEW s \in Setting, NEW j \in DOMAIN s
  PROVE  held'[c][s[j].reg] \cap Bits(s[j])
           = IF Covers(NowTake(c), s[j]) THEN reg[s[j].reg] \cap Bits(s[j])
             ELSE held[c][s[j].reg] \cap Bits(s[j])
<1> DEFINE t == NowTake(c)
           r == s[j].reg
<1>1. r \in Register
  BY DEF Register
<1>2. held'[c][r] = IF r \in t.to THEN Taken(t, held[c][r]) ELSE held[c][r]
  BY <1>1 DEF Take, TypeOK
<1>3. CASE Covers(t, s[j])
  BY <1>2, <1>3 DEF Covers, Taken
<1>4. CASE ~Covers(t, s[j])
  <2>1. r \in t.to => Bits(s[j]) \cap t.bits = {}
    BY <1>4, TakeFacts DEF Take
  <2> QED
    BY <2>1, <1>2, <1>4 DEF Taken
<1> QED
  BY <1>3, <1>4

(* After the take a process is at, that one is done and those before it. *)
LEMMA AfterTakePlace ==
  ASSUME TypeOK, NEW c \in Caller, Taking(c)
  PROVE  LET w == AfterTake(at[c])
         IN /\ w \in Place
            /\ w.call = at[c].call
            /\ w.put \in {0, 1}
            /\ w.put = 0 => w.cell \in 1 .. Len(w.call.takes)
            /\ w.put = 1 => w.cell = 1 /\ ~w.read
            /\ \A n \in 1 .. Len(w.call.takes) : (w.put # 0 \/ n < w.cell) => n <= at[c].cell
<1> DEFINE old == at[c]
           more == old.cell < Len(old.call.takes)
<1>1. /\ old \in Place
      /\ Len(old.call.takes) \in Nat
      /\ old.cell \in 1 .. Len(old.call.takes)
      /\ old.put = 0
  BY TakeFacts DEF Taking
<1>2. /\ old.call \in Call
      /\ old = [call |-> old.call, put |-> 0, cell |-> old.cell, read |-> old.read]
      /\ old.read \in BOOLEAN /\ old.cell \in Nat
  BY <1>1 DEF Place
<1> HIDE DEF old
<1>4. CASE more
  <2>1. AfterTake(old) = [call |-> old.call, put |-> 0, cell |-> old.cell + 1, read |-> old.read]
    BY <1>2, <1>4 DEF AfterTake
  <2> QED
    BY <2>1, <1>1, <1>2, <1>4 DEF Place, old
<1>5. CASE ~more
  <2>1. AfterTake(old) = [call |-> old.call, put |-> 1, cell |-> 1, read |-> FALSE]
    BY <1>2, <1>5 DEF AfterTake
  <2> QED
    BY <2>1, <1>1, <1>2, <1>5 DEF Place, old
<1> QED
  BY <1>4, <1>5

(* The puts of a call, and where it begins. *)
LEMMA CallFacts ==
  ASSUME NEW k \in Call
  PROVE  /\ DOMAIN k.puts = 1 .. Len(k.puts)
         /\ Len(k.puts) \in Nat \ {0}
         /\ \A i \in DOMAIN k.puts : 1 \in DOMAIN k.puts[i].setting
         /\ DOMAIN k.takes = 1 .. Len(k.takes)
         /\ Len(k.takes) \in Nat
         /\ Entered(k) \in Place
         /\ Entered(k).call = k
         /\ Entered(k).cell = 1
         /\ ~Entered(k).read
         /\ Entered(k).put = IF Len(k.takes) = 0 THEN 1 ELSE 0
<1>1. /\ DOMAIN k.puts = 1 .. Len(k.puts)
      /\ Len(k.puts) \in Nat \ {0}
      /\ \A i \in DOMAIN k.puts : /\ DOMAIN k.puts[i].setting = 1 .. Len(k.puts[i].setting)
                                  /\ Len(k.puts[i].setting) \in Nat \ {0}
  BY CallAssumption
<1>2. \A n \in Nat \ {0} : 1 \in 1 .. n
  OBVIOUS
<1>3. \A i \in DOMAIN k.puts : 1 \in DOMAIN k.puts[i].setting
  BY <1>1, <1>2
<1>4. DOMAIN k.takes = 1 .. Len(k.takes) /\ Len(k.takes) \in Nat
  BY TakeAssumption
<1> QED
  BY <1>1, <1>3, <1>4 DEF Entered, Place

-----------------------------------------------------------------------------

LEMMA InitIInv == Init => IInv
<1> SUFFICES ASSUME Init PROVE IInv
  OBVIOUS
<1>1. Busy = {}
  BY DEF Init, Busy
<1>2. TypeOK
  BY <1>1, RoundAssumption DEF Init, TypeOK, Nothing
<1>3. NeverMixed
  <2> SUFFICES ASSUME NEW s \in Setting, NEW i \in DOMAIN s
               PROVE  InOnePiece(s, i, reg[s[i].reg] \cap Bits(s[i]))
    BY DEF NeverMixed
  <2>1. s[i].reg \in Register
    BY DEF Register
  <2> QED
    BY <2>1 DEF Init, InOnePiece
<1>4. SeenWhole /\ HeldWhole
  BY <1>1 DEF SeenWhole, HeldWhole
<1> QED
  BY <1>2, <1>3, <1>4 DEF IInv

(* More may be asked for; what was in one piece stays so. *)
LEMMA PieceKept ==
  ASSUME NEW s, NEW i, NEW bits, InOnePiece(s, i, bits), asked \subseteq asked', round' = round
  PROVE  InOnePiece(s, i, bits)'
  BY DEF InOnePiece

(* What a process that takes nothing holds stays so, too. *)
LEMMA HoldsOn ==
  ASSUME NEW d, HoldsWhole(d), at'[d].call = at[d].call, held'[d] = held[d],
         \A n \in 1 .. Len(at[d].call.takes) : Done(d, n)' => Done(d, n),
         asked \subseteq asked', round' = round
  PROVE  HoldsWhole(d)'
<1> SUFFICES ASSUME NEW n \in 1 .. Len(at[d].call.takes), Done(d, n)',
                    NEW s \in Setting, NEW j \in DOMAIN s, Covers(at[d].call.takes[n], s[j])
             PROVE  InOnePiece(s, j, held[d][s[j].reg] \cap Bits(s[j]))'
  BY DEF HoldsWhole
<1>1. InOnePiece(s, j, held[d][s[j].reg] \cap Bits(s[j]))
  BY DEF HoldsWhole
<1> QED
  BY <1>1, PieceKept

(* Steps that change what a process does and nothing of another's. *)
LEMMA OthersKept ==
  ASSUME TypeOK, NEW c \in Caller, NEW w, at' = [at EXCEPT ![c] = w]
  PROVE  /\ at'[c] = w
         /\ \A d \in Caller \ {c} : /\ at'[d] = at[d]
                                    /\ NowPut(d)' = NowPut(d)
                                    /\ NowCell(d)' = NowCell(d)
                                    /\ Working(d)' <=> Working(d)
                                    /\ Taking(d)' <=> Taking(d)
                                    /\ \A n : Done(d, n)' <=> Done(d, n)
                                    /\ d \in Busy' <=> d \in Busy
  BY DEF TypeOK, NowPut, NowCell, Working, Taking, Done, Busy

LEMMA BeginStep ==
  ASSUME IInv, NEW c \in Caller, Begin(c)
  PROVE  IInv'
<1> USE DEF IInv
<1>1. PICK k \in CallsOf[round][c] :
        /\ at' = [at EXCEPT ![c] = Entered(k)]
        /\ asked' = asked \cup {k.puts[i] : i \in DOMAIN k.puts}
  BY DEF Begin
<1>2. reg' = reg /\ round' = round /\ seen' = seen /\ held' = held
  BY DEF Begin
<1>3. k \in Call
  BY RoundAssumption DEF TypeOK
<1>4. /\ DOMAIN k.puts = 1 .. Len(k.puts)
      /\ Len(k.puts) \in Nat \ {0}
      /\ \A i \in DOMAIN k.puts : 1 \in DOMAIN k.puts[i].setting
      /\ DOMAIN k.takes = 1 .. Len(k.takes)
      /\ Len(k.takes) \in Nat
      /\ Entered(k) \in Place
      /\ Entered(k).call = k /\ Entered(k).cell = 1 /\ ~Entered(k).read
      /\ Entered(k).put = IF Len(k.takes) = 0 THEN 1 ELSE 0
  BY <1>3, CallFacts
<1> HIDE DEF Entered
<1>5. /\ at'[c] = Entered(k)
      /\ \A d \in Caller \ {c} : /\ at'[d] = at[d]
                                 /\ NowPut(d)' = NowPut(d)
                                 /\ NowCell(d)' = NowCell(d)
                                 /\ Working(d)' <=> Working(d)
                                 /\ Taking(d)' <=> Taking(d)
                                 /\ \A n : Done(d, n)' <=> Done(d, n)
                                 /\ d \in Busy' <=> d \in Busy
  BY <1>1, OthersKept
<1>6. \A d \in Busy' : d = c \/ (d \in Busy /\ d # c)
  BY <1>5 DEF Busy
<1>7. TypeOK'
  <2>1. asked' \subseteq Put
    BY <1>1, <1>3 DEF TypeOK, Put
  <2>2. at' \in [Caller -> Place \cup {Idle}]
    BY <1>1, <1>4 DEF TypeOK
  <2>3. ASSUME NEW d \in Busy'
        PROVE  /\ \A i \in DOMAIN at'[d].call.puts : at'[d].call.puts[i] \in asked'
               /\ at'[d].put \in 0 .. Len(at'[d].call.puts) + 1
               /\ Taking(d)' => at'[d].cell \in DOMAIN at'[d].call.takes
               /\ Working(d)' => at'[d].cell \in DOMAIN NowPut(d)'.setting
    <3>1. CASE d = c
      <4>1. at'[d].call = k /\ \A i \in DOMAIN k.puts : k.puts[i] \in asked'
        BY <3>1, <1>1, <1>4, <1>5
      <4>2. at'[d].put \in 0 .. Len(k.puts) + 1
        BY <3>1, <1>4, <1>5
      <4>3. Taking(d)' => at'[d].cell \in DOMAIN k.takes
        BY <3>1, <1>4, <1>5 DEF Taking
      <4>4. Working(d)' => at'[d].cell \in DOMAIN NowPut(d)'.setting
        BY <3>1, <1>4, <1>5 DEF Working, NowPut
      <4> QED
        BY <4>1, <4>2, <4>3, <4>4
    <3>2. CASE d # c
      BY <3>2, <1>1, <1>5, <1>6 DEF TypeOK, Busy
    <3> QED
      BY <3>1, <3>2
  <2> QED
    BY <2>1, <2>2, <2>3, <1>2 DEF TypeOK
<1>8. NeverMixed'
  BY <1>1, <1>2, PieceKept DEF NeverMixed
<1>9. SeenWhole'
  <2> SUFFICES ASSUME NEW d \in Busy', Working(d)', at'[d].read,
                      NEW s \in Setting, NEW i \in DOMAIN s, s[i].reg = NowCell(d)'.reg
               PROVE  InOnePiece(s, i, seen[d] \cap Bits(s[i]))'
    BY <1>2 DEF SeenWhole
  <2>1. d # c /\ d \in Busy
    BY <1>4, <1>5, <1>6
  <2>2. InOnePiece(s, i, seen[d] \cap Bits(s[i]))
    BY <2>1, <1>5 DEF SeenWhole, Busy
  <2> QED
    BY <2>2, <1>1, <1>2, PieceKept
<1>10. HeldWhole'
  <2> SUFFICES ASSUME NEW d \in Busy' PROVE HoldsWhole(d)'
    BY DEF HeldWhole
  <2>1. CASE d = c
    <3>1. \A n \in 1 .. Len(k.takes) : ~Done(d, n)'
      BY <2>1, <1>4, <1>5 DEF Done
    <3> QED
      BY <3>1, <2>1, <1>4, <1>5 DEF HoldsWhole
  <2>2. CASE d # c
    BY <2>2, <1>1, <1>2, <1>5, <1>6, HoldsOn DEF HeldWhole, Busy
  <2> QED
    BY <2>1, <2>2
<1> QED
  BY <1>7, <1>8, <1>9, <1>10

LEMMA TakeStep ==
  ASSUME IInv, NEW c \in Caller, Take(c)
  PROVE  IInv'
<1> USE DEF IInv
<1> DEFINE w == AfterTake(at[c])
<1>1. /\ Taking(c)
      /\ at' = [at EXCEPT ![c] = w]
      /\ reg' = reg /\ round' = round /\ asked' = asked /\ seen' = seen
  BY DEF Take
<1>2. /\ c \in Busy
      /\ NowTake(c).bits \subseteq 0 .. Width - 1
      /\ NowTake(c).reg \in Register
      /\ at[c].call \in Call
  BY <1>1, TakeFacts
<1>3. /\ w \in Place
      /\ w.call = at[c].call
      /\ w.put \in {0, 1}
      /\ w.put = 0 => w.cell \in 1 .. Len(w.call.takes)
      /\ w.put = 1 => w.cell = 1 /\ ~w.read
      /\ \A n \in 1 .. Len(w.call.takes) : (w.put # 0 \/ n < w.cell) => n <= at[c].cell
  BY <1>1, AfterTakePlace
<1>4. /\ DOMAIN w.call.puts = 1 .. Len(w.call.puts)
      /\ Len(w.call.puts) \in Nat \ {0}
      /\ \A i \in DOMAIN w.call.puts : 1 \in DOMAIN w.call.puts[i].setting
      /\ DOMAIN w.call.takes = 1 .. Len(w.call.takes)
      /\ Len(w.call.takes) \in Nat
  BY <1>2, <1>3, CallFacts
<1> HIDE DEF w
<1>5. /\ at'[c] = w
      /\ \A d \in Caller \ {c} : /\ at'[d] = at[d]
                                 /\ NowPut(d)' = NowPut(d)
                                 /\ NowCell(d)' = NowCell(d)
                                 /\ Working(d)' <=> Working(d)
                                 /\ Taking(d)' <=> Taking(d)
                                 /\ \A n : Done(d, n)' <=> Done(d, n)
                                 /\ d \in Busy' <=> d \in Busy
  BY <1>1, OthersKept
<1>6. \A d \in Busy' : d \in Busy
  BY <1>2, <1>5 DEF Busy
<1>7. \A d \in Caller \ {c} : held'[d] = held[d]
  BY DEF Take, TypeOK
<1>8. TypeOK'
  <2>1. at' \in [Caller -> Place \cup {Idle}]
    BY <1>1, <1>3 DEF TypeOK
  <2>2. held' \in [Caller -> [Register -> SUBSET (0 .. Width - 1)]]
    <3> DEFINE v == [r \in Register |-> IF r \in NowTake(c).to THEN Taken(NowTake(c), held[c][r])
                                        ELSE held[c][r]]
    <3>1. held' = [held EXCEPT ![c] = v]
      BY DEF Take
    <3>2. held[c] \in [Register -> SUBSET (0 .. Width - 1)]
      BY DEF TypeOK
    <3>3. \A r \in Register : v[r] \in SUBSET (0 .. Width - 1)
      BY <3>2, <1>2 DEF Taken
    <3>4. v \in [Register -> SUBSET (0 .. Width - 1)]
      BY <3>3
    <3> HIDE DEF v
    <3> QED
      BY <3>1, <3>4 DEF TypeOK
  <2>3. ASSUME NEW d \in Busy'
        PROVE  /\ \A i \in DOMAIN at'[d].call.puts : at'[d].call.puts[i] \in asked'
               /\ at'[d].put \in 0 .. Len(at'[d].call.puts) + 1
               /\ Taking(d)' => at'[d].cell \in DOMAIN at'[d].call.takes
               /\ Working(d)' => at'[d].cell \in DOMAIN NowPut(d)'.setting
    <3>1. CASE d = c
      <4>1. at'[d].call = at[c].call /\ \A i \in DOMAIN at[c].call.puts : at[c].call.puts[i] \in asked'
        BY <3>1, <1>1, <1>2, <1>3, <1>5 DEF TypeOK
      <4>2. at'[d].put \in 0 .. Len(w.call.puts) + 1
        BY <3>1, <1>3, <1>4, <1>5
      <4>3. Taking(d)' => at'[d].cell \in DOMAIN w.call.takes
        BY <3>1, <1>3, <1>4, <1>5 DEF Taking
      <4>4. Working(d)' => at'[d].cell \in DOMAIN NowPut(d)'.setting
        <5>1. w.put \in DOMAIN w.call.puts => w.put = 1
          BY <1>3, <1>4
        <5> QED
          BY <5>1, <3>1, <1>3, <1>4, <1>5 DEF Working, NowPut
      <4> QED
        BY <4>1, <4>2, <4>3, <4>4, <3>1, <1>3, <1>5
    <3>2. CASE d # c
      BY <3>2, <1>1, <1>5, <1>6 DEF TypeOK, Busy
    <3> QED
      BY <3>1, <3>2
  <2> QED
    BY <2>1, <2>2, <2>3, <1>1 DEF TypeOK
<1>9. NeverMixed'
  BY <1>1, PieceKept DEF NeverMixed
<1>10. SeenWhole'
  <2> SUFFICES ASSUME NEW d \in Busy', Working(d)', at'[d].read,
                      NEW s \in Setting, NEW i \in DOMAIN s, s[i].reg = NowCell(d)'.reg
               PROVE  InOnePiece(s, i, seen[d] \cap Bits(s[i]))'
    BY <1>1 DEF SeenWhole
  <2>1. d # c /\ d \in Busy
    BY <1>3, <1>4, <1>5, <1>6 DEF Working
  <2>2. InOnePiece(s, i, seen[d] \cap Bits(s[i]))
    BY <2>1, <1>5 DEF SeenWhole, Busy
  <2> QED
    BY <2>2, <1>1, PieceKept
<1>11. HeldWhole'
  <2> SUFFICES ASSUME NEW d \in Busy' PROVE HoldsWhole(d)'
    BY DEF HeldWhole
  <2>1. CASE d = c
    <3> SUFFICES ASSUME NEW n \in 1 .. Len(at[c].call.takes), Done(c, n)',
                        NEW s \in Setting, NEW j \in DOMAIN s, Covers(at[c].call.takes[n], s[j])
                 PROVE  InOnePiece(s, j, held'[c][s[j].reg] \cap Bits(s[j]))
      BY <2>1, <1>1, <1>3, <1>5, PieceKept DEF HoldsWhole
    <3>1. n <= at[c].cell /\ at[c].cell \in 1 .. Len(at[c].call.takes) /\ Len(at[c].call.takes) \in Nat
      BY <1>1, <1>3, <1>5, TakeFacts DEF Done
    <3>2. CASE Covers(NowTake(c), s[j])
      BY <3>2, TakenCell DEF NeverMixed
    <3>3. CASE ~Covers(NowTake(c), s[j])
      <4>1. n # at[c].cell
        BY <3>3 DEF NowTake
      <4>2. Done(c, n)
        BY <4>1, <3>1 DEF Done
      <4>3. InOnePiece(s, j, held[c][s[j].reg] \cap Bits(s[j]))
        BY <4>2, <1>2 DEF HeldWhole, HoldsWhole
      <4> QED
        BY <4>3, <3>3, TakenCell
    <3> QED
      BY <3>2, <3>3
  <2>2. CASE d # c
    BY <2>2, <1>1, <1>5, <1>6, <1>7, HoldsOn DEF HeldWhole, Busy
  <2> QED
    BY <2>1, <2>2
<1> QED
  BY <1>8, <1>9, <1>10, <1>11

LEMMA ReadStep ==
  ASSUME IInv, NEW c \in Caller, Read(c)
  PROVE  IInv'
<1> USE DEF IInv
<1> DEFINE w == [at[c] EXCEPT !.read = TRUE]
<1>1. /\ Working(c)
      /\ seen' = [seen EXCEPT ![c] = reg[NowCell(c).reg]]
      /\ at' = [at EXCEPT ![c] = w]
      /\ reg' = reg /\ round' = round /\ asked' = asked /\ held' = held
  BY DEF Read
<1>2. c \in Busy
  BY <1>1 DEF Working, Busy
<1>3. at[c] \in Place
  BY <1>1, NowFacts
<1>4. w \in Place /\ w.call = at[c].call /\ w.put = at[c].put /\ w.cell = at[c].cell
  BY <1>3 DEF Place
<1> HIDE DEF w
<1>5. /\ at'[c] = w
      /\ \A d \in Caller \ {c} : /\ at'[d] = at[d]
                                 /\ NowPut(d)' = NowPut(d)
                                 /\ NowCell(d)' = NowCell(d)
                                 /\ Working(d)' <=> Working(d)
                                 /\ Taking(d)' <=> Taking(d)
                                 /\ \A n : Done(d, n)' <=> Done(d, n)
                                 /\ d \in Busy' <=> d \in Busy
  BY <1>1, OthersKept
<1>6. /\ NowPut(c)' = NowPut(c) /\ NowCell(c)' = NowCell(c) /\ Working(c)'
      /\ Taking(c)' <=> Taking(c)
      /\ \A n : Done(c, n)' <=> Done(c, n)
  BY <1>1, <1>2, <1>4, <1>5, IdleAssumption DEF NowPut, NowCell, Working, Taking, Done, Busy
<1>7. NowCell(c).reg \in Register
  BY <1>1, NowFacts
<1>8. /\ seen'[c] = reg[NowCell(c).reg]
      /\ \A d \in Caller \ {c} : seen'[d] = seen[d]
  BY <1>1 DEF TypeOK
<1>9. TypeOK'
  <2>1. at' \in [Caller -> Place \cup {Idle}]
    BY <1>1, <1>4 DEF TypeOK
  <2>2. seen' \in [Caller -> SUBSET (0 .. Width - 1)]
    BY <1>1, <1>7 DEF TypeOK
  <2>3. ASSUME NEW d \in Busy'
        PROVE  /\ \A i \in DOMAIN at'[d].call.puts : at'[d].call.puts[i] \in asked'
               /\ at'[d].put \in 0 .. Len(at'[d].call.puts) + 1
               /\ Taking(d)' => at'[d].cell \in DOMAIN at'[d].call.takes
               /\ Working(d)' => at'[d].cell \in DOMAIN NowPut(d)'.setting
    <3>1. CASE d = c
      BY <3>1, <1>1, <1>2, <1>4, <1>5, <1>6 DEF TypeOK
    <3>2. CASE d # c
      BY <3>2, <1>1, <1>5 DEF TypeOK, Busy
    <3> QED
      BY <3>1, <3>2
  <2> QED
    BY <1>1, <2>1, <2>2, <2>3 DEF TypeOK
<1>10. NeverMixed'
  BY <1>1, PieceKept DEF NeverMixed
<1>11. SeenWhole'
  <2> SUFFICES ASSUME NEW d \in Busy', Working(d)', at'[d].read,
                      NEW s \in Setting, NEW i \in DOMAIN s, s[i].reg = NowCell(d)'.reg
               PROVE  InOnePiece(s, i, seen[d] \cap Bits(s[i]))'
    BY DEF SeenWhole
  <2>1. CASE d = c
    <3>1. InOnePiece(s, i, reg[s[i].reg] \cap Bits(s[i]))
      BY DEF NeverMixed
    <3>2. seen'[d] = reg[s[i].reg]
      BY <2>1, <1>6, <1>8
    <3> QED
      BY <3>1, <3>2, <1>1, PieceKept
  <2>2. CASE d # c
    <3>1. InOnePiece(s, i, seen[d] \cap Bits(s[i]))
      BY <2>2, <1>5 DEF SeenWhole, Busy
    <3> QED
      BY <3>1, <2>2, <1>1, <1>8, PieceKept DEF Busy
  <2> QED
    BY <2>1, <2>2
<1>12. HeldWhole'
  <2> SUFFICES ASSUME NEW d \in Busy' PROVE HoldsWhole(d)'
    BY DEF HeldWhole
  <2>1. d \in Busy /\ at'[d].call = at[d].call /\ \A n : Done(d, n)' <=> Done(d, n)
    BY <1>2, <1>4, <1>5, <1>6 DEF Busy
  <2> QED
    BY <2>1, <1>1, HoldsOn DEF HeldWhole
<1> QED
  BY <1>9, <1>10, <1>11, <1>12

(* What TakeAssumption says of a put that writes what was taken. *)
LEMMA PutTaken ==
  ASSUME NEW k \in Call, NEW p \in 1 .. Len(k.puts), k.puts[p].how # "set"
  PROVE  /\ Len(k.puts[p].setting) = 1
         /\ \A s \in Setting : \A i \in DOMAIN s :
              /\ s[i].reg = k.puts[p].setting[1].reg
              /\ k.puts[p].how = "over" \/ s[i] = k.puts[p].setting[1]
              => \E n \in 1 .. Len(k.takes) : Covers(k.takes[n], s[i])
         /\ \A h \in 1 .. p - 1 : k.puts[h].how # "keep" =>
              \A j \in DOMAIN k.puts[h].setting :
                k.puts[h].setting[j].reg # k.puts[p].setting[1].reg
  BY TakeAssumption

(* What a process writes from what it took it has taken: its own cell when *)
(* it gives that back, every cell of the register when it writes the word. *)
LEMMA TakenFor ==
  ASSUME TypeOK, NEW c \in Caller, Working(c), NowPut(c).how # "set"
  PROVE  /\ NowCell(c) = NowPut(c).setting[1]
         /\ \A s \in Setting : \A i \in DOMAIN s :
              /\ s[i].reg = NowCell(c).reg
              /\ NowPut(c).how = "over" \/ s[i] = NowCell(c)
              => \E n \in 1 .. Len(at[c].call.takes) : Covers(at[c].call.takes[n], s[i])
<1> DEFINE k == at[c].call
           p == at[c].put
<1>1. /\ p \in 1 .. Len(k.puts) /\ k \in Call
      /\ at[c].cell \in DOMAIN NowPut(c).setting
      /\ DOMAIN NowPut(c).setting = 1 .. Len(NowPut(c).setting)
  BY NowFacts DEF Place
<1>2. NowPut(c) = k.puts[p]
  BY DEF NowPut
<1>3. Len(NowPut(c).setting) = 1
  BY <1>1, <1>2, PutTaken
<1>4. NowCell(c) = NowPut(c).setting[1]
  <2>1. at[c].cell = 1
    BY <1>1, <1>3
  <2> QED
    BY <2>1 DEF NowCell
<1>5. /\ k.puts[p].how # "set"
      /\ NowCell(c) = k.puts[p].setting[1]
  BY <1>2, <1>4
<1>6. \A s \in Setting : \A i \in DOMAIN s :
        /\ s[i].reg = k.puts[p].setting[1].reg
        /\ k.puts[p].how = "over" \/ s[i] = k.puts[p].setting[1]
        => \E n \in 1 .. Len(k.takes) : Covers(k.takes[n], s[i])
  BY <1>1, <1>5, PutTaken
<1> QED
  BY <1>2, <1>4, <1>5, <1>6

(* It is whole. *)
LEMMA HeldCell ==
  ASSUME IInv, NEW c \in Caller, Working(c), NowPut(c).how # "set",
         NEW s \in Setting, NEW i \in DOMAIN s, s[i].reg = NowCell(c).reg,
         NowPut(c).how = "over" \/ s[i] = NowCell(c)
  PROVE  InOnePiece(s, i, held[c][s[i].reg] \cap Bits(s[i]))
<1> USE DEF IInv
<1>1. PICK n \in 1 .. Len(at[c].call.takes) : Covers(at[c].call.takes[n], s[i])
  BY TakenFor
<1>2. c \in Busy /\ at[c].put # 0
  BY NowFacts DEF Busy, Working
<1> QED
  BY <1>1, <1>2 DEF HeldWhole, HoldsWhole, Done

(* What a write leaves of a cell, its own or another's. *)
LEMMA WriteLeavesPieces ==
  ASSUME IInv, NEW c \in Caller, Working(c), ReadsFirst(c) => at[c].read,
         NEW s \in Setting, NEW i \in DOMAIN s, s[i].reg = NowCell(c).reg
  PROVE  InOnePiece(s, i,
           Written(NowCell(c), NowPut(c), seen[c], held[c][NowCell(c).reg]) \cap Bits(s[i]))
<1> USE DEF IInv
<1> DEFINE q == NowPut(c)
           j == at[c].cell
           new == Written(NowCell(c), q, seen[c], held[c][NowCell(c).reg])
<1>1. /\ q \in asked /\ q.setting \in Setting /\ j \in DOMAIN q.setting
      /\ q.how \in {"set", "keep", "over"} /\ (q.how # "set" => ~NowCell(c).whole)
  BY NowFacts
<1>2. NowCell(c) = q.setting[j]
  BY DEF NowCell
<1>3. ASSUME ~NowCell(c).whole, q.how # "over"
      PROVE  InOnePiece(s, i, seen[c] \cap Bits(s[i]))
  BY <1>3 DEF SeenWhole, ReadsFirst, Working, Busy
<1>4. CASE q.setting = s /\ j = i
  <2>1. NowCell(c) = s[i]
    BY <1>2, <1>4
  <2>2. CASE q.how = "keep"
    <3>1. new \cap Bits(s[i]) = held[c][s[i].reg] \cap Bits(s[i])
      BY <2>1, <2>2, WrittenHere
    <3> QED
      BY <3>1, <2>1, <2>2, HeldCell
  <2>3. CASE q.how # "keep"
    <3>1. new \cap Bits(s[i]) = Placed(s[i], q.code)
      BY <2>1, <2>3, WrittenHere
    <3> QED
      BY <3>1, <2>3, <1>1, <1>4 DEF InOnePiece
  <2> QED
    BY <2>2, <2>3
<1>5. CASE ~(q.setting = s /\ j = i)
  <2>1. ~NowCell(c).whole /\ Bits(s[i]) \cap Bits(NowCell(c)) = {}
    BY <1>1, <1>2, <1>5, DisjointAssumption DEF Apart
  <2>2. new \cap Bits(s[i])
          = IF q.how = "over" THEN held[c][s[i].reg] \cap Bits(s[i]) ELSE seen[c] \cap Bits(s[i])
    BY <2>1, WrittenBeside
  <2>3. CASE q.how = "over"
    BY <2>2, <2>3, HeldCell
  <2>4. CASE q.how # "over"
    BY <2>1, <2>2, <2>4, <1>3
  <2> QED
    BY <2>3, <2>4
<1> QED
  BY <1>4, <1>5

LEMMA AfterPlace ==
  ASSUME TypeOK, NEW c \in Caller, Working(c)
  PROVE  LET w == After(at[c])
         IN /\ w \in Place
            /\ w.call = at[c].call
            /\ ~w.read
            /\ w.put \in 1 .. Len(w.call.puts) + 1
            /\ w.put \in DOMAIN w.call.puts => w.cell \in DOMAIN w.call.puts[w.put].setting
<1> DEFINE old == at[c]
           more == old.cell < Len(old.call.puts[old.put].setting)
<1>1. /\ old \in Place
      /\ old.put \in 1 .. Len(old.call.puts)
      /\ old.cell \in DOMAIN old.call.puts[old.put].setting
      /\ DOMAIN old.call.puts[old.put].setting = 1 .. Len(old.call.puts[old.put].setting)
      /\ Len(old.call.puts[old.put].setting) \in Nat \ {0}
  BY NowFacts DEF NowPut
<1>2. /\ old.call \in Call /\ old.put \in Nat /\ old.cell \in Nat
      /\ old = [call |-> old.call, put |-> old.put, cell |-> old.cell, read |-> old.read]
  BY <1>1 DEF Place
<1>3. /\ Len(old.call.puts) \in Nat
      /\ DOMAIN old.call.puts = 1 .. Len(old.call.puts)
      /\ \A i \in DOMAIN old.call.puts : 1 \in DOMAIN old.call.puts[i].setting
  BY <1>2, CallFacts
<1> HIDE DEF old
<1>4. CASE more
  <2>1. After(old) = [call |-> old.call, put |-> old.put, cell |-> old.cell + 1, read |-> FALSE]
    BY <1>2, <1>4 DEF After
  <2>2. old.cell + 1 \in DOMAIN old.call.puts[old.put].setting
    BY <1>1, <1>2, <1>4
  <2> QED
    BY <2>1, <2>2, <1>1, <1>2, <1>3, SMTT(40) DEF Place, old
<1>5. CASE ~more
  <2>1. After(old) = [call |-> old.call, put |-> old.put + 1, cell |-> 1, read |-> FALSE]
    BY <1>2, <1>5 DEF After
  <2> QED
    BY <2>1, <1>1, <1>2, <1>3 DEF Place, old
<1> QED
  BY <1>4, <1>5

LEMMA WriteStep ==
  ASSUME IInv, NEW c \in Caller, Write(c)
  PROVE  IInv'
<1> USE DEF IInv
<1> DEFINE w == After(at[c])
           r == NowCell(c).reg
           new == Written(NowCell(c), NowPut(c), seen[c], held[c][r])
<1>1. /\ Working(c)
      /\ ReadsFirst(c) => at[c].read
      /\ reg' = [reg EXCEPT ![r] = new]
      /\ at' = [at EXCEPT ![c] = w]
      /\ seen' = [seen EXCEPT ![c] = {}]
      /\ round' = round /\ asked' = asked /\ held' = held
  BY DEF Write
<1>2. /\ w \in Place /\ w.call = at[c].call /\ ~w.read
      /\ w.put \in 1 .. Len(w.call.puts) + 1
      /\ w.put \in DOMAIN w.call.puts => w.cell \in DOMAIN w.call.puts[w.put].setting
  BY <1>1, AfterPlace
<1>3. r \in Register /\ new \subseteq 0 .. Width - 1 /\ at[c].put # 0
  <2>1. r \in Register /\ IsCell(NowCell(c)) /\ at[c].put # 0
    BY <1>1, NowFacts
  <2>2. seen[c] \in SUBSET (0 .. Width - 1) /\ held[c][r] \in SUBSET (0 .. Width - 1)
    BY <2>1 DEF TypeOK
  <2> QED
    BY <2>1, <2>2, WrittenBits
<1>4. \A s \in Setting : \A i \in DOMAIN s :
        s[i].reg = r => InOnePiece(s, i, new \cap Bits(s[i]))
  BY <1>1, WriteLeavesPieces
<1> HIDE DEF w, r, new
<1>5. /\ at'[c] = w
      /\ \A d \in Caller \ {c} : /\ at'[d] = at[d]
                                 /\ NowPut(d)' = NowPut(d)
                                 /\ NowCell(d)' = NowCell(d)
                                 /\ Working(d)' <=> Working(d)
                                 /\ Taking(d)' <=> Taking(d)
                                 /\ \A n : Done(d, n)' <=> Done(d, n)
                                 /\ d \in Busy' <=> d \in Busy
  BY <1>1, OthersKept
<1>6. c \in Busy
  BY <1>1 DEF Working, Busy
<1>7. TypeOK'
  <2>1. at' \in [Caller -> Place \cup {Idle}] /\ seen' \in [Caller -> SUBSET (0 .. Width - 1)]
    BY <1>1, <1>2 DEF TypeOK
  <2>2. reg' \in [Register -> SUBSET (0 .. Width - 1)]
    BY <1>1, <1>3 DEF TypeOK
  <2>3. ASSUME NEW d \in Busy'
        PROVE  /\ \A i \in DOMAIN at'[d].call.puts : at'[d].call.puts[i] \in asked'
               /\ at'[d].put \in 0 .. Len(at'[d].call.puts) + 1
               /\ Taking(d)' => at'[d].cell \in DOMAIN at'[d].call.takes
               /\ Working(d)' => at'[d].cell \in DOMAIN NowPut(d)'.setting
    <3>1. CASE d = c
      <4>1. w.put \in 0 .. Len(w.call.puts) + 1 /\ w.put # 0
        <5>1. Len(w.call.puts) \in Nat
          BY <1>2, CallFacts DEF Place
        <5> QED
          BY <5>1, <1>2
      <4>2. /\ \A i \in DOMAIN w.call.puts : w.call.puts[i] \in asked'
            /\ Working(d)' => at'[d].cell \in DOMAIN NowPut(d)'.setting
        BY <3>1, <1>1, <1>2, <1>5, <1>6 DEF TypeOK, Working, NowPut
      <4> QED
        BY <4>1, <4>2, <3>1, <1>5 DEF Taking
    <3>2. CASE d # c
      BY <3>2, <1>1, <1>5 DEF TypeOK, Busy
    <3> QED
      BY <3>1, <3>2
  <2> QED
    BY <1>1, <2>1, <2>2, <2>3 DEF TypeOK
<1>8. NeverMixed'
  <2> SUFFICES ASSUME NEW s \in Setting, NEW i \in DOMAIN s
               PROVE  InOnePiece(s, i, reg[s[i].reg] \cap Bits(s[i]))'
    BY DEF NeverMixed
  <2>1. s[i].reg \in Register
    BY DEF Register
  <2>2. CASE s[i].reg = r
    <3>1. reg'[s[i].reg] = new
      BY <2>2, <1>1, <1>3 DEF TypeOK
    <3>2. InOnePiece(s, i, new \cap Bits(s[i]))
      BY <2>2, <1>4
    <3> QED
      BY <3>1, <3>2, <1>1, PieceKept
  <2>3. CASE s[i].reg # r
    <3>1. reg'[s[i].reg] = reg[s[i].reg]
      BY <2>1, <2>3, <1>1 DEF TypeOK
    <3>2. InOnePiece(s, i, reg[s[i].reg] \cap Bits(s[i]))
      BY DEF NeverMixed
    <3> QED
      BY <3>1, <3>2, <1>1, PieceKept
  <2> QED
    BY <2>2, <2>3
<1>9. SeenWhole'
  <2> SUFFICES ASSUME NEW d \in Busy', Working(d)', at'[d].read,
                      NEW s \in Setting, NEW i \in DOMAIN s, s[i].reg = NowCell(d)'.reg
               PROVE  InOnePiece(s, i, seen[d] \cap Bits(s[i]))'
    BY DEF SeenWhole
  <2>1. d # c /\ d \in Busy
    BY <1>2, <1>5 DEF Busy
  <2>2. seen'[d] = seen[d]
    BY <2>1, <1>1 DEF TypeOK
  <2>3. InOnePiece(s, i, seen[d] \cap Bits(s[i]))
    BY <2>1, <1>5 DEF SeenWhole, Busy
  <2> QED
    BY <2>2, <2>3, <1>1, PieceKept
<1>10. HeldWhole'
  <2> SUFFICES ASSUME NEW d \in Busy' PROVE HoldsWhole(d)'
    BY DEF HeldWhole
  <2>1. d \in Busy /\ at'[d].call = at[d].call /\ \A n : Done(d, n)' => Done(d, n)
    BY <1>2, <1>3, <1>5, <1>6 DEF Busy, Done
  <2> QED
    BY <2>1, <1>1, HoldsOn DEF HeldWhole
<1> QED
  BY <1>7, <1>8, <1>9, <1>10

LEMMA ReturnStep ==
  ASSUME IInv, NEW c \in Caller, Return(c)
  PROVE  IInv'
<1> USE DEF IInv
<1>1. /\ at' = [at EXCEPT ![c] = Idle]
      /\ held' = [held EXCEPT ![c] = Nothing]
      /\ reg' = reg /\ round' = round /\ seen' = seen /\ asked' = asked
  BY DEF Return
<1>2. /\ at'[c] = Idle
      /\ \A d \in Caller \ {c} : /\ at'[d] = at[d]
                                 /\ NowPut(d)' = NowPut(d)
                                 /\ NowCell(d)' = NowCell(d)
                                 /\ Working(d)' <=> Working(d)
                                 /\ Taking(d)' <=> Taking(d)
                                 /\ \A n : Done(d, n)' <=> Done(d, n)
                                 /\ d \in Busy' <=> d \in Busy
  BY <1>1, OthersKept
<1>3. \A d \in Busy' : d \in Busy /\ d # c /\ d \in Caller
  BY <1>2 DEF Busy
<1>4. \A d \in Caller \ {c} : held'[d] = held[d]
  BY <1>1 DEF TypeOK
<1>5. TypeOK'
  <2>1. at' \in [Caller -> Place \cup {Idle}]
    BY <1>1 DEF TypeOK
  <2>2. held' \in [Caller -> [Register -> SUBSET (0 .. Width - 1)]]
    BY <1>1 DEF TypeOK, Nothing
  <2>3. ASSUME NEW d \in Busy'
        PROVE  /\ \A i \in DOMAIN at'[d].call.puts : at'[d].call.puts[i] \in asked'
               /\ at'[d].put \in 0 .. Len(at'[d].call.puts) + 1
               /\ Taking(d)' => at'[d].cell \in DOMAIN at'[d].call.takes
               /\ Working(d)' => at'[d].cell \in DOMAIN NowPut(d)'.setting
    BY <1>1, <1>2, <1>3 DEF TypeOK, Busy
  <2> QED
    BY <1>1, <2>1, <2>2, <2>3 DEF TypeOK
<1>6. NeverMixed'
  BY <1>1, PieceKept DEF NeverMixed
<1>7. SeenWhole'
  <2> SUFFICES ASSUME NEW d \in Busy', Working(d)', at'[d].read,
                      NEW s \in Setting, NEW i \in DOMAIN s, s[i].reg = NowCell(d)'.reg
               PROVE  InOnePiece(s, i, seen[d] \cap Bits(s[i]))'
    BY <1>1 DEF SeenWhole
  <2>1. InOnePiece(s, i, seen[d] \cap Bits(s[i]))
    BY <1>2, <1>3 DEF SeenWhole, Busy
  <2> QED
    BY <2>1, <1>1, PieceKept
<1>8. HeldWhole'
  BY <1>1, <1>2, <1>3, <1>4, HoldsOn DEF HeldWhole
<1> QED
  BY <1>5, <1>6, <1>7, <1>8

-----------------------------------------------------------------------------

LEMMA StepIInv == IInv /\ [Next]_vars => IInv'
<1> SUFFICES ASSUME IInv, [Next]_vars PROVE IInv'
  OBVIOUS
<1>1. CASE Next
  BY <1>1, BeginStep, TakeStep, ReadStep, WriteStep, ReturnStep DEF Next
<1>2. CASE UNCHANGED vars
  <2>1. TypeOK'
    BY <1>2 DEF vars, IInv, TypeOK, Busy, Working, Taking, NowPut
  <2>2. NeverMixed'
    BY <1>2 DEF vars, IInv, NeverMixed, InOnePiece
  <2>3. SeenWhole'
    <3> SUFFICES ASSUME NEW d \in Busy', Working(d)', at'[d].read,
                        NEW s \in Setting, NEW i \in DOMAIN s, s[i].reg = NowCell(d)'.reg
                 PROVE  InOnePiece(s, i, seen[d] \cap Bits(s[i]))'
      BY SMTT(40) DEF SeenWhole
    <3>1. InOnePiece(s, i, seen[d] \cap Bits(s[i]))
      BY <1>2 DEF vars, IInv, SeenWhole, Busy, Working, NowPut, NowCell
    <3> QED
      BY <3>1, <1>2, PieceKept DEF vars
  <2>4. HeldWhole'
    <3> SUFFICES ASSUME NEW d \in Busy' PROVE HoldsWhole(d)'
      BY DEF HeldWhole
    <3>1. d \in Busy /\ HoldsWhole(d) /\ at'[d] = at[d] /\ held'[d] = held[d]
      BY <1>2 DEF vars, IInv, HeldWhole, Busy
    <3> QED
      BY <3>1, <1>2, HoldsOn DEF vars, Done
  <2> QED
    BY <2>1, <2>2, <2>3, <2>4 DEF IInv
<1> QED
  BY <1>1, <1>2

(* Every state of any set of processes in any calls: a process is at a     *)
(* put and a cell of its call (the walk of the drivers through registers). *)
THEOREM TypesRight == Spec => []TypeOK
<1>1. IInv => TypeOK
  BY DEF IInv
<1> QED
  BY <1>1, InitIInv, StepIInv, PTL DEF Spec

(* However many processes call rtl8367b_setAsicRegBits at once, and on     *)
(* whatever registers: a cell holds what it held at the start or all of    *)
(* what one call asked for.                                                *)
THEOREM NoCellMixed == Spec => []NeverMixed
<1>1. IInv => NeverMixed
  BY DEF IInv
<1> QED
  BY <1>1, InitIInv, StepIInv, PTL DEF Spec

-----------------------------------------------------------------------------
(***************************************************************************)
(* Registers implements SettingsMap.  A process that is alone finds its    *)
(* registers as it left them, and what it holds of those it has not yet    *)
(* written from is what is there.                                          *)
(***************************************************************************)

(* No other call is at the registers of a process that is alone; so what it *)
(* read last is still there, and so is what it wrote.                       *)
AloneApart ==
  \A c, d \in Busy : (c # d /\ alone[c]) => Places(at[c].call) \cap Places(at[d].call) = {}

SeenFresh(c) == (Working(c) /\ at[c].read) => seen[c] = reg[NowCell(c).reg]

(* The call will yet write what it took of register r, or is about to. *)
Ahead(c, r) ==
  \E i \in DOMAIN at[c].call.puts :
    /\ i >= at[c].put
    /\ at[c].call.puts[i].how # "set"
    /\ at[c].call.puts[i].setting[1].reg = r

HeldFresh(c) ==
  \A n \in 1 .. Len(at[c].call.takes) : Done(c, n) =>
    \A s \in Setting : \A j \in DOMAIN s :
      (Covers(at[c].call.takes[n], s[j]) /\ Ahead(c, s[j].reg)) =>
        held[c][s[j].reg] \cap Bits(s[j]) = reg[s[j].reg] \cap Bits(s[j])

Passed(c, i, j) == i < at[c].put \/ (i = at[c].put /\ j < at[c].cell)

PutsHold(c) ==
  LET k == at[c].call
  IN \A i \in DOMAIN k.puts : Abstract!Asks(k, i) =>
       \A j \in DOMAIN k.puts[i].setting : Passed(c, i, j) =>
         LET cell == k.puts[i].setting[j]
         IN reg[cell.reg] \cap Bits(cell) = Placed(cell, k.puts[i].code)

Undisturbed(c) == SeenFresh(c) /\ PutsHold(c) /\ HeldFresh(c)

AloneInv ==
  /\ alone \in [Caller -> BOOLEAN]
  /\ AloneApart
  /\ \A c \in Busy : alone[c] => Undisturbed(c)

RInv == IInv /\ AloneInv

LEMMA InitRInv == Init => RInv
<1> SUFFICES ASSUME Init PROVE AloneInv
  BY InitIInv DEF RInv
<1>1. Busy = {}
  BY DEF Init, Busy
<1> QED
  BY <1>1 DEF Init, AloneInv, AloneApart

(* The register of the cell a process is at is one of its call's. *)
LEMMA NowPlace ==
  ASSUME TypeOK, NEW c \in Caller, Working(c)
  PROVE  NowCell(c).reg \in Places(at[c].call)
<1>1. NowPut(c).setting \in Named(at[c].call)
  BY DEF Named, NowPut, Working
<1>2. at[c].cell \in DOMAIN NowPut(c).setting
  BY NowFacts
<1> QED
  BY <1>1, <1>2 DEF Places, NowCell

(* So are the registers of every setting it puts codes into. *)
LEMMA PutPlace ==
  ASSUME NEW k, NEW i \in DOMAIN k.puts, NEW j \in DOMAIN k.puts[i].setting
  PROVE  k.puts[i].setting[j].reg \in Places(k)
  BY DEF Places, Named

(* What AloneInv says of a process stays true when the registers of its    *)
(* call do and the process does nothing.                                   *)
LEMMA BystanderKept ==
  ASSUME TypeOK, NEW d \in Busy, Undisturbed(d),
         at'[d] = at[d], seen'[d] = seen[d], held'[d] = held[d],
         \A r \in Places(at[d].call) : reg'[r] = reg[r]
  PROVE  Undisturbed(d)'
<1> USE DEF Undisturbed
<1>1. d \in Caller /\ at[d].call \in Call
  BY DEF Busy, TypeOK, Place
<1>2. /\ Working(d)' <=> Working(d)
      /\ NowCell(d)' = NowCell(d)
      /\ \A i, j : Passed(d, i, j)' <=> Passed(d, i, j)
      /\ \A n : Done(d, n)' <=> Done(d, n)
      /\ \A r : Ahead(d, r)' <=> Ahead(d, r)
  BY DEF Working, NowCell, NowPut, Passed, Done, Ahead
<1>3. SeenFresh(d)'
  <2> SUFFICES ASSUME Working(d), at[d].read PROVE seen'[d] = reg'[NowCell(d).reg]
    BY <1>2 DEF SeenFresh
  <2>1. NowCell(d).reg \in Places(at[d].call)
    BY <1>1, NowPlace, SMTT(40)
  <2> QED
    BY <2>1 DEF SeenFresh
<1>4. PutsHold(d)'
  BY <1>2, PutPlace DEF PutsHold
<1>5. HeldFresh(d)'
  <2> SUFFICES ASSUME NEW n \in 1 .. Len(at[d].call.takes), Done(d, n),
                      NEW s \in Setting, NEW j \in DOMAIN s,
                      Covers(at[d].call.takes[n], s[j]), Ahead(d, s[j].reg)
               PROVE  held[d][s[j].reg] \cap Bits(s[j]) = reg'[s[j].reg] \cap Bits(s[j])
    BY <1>2 DEF HeldFresh
  <2>1. s[j].reg \in Places(at[d].call)
    BY <1>1, TakeAssumption DEF Covers
  <2> QED
    BY <2>1 DEF HeldFresh
<1> QED
  BY <1>3, <1>4, <1>5

(* A call that is at its first cell has put nothing yet. *)
LEMMA NonePassed ==
  ASSUME NEW k \in Call, NEW i \in DOMAIN k.puts, NEW j \in DOMAIN k.puts[i].setting,
         NEW put \in {0, 1}, NEW cell, put = 1 => cell = 1
  PROVE  ~(i < put \/ (i = put /\ j < cell))
<1>1. DOMAIN k.puts = 1 .. Len(k.puts)
  BY CallAssumption
<1>2. i \in 1 .. Len(k.puts)
  BY <1>1
<1>3. DOMAIN k.puts[i].setting = 1 .. Len(k.puts[i].setting)
  BY <1>2, CallAssumption
<1>4. j \in 1 .. Len(k.puts[i].setting)
  BY <1>3
<1> QED
  BY <1>2, <1>4

LEMMA BeginAlone ==
  ASSUME RInv, NEW c \in Caller, Begin(c)
  PROVE  AloneInv'
<1> USE DEF RInv, IInv
<1>1. PICK k \in CallsOf[round][c] :
        /\ at' = [at EXCEPT ![c] = Entered(k)]
        /\ alone' = [d \in Caller |->
             IF d = c THEN {e \in Busy : Places(k) \cap Places(at[e].call) # {}} = {}
             ELSE alone[d] /\ d \notin {e \in Busy : Places(k) \cap Places(at[e].call) # {}}]
  BY DEF Begin
<1>2. at[c] = Idle /\ reg' = reg /\ seen' = seen /\ held' = held
  BY DEF Begin
<1>3. k \in Call
  BY RoundAssumption DEF TypeOK
<1>4. /\ at'[c] = Entered(k)
      /\ Entered(k).call = k /\ Entered(k).cell = 1 /\ ~Entered(k).read
      /\ Entered(k).put = IF Len(k.takes) = 0 THEN 1 ELSE 0
      /\ Len(k.takes) \in Nat
      /\ \A d \in Caller \ {c} : at'[d] = at[d]
  BY <1>1, <1>3, CallFacts DEF TypeOK
<1>5. \A d \in Busy' : d = c \/ (d \in Busy /\ d # c)
  BY <1>4 DEF Busy
<1>6. AloneApart'
  <2> SUFFICES ASSUME NEW d \in Busy', NEW e \in Busy', d # e, alone'[d]
               PROVE  Places(at'[d].call) \cap Places(at'[e].call) = {}
    BY DEF AloneApart
  <2>1. CASE d = c
    BY <2>1, <1>1, <1>4, <1>5 DEF Busy
  <2>2. CASE e = c
    BY <2>2, <1>1, <1>4, <1>5 DEF Busy
  <2>3. CASE d # c /\ e # c
    <3>1. alone[d] /\ d \in Busy /\ e \in Busy /\ at'[d] = at[d] /\ at'[e] = at[e]
      BY <2>3, <1>1, <1>4, <1>5 DEF Busy
    <3> QED
      BY <3>1 DEF AloneInv, AloneApart
  <2> QED
    BY <2>1, <2>2, <2>3
<1>7. ASSUME NEW d \in Busy', alone'[d]
      PROVE  Undisturbed(d)'
  <2>1. CASE d = c
    <3>1. PutsHold(d)'
      BY <2>1, <1>3, <1>4, NonePassed DEF PutsHold, Passed
    <3>2. SeenFresh(d)'
      BY <2>1, <1>4 DEF SeenFresh
    <3>3. \A n \in 1 .. Len(k.takes) : ~Done(d, n)'
      BY <2>1, <1>4 DEF Done
    <3>4. HeldFresh(d)'
      BY <2>1, <3>3, <1>4 DEF HeldFresh
    <3> QED
      BY <3>1, <3>2, <3>4 DEF Undisturbed
  <2>2. CASE d # c
    <3>1. d \in Busy /\ alone[d] /\ at'[d] = at[d]
      BY <2>2, <1>1, <1>4, <1>5, <1>7 DEF Busy
    <3> QED
      BY <3>1, <1>2, BystanderKept DEF AloneInv
  <2> QED
    BY <2>1, <2>2
<1>8. alone' \in [Caller -> BOOLEAN]
  BY <1>1 DEF AloneInv
<1> QED
  BY <1>6, <1>7, <1>8 DEF AloneInv

LEMMA TakeAlone ==
  ASSUME RInv, NEW c \in Caller, Take(c)
  PROVE  AloneInv'
<1> USE DEF RInv, IInv
<1> DEFINE w == AfterTake(at[c])
<1>1. /\ Taking(c) /\ at[c].put = 0
      /\ at' = [at EXCEPT ![c] = w]
      /\ reg' = reg /\ alone' = alone /\ seen' = seen
  BY DEF Take, Taking
<1>2. c \in Busy /\ at[c].call \in Call
  BY <1>1, TakeFacts
<1>3. /\ w.call = at[c].call
      /\ w.put \in {0, 1}
      /\ w.put = 1 => w.cell = 1 /\ ~w.read
      /\ \A n \in 1 .. Len(w.call.takes) : (w.put # 0 \/ n < w.cell) => n <= at[c].cell
  BY <1>1, AfterTakePlace
<1> HIDE DEF w
<1>4. at'[c] = w /\ \A d \in Caller \ {c} : at'[d] = at[d] /\ (d \in Busy' <=> d \in Busy)
  BY <1>1, OthersKept
<1>5. \A d \in Busy' : d \in Busy /\ at'[d].call = at[d].call
  BY <1>2, <1>3, <1>4 DEF Busy
<1>6. AloneApart'
  BY <1>1, <1>5 DEF AloneInv, AloneApart
<1>7. \A d \in Caller \ {c} : held'[d] = held[d]
  BY DEF Take, TypeOK
<1>8. ASSUME NEW d \in Busy', alone'[d] PROVE Undisturbed(d)'
  <2>1. d \in Busy /\ Undisturbed(d)
    BY <1>1, <1>5, <1>8 DEF AloneInv
  <2>2. CASE d = c
    <3>1. PutsHold(d)'
      BY <2>2, <1>2, <1>3, <1>4, NonePassed DEF PutsHold, Passed
    <3>2. SeenFresh(d)'
      <4>1. at[c].call.puts = w.call.puts /\ DOMAIN w.call.puts = 1 .. Len(w.call.puts)
        BY <1>2, <1>3, CallFacts
      <4>2. Working(d)' => w.put = 1
        BY <4>1, <2>2, <1>3, <1>4 DEF Working
      <4> QED
        BY <4>2, <2>2, <1>3, <1>4 DEF SeenFresh
    <3>3. HeldFresh(d)'
      <4> SUFFICES ASSUME NEW n \in 1 .. Len(at[c].call.takes), Done(c, n)',
                          NEW s \in Setting, NEW j \in DOMAIN s,
                          Covers(at[c].call.takes[n], s[j]), Ahead(c, s[j].reg)'
                   PROVE  held'[c][s[j].reg] \cap Bits(s[j]) = reg[s[j].reg] \cap Bits(s[j])
        BY <2>2, <1>1, <1>3, <1>4 DEF HeldFresh
      <4>1. n <= at[c].cell /\ at[c].cell \in 1 .. Len(at[c].call.takes) /\ Len(at[c].call.takes) \in Nat
        BY <1>1, <1>3, <1>4, TakeFacts DEF Done
      <4>2. CASE Covers(NowTake(c), s[j])
        BY <4>2, TakenCell
      <4>3. CASE ~Covers(NowTake(c), s[j])
        <5>1. n # at[c].cell
          BY <4>3 DEF NowTake
        <5>2. Done(c, n)
          BY <5>1, <4>1 DEF Done
        <5>3. Ahead(c, s[j].reg)
          <6>1. \A i \in DOMAIN at[c].call.puts : i >= 0
            BY <1>2, CallFacts
          <6> QED
            BY <6>1, <1>1, <1>3, <1>4 DEF Ahead
        <5>4. held[c][s[j].reg] \cap Bits(s[j]) = reg[s[j].reg] \cap Bits(s[j])
          BY <5>2, <5>3, <2>1, <2>2 DEF Undisturbed, HeldFresh
        <5> QED
          BY <5>4, <4>3, TakenCell
      <4> QED
        BY <4>2, <4>3
    <3> QED
      BY <3>1, <3>2, <3>3 DEF Undisturbed
  <2>3. CASE d # c
    <3>1. at'[d] = at[d] /\ held'[d] = held[d] /\ seen'[d] = seen[d]
      BY <2>1, <2>3, <1>1, <1>4, <1>7 DEF Busy
    <3> QED
      BY <3>1, <2>1, <1>1, BystanderKept
  <2> QED
    BY <2>2, <2>3
<1> QED
  BY <1>1, <1>6, <1>8 DEF AloneInv

LEMMA ReadAlone ==
  ASSUME RInv, NEW c \in Caller, Read(c)
  PROVE  AloneInv'
<1> USE DEF RInv, IInv
<1> DEFINE w == [at[c] EXCEPT !.read = TRUE]
<1>1. /\ Working(c)
      /\ seen' = [seen EXCEPT ![c] = reg[NowCell(c).reg]]
      /\ at' = [at EXCEPT ![c] = w]
      /\ reg' = reg /\ alone' = alone /\ held' = held
  BY DEF Read
<1>2. w.call = at[c].call /\ w.put = at[c].put /\ w.cell = at[c].cell
  <2>1. at[c] \in Place
    BY <1>1, NowFacts
  <2> QED
    BY <2>1 DEF Place
<1> HIDE DEF w
<1>3. at'[c] = w /\ \A d \in Caller \ {c} : at'[d] = at[d] /\ (d \in Busy' <=> d \in Busy)
  BY <1>1, OthersKept
<1>4. \A d \in Busy' : d \in Busy /\ at'[d].call = at[d].call
  BY <1>1, <1>2, <1>3 DEF Busy, Working
<1>5. AloneApart'
  BY <1>1, <1>4 DEF AloneInv, AloneApart
<1>6. ASSUME NEW d \in Busy', alone'[d] PROVE Undisturbed(d)'
  <2>1. d \in Busy /\ Undisturbed(d)
    BY <1>1, <1>4, <1>6 DEF AloneInv
  <2>2. CASE d = c
    <3>1. /\ NowCell(d)' = NowCell(d)
          /\ \A i, j : Passed(d, i, j)' <=> Passed(d, i, j)
          /\ \A n : Done(d, n)' <=> Done(d, n)
      BY <2>2, <1>2, <1>3, SMTT(40) DEF NowCell, NowPut, Passed, Done
    <3>2. seen'[d] = reg[NowCell(d).reg]
      BY <2>2, <1>1 DEF TypeOK
    <3>3. SeenFresh(d)'
      BY <3>1, <3>2, <1>1 DEF SeenFresh
    <3>4. PutsHold(d)'
      BY <2>1, <2>2, <3>1, <1>1, <1>2, <1>3, SMTT(40) DEF Undisturbed, PutsHold
    <3>5. \A r : Ahead(d, r)' => Ahead(d, r)
      BY <2>2, <1>2, <1>3, SMTT(40) DEF Ahead
    <3>6. HeldFresh(d)'
      BY <2>1, <2>2, <3>1, <3>5, <1>1, <1>2, <1>3, SMTT(40) DEF Undisturbed, HeldFresh
    <3> QED
      BY <3>3, <3>4, <3>6 DEF Undisturbed
  <2>3. CASE d # c
    <3>1. at'[d] = at[d] /\ seen'[d] = seen[d]
      BY <2>1, <2>3, <1>1, <1>3 DEF TypeOK, Busy
    <3> QED
      BY <3>1, <2>1, <1>1, BystanderKept
  <2> QED
    BY <2>2, <2>3
<1> QED
  BY <1>1, <1>5, <1>6 DEF AloneInv

(* What a process that is alone took for the put it is at is still there.  *)
LEMMA HeldNow ==
  ASSUME TypeOK, NEW c \in Caller, Working(c), HeldFresh(c), NowPut(c).how # "set",
         NEW s \in Setting, NEW i \in DOMAIN s, s[i].reg = NowCell(c).reg,
         NowPut(c).how = "over" \/ s[i] = NowCell(c)
  PROVE  held[c][s[i].reg] \cap Bits(s[i]) = reg[s[i].reg] \cap Bits(s[i])
<1>1. PICK n \in 1 .. Len(at[c].call.takes) : Covers(at[c].call.takes[n], s[i])
  BY TakenFor
<1>2. NowCell(c) = NowPut(c).setting[1]
  BY TakenFor
<1>3. at[c].put \in DOMAIN at[c].call.puts /\ at[c].put \in Nat /\ at[c].put # 0
  BY NowFacts DEF Working, Place
<1>4. Ahead(c, s[i].reg)
  <2>1. /\ at[c].call.puts[at[c].put].how # "set"
        /\ at[c].call.puts[at[c].put].setting[1].reg = s[i].reg
    BY <1>2 DEF NowPut
  <2>2. at[c].put >= at[c].put
    BY <1>3
  <2> QED
    BY <2>1, <2>2, <1>3, Zenon DEF Ahead
<1>5. Done(c, n)
  BY <1>3 DEF Done
<1> QED
  BY <1>1, <1>4, <1>5 DEF HeldFresh

(* A process that is alone leaves a register as it is when it gives back   *)
(* what it took of it.                                                     *)
LEMMA KeepAlone ==
  ASSUME RInv, NEW c \in Caller, Working(c), alone[c], NowPut(c).how = "keep", at[c].read
  PROVE  Written(NowCell(c), NowPut(c), seen[c], held[c][NowCell(c).reg]) = reg[NowCell(c).reg]
<1> USE DEF RInv, IInv
<1> DEFINE q == NowPut(c)
           cell == NowCell(c)
<1>1. Undisturbed(c)
  BY DEF AloneInv, Busy, Working
<1>2. q.setting \in Setting /\ at[c].cell \in DOMAIN q.setting /\ ~cell.whole
  BY NowFacts
<1>3. seen[c] = reg[cell.reg]
  BY <1>1 DEF Undisturbed, SeenFresh
<1>4. held[c][cell.reg] \cap Bits(cell) = reg[cell.reg] \cap Bits(cell)
  BY <1>1, <1>2, HeldNow DEF Undisturbed, NowCell
<1>5. /\ Own(cell, q, held[c][cell.reg]) = held[c][cell.reg] \cap Bits(cell)
      /\ Beside(cell, q, seen[c], held[c][cell.reg]) = seen[c]
  BY <1>2 DEF Own, Beside
<1>6. Written(cell, q, seen[c], held[c][cell.reg])
        = (seen[c] \ Bits(cell)) \cup (held[c][cell.reg] \cap Bits(cell))
  BY <1>5 DEF Written
<1> HIDE DEF cell, q
<1> QED
  BY <1>3, <1>4, <1>6 DEF cell, q

(* What a process that is alone writes beside its cell is what is there.   *)
LEMMA BesideAlone ==
  ASSUME RInv, NEW c \in Caller, Working(c), alone[c], ReadsFirst(c) => at[c].read,
         NEW s \in Setting, NEW i \in DOMAIN s, s[i].reg = NowCell(c).reg,
         ~NowCell(c).whole, Bits(s[i]) \cap Bits(NowCell(c)) = {}
  PROVE  Written(NowCell(c), NowPut(c), seen[c], held[c][NowCell(c).reg]) \cap Bits(s[i])
           = reg[s[i].reg] \cap Bits(s[i])
<1> USE DEF RInv, IInv
<1>1. Undisturbed(c)
  BY DEF AloneInv, Busy, Working
<1>2. CASE NowPut(c).how = "over"
  <2>1. held[c][s[i].reg] \cap Bits(s[i]) = reg[s[i].reg] \cap Bits(s[i])
    BY <1>1, <1>2, HeldNow DEF Undisturbed
  <2> QED
    BY <2>1, <1>2, WrittenBeside
<1>3. CASE NowPut(c).how # "over"
  <2>1. seen[c] = reg[NowCell(c).reg]
    BY <1>1, <1>3 DEF Undisturbed, SeenFresh, ReadsFirst
  <2> QED
    BY <2>1, <1>3, WrittenBeside
<1> QED
  BY <1>2, <1>3

(* What the process that writes has put so far, and puts now, is there     *)
(* when it is alone: of the cells of the register it writes, its own holds *)
(* the code, and the others what it left in them.                          *)
LEMMA OwnPutsHold ==
  ASSUME RInv, NEW c \in Caller, Working(c), alone[c], ReadsFirst(c) => at[c].read,
         NEW i \in DOMAIN at[c].call.puts, Abstract!Asks(at[c].call, i),
         NEW j \in DOMAIN at[c].call.puts[i].setting,
         at[c].call.puts[i].setting[j].reg = NowCell(c).reg,
         Passed(c, i, j) \/ (i = at[c].put /\ j = at[c].cell)
  PROVE  LET cell == at[c].call.puts[i].setting[j]
         IN Written(NowCell(c), NowPut(c), seen[c], held[c][NowCell(c).reg]) \cap Bits(cell)
              = Placed(cell, at[c].call.puts[i].code)
<1> USE DEF RInv, IInv
<1> DEFINE k == at[c].call
           q == NowPut(c)
           l == at[c].cell
           s == k.puts[i].setting
           new == Written(NowCell(c), q, seen[c], held[c][NowCell(c).reg])
<1>1. /\ q.setting \in Setting /\ l \in DOMAIN q.setting
      /\ q.how \in {"set", "keep", "over"} /\ (q.how # "set" => ~NowCell(c).whole)
      /\ at[c].put \in 1 .. Len(k.puts) /\ k \in Call
  BY NowFacts DEF Place
<1>2. NowCell(c) = q.setting[l]
  BY DEF NowCell
<1>3. c \in Busy
  BY DEF Busy, Working
<1>4. DOMAIN k.puts = 1 .. Len(k.puts) /\ Len(k.puts) \in Nat
  BY <1>1, CallFacts
<1>5. s \in Setting
  BY <1>1, SMTT(40) DEF Put, Setting
<1>6. Passed(c, i, j) => reg[NowCell(c).reg] \cap Bits(s[j]) = Placed(s[j], k.puts[i].code)
  BY <1>3 DEF AloneInv, Undisturbed, PutsHold
<1>7. k.puts[i].how # "keep"
  BY DEF Abstract!Asks
<1>8. CASE i = at[c].put /\ j = l
  <2>1. q = k.puts[i] /\ NowCell(c) = s[j]
    BY <1>2, <1>8 DEF NowPut
  <2>2. new \cap Bits(NowCell(c)) = Placed(NowCell(c), q.code)
    BY <2>1, <1>7, WrittenHere, SMTT(40)
  <2> QED
    BY <2>1, <2>2
<1>9. CASE q.how = "keep"
  <2>1. ~(i = at[c].put /\ j = l)
    BY <1>7, <1>9 DEF NowPut
  <2>2. new = reg[NowCell(c).reg]
    BY <1>1, <1>9, KeepAlone DEF ReadsFirst
  <2> QED
    BY <2>1, <2>2, <1>6
<1>10. CASE q.how # "keep" /\ ~(i = at[c].put /\ j = l)
  <2>1. ~(q.setting = s /\ l = j)
    <3> SUFFICES ASSUME q.setting = s, l = j PROVE FALSE
      OBVIOUS
    <3>1. i < at[c].put
      BY <1>10, SMTT(40) DEF Passed
    <3> QED
      BY <3>1, <1>1, <1>4, <1>10 DEF Abstract!Asks, NowPut
  <2>2. ~NowCell(c).whole /\ Bits(s[j]) \cap Bits(NowCell(c)) = {}
    BY <2>1, <1>1, <1>2, <1>5, DisjointAssumption, SMTT(40) DEF Apart
  <2>3. new \cap Bits(s[j]) = reg[s[j].reg] \cap Bits(s[j])
    BY <2>2, <1>5, BesideAlone
  <2> QED
    BY <2>3, <1>6, <1>10
<1> QED
  BY <1>1, <1>8, <1>9, <1>10

(* Where the write has got to. *)
LEMMA WriteMovesOn ==
  ASSUME TypeOK, NEW c \in Caller, Working(c)
  PROVE  LET w == After(at[c])
             last == ~(at[c].cell < Len(NowPut(c).setting))
         IN /\ at[c].put \in Nat
            /\ at[c].cell \in 1 .. Len(NowPut(c).setting)
            /\ Len(NowPut(c).setting) \in Nat
            /\ ~last => w.put = at[c].put /\ w.cell = at[c].cell + 1
            /\ last => w.put = at[c].put + 1 /\ w.cell = 1
<1>1. /\ at[c] \in Place
      /\ at[c].cell \in 1 .. Len(NowPut(c).setting)
      /\ Len(NowPut(c).setting) \in Nat
  BY NowFacts
<1> QED
  BY <1>1 DEF After, NowPut, Place

LEMMA WriteAlone ==
  ASSUME RInv, NEW c \in Caller, Write(c)
  PROVE  AloneInv'
<1> USE DEF RInv, IInv
<1> DEFINE w == After(at[c])
           r == NowCell(c).reg
           new == Written(NowCell(c), NowPut(c), seen[c], held[c][r])
           last == ~(at[c].cell < Len(NowPut(c).setting))
<1>1. /\ Working(c)
      /\ ReadsFirst(c) => at[c].read
      /\ reg' = [reg EXCEPT ![r] = new]
      /\ at' = [at EXCEPT ![c] = w]
      /\ seen' = [seen EXCEPT ![c] = {}]
      /\ alone' = alone /\ held' = held
  BY DEF Write
<1>2. w.call = at[c].call /\ ~w.read
  BY <1>1, AfterPlace
<1>3. /\ at[c].put \in Nat
      /\ at[c].cell \in 1 .. Len(NowPut(c).setting)
      /\ Len(NowPut(c).setting) \in Nat
      /\ ~last => w.put = at[c].put /\ w.cell = at[c].cell + 1
      /\ last => w.put = at[c].put + 1 /\ w.cell = 1
  BY <1>1, WriteMovesOn
<1>4. r \in Places(at[c].call) /\ r \in Register
  BY <1>1, NowPlace, NowFacts
<1> HIDE DEF w, last
<1>5. at'[c] = w /\ \A d \in Caller \ {c} : at'[d] = at[d] /\ (d \in Busy' <=> d \in Busy)
  BY <1>1, OthersKept
<1>6. c \in Busy
  BY <1>1 DEF Busy, Working
<1>7. \A d \in Busy' : d \in Busy /\ at'[d].call = at[d].call
  BY <1>2, <1>5, <1>6 DEF Busy
<1>8. AloneApart'
  BY <1>1, <1>7 DEF AloneInv, AloneApart
<1>9. ASSUME NEW d \in Busy', alone'[d] PROVE Undisturbed(d)'
  <2>1. d \in Busy /\ alone[d] /\ Undisturbed(d)
    BY <1>1, <1>7, <1>9 DEF AloneInv
  <2>2. CASE d # c
    <3>1. at'[d] = at[d] /\ seen'[d] = seen[d]
      BY <2>1, <2>2, <1>1, <1>5 DEF TypeOK, Busy
    <3>2. r \notin Places(at[d].call)
      BY <2>1, <2>2, <1>4, <1>6 DEF AloneInv, AloneApart
    <3>3. \A x \in Places(at[d].call) : reg'[x] = reg[x]
      BY <3>2, <1>1 DEF TypeOK
    <3> QED
      BY <3>1, <3>3, <2>1, <1>1, BystanderKept
  <2>3. CASE d = c
    <3>1. SeenFresh(d)'
      BY <2>3, <1>2, <1>5, SMTT(40) DEF SeenFresh
    <3>2. ASSUME NEW i \in DOMAIN at[c].call.puts, Abstract!Asks(at[c].call, i),
                 NEW j \in DOMAIN at[c].call.puts[i].setting, Passed(c, i, j)'
          PROVE  LET cell == at[c].call.puts[i].setting[j]
                 IN reg'[cell.reg] \cap Bits(cell) = Placed(cell, at[c].call.puts[i].code)
      <4> DEFINE cell == at[c].call.puts[i].setting[j]
                 code == at[c].call.puts[i].code
      <4>1. i \in Nat /\ j \in 1 .. Len(at[c].call.puts[i].setting)
            /\ Len(at[c].call.puts[i].setting) \in Nat
        <5>1. at[c].call \in Call
          BY <1>1, NowFacts DEF Place
        <5>2. DOMAIN at[c].call.puts = 1 .. Len(at[c].call.puts)
          BY <5>1, CallAssumption
        <5>3. Len(at[c].call.puts) \in Nat
          BY <5>1, CallAssumption
        <5>4. i \in 1 .. Len(at[c].call.puts)
          BY <5>2, <3>2
        <5>5. /\ DOMAIN at[c].call.puts[i].setting = 1 .. Len(at[c].call.puts[i].setting)
              /\ Len(at[c].call.puts[i].setting) \in Nat
          BY <5>1, <5>4, CallAssumption
        <5>6. i \in Nat
          BY <5>3, <5>4
        <5>7. j \in 1 .. Len(at[c].call.puts[i].setting)
          BY <5>5, <3>2
        <5> QED
          BY <5>5, <5>6, <5>7
      <4>2. Passed(c, i, j) \/ (i = at[c].put /\ j = at[c].cell)
        <5>1. i < w.put \/ (i = w.put /\ j < w.cell)
          BY <3>2, <1>5 DEF Passed
        <5>2. i = at[c].put => j <= Len(NowPut(c).setting)
          BY <4>1 DEF NowPut
        <5>3. j \in Nat \ {0}
          BY <4>1, SMTT(40)
        <5>4. last => at[c].cell = Len(NowPut(c).setting)
          BY <1>3 DEF last
        <5> QED
          BY <5>1, <5>2, <5>3, <5>4, <4>1, <1>3 DEF Passed
      <4>3. CASE cell.reg = r
        <5>1. reg'[cell.reg] = new
          BY <4>3, <1>1, <1>4, SMTT(40) DEF TypeOK
        <5>2. new \cap Bits(cell) = Placed(cell, code)
          BY <2>1, <2>3, <4>2, <4>3, <1>1, <3>2, OwnPutsHold, ZenonT(60)
        <5> QED
          BY <5>1, <5>2
      <4>4. CASE cell.reg # r
        <5>1. Passed(c, i, j)
          BY <4>2, <4>4 DEF NowCell, NowPut
        <5>2. reg[cell.reg] \cap Bits(cell) = Placed(cell, code)
          BY <5>1, <2>1, <2>3, <3>2 DEF Undisturbed, PutsHold
        <5>3. reg'[cell.reg] = reg[cell.reg]
          BY <4>4, <1>1, SMTT(40) DEF TypeOK
        <5> QED
          BY <5>2, <5>3
      <4> QED
        BY <4>3, <4>4
    <3>3. PutsHold(d)'
      BY <3>2, <2>3, <1>2, <1>5 DEF PutsHold
    <3>4. HeldFresh(d)'
      <4> SUFFICES ASSUME NEW n \in 1 .. Len(at[c].call.takes),
                          NEW s \in Setting, NEW j \in DOMAIN s,
                          Covers(at[c].call.takes[n], s[j]), Ahead(c, s[j].reg)'
                   PROVE  held[c][s[j].reg] \cap Bits(s[j]) = reg'[s[j].reg] \cap Bits(s[j])
        BY <2>3, <1>1, <1>2, <1>5 DEF HeldFresh
      <4>1. PICK i \in DOMAIN at[c].call.puts :
              /\ i >= w.put
              /\ at[c].call.puts[i].how # "set"
              /\ at[c].call.puts[i].setting[1].reg = s[j].reg
        BY <1>2, <1>5 DEF Ahead
      <4>2. /\ at[c].put \in 1 .. Len(at[c].call.puts) /\ at[c].call \in Call
            /\ DOMAIN at[c].call.puts = 1 .. Len(at[c].call.puts)
            /\ Len(at[c].call.puts) \in Nat
            /\ at[c].cell \in DOMAIN NowPut(c).setting
        BY <1>1, NowFacts, CallFacts DEF Place
      <4>3. i \in 1 .. Len(at[c].call.puts)
        BY <4>2
      <4>4. Ahead(c, s[j].reg)
        BY <4>1, <4>2, <4>3, <1>3 DEF Ahead
      <4>5. Done(c, n)
        BY <4>2 DEF Done
      <4>6. held[c][s[j].reg] \cap Bits(s[j]) = reg[s[j].reg] \cap Bits(s[j])
        BY <4>4, <4>5, <2>1, <2>3 DEF Undisturbed, HeldFresh
      <4>7. reg'[s[j].reg] = reg[s[j].reg]
        <5>1. CASE s[j].reg # r
          BY <5>1, <1>1, SMTT(40) DEF TypeOK
        <5>2. CASE s[j].reg = r
          <6>1. i # at[c].put
            <7> SUFFICES ASSUME i = at[c].put PROVE FALSE
              OBVIOUS
            <7>1. Len(at[c].call.puts[i].setting) = 1
              BY <4>1, <4>2, <4>3, PutTaken
            <7>2. Len(NowPut(c).setting) = 1
              BY <7>1 DEF NowPut
            <7>3. last
              BY <7>2, <1>3 DEF last
            <7> QED
              BY <7>3, <1>3, <4>1
          <6>2. at[c].put \in 1 .. i - 1
            BY <6>1, <4>1, <4>2, <4>3, <1>3
          <6>3. NowPut(c).how = "keep"
            <7> SUFFICES ASSUME NowPut(c).how # "keep" PROVE FALSE
              OBVIOUS
            <7>1. at[c].call.puts[at[c].put].how # "keep"
              BY DEF NowPut
            <7>2. \A h \in 1 .. i - 1 : at[c].call.puts[h].how # "keep" =>
                    \A l \in DOMAIN at[c].call.puts[h].setting :
                      at[c].call.puts[h].setting[l].reg # at[c].call.puts[i].setting[1].reg
              BY <4>1, <4>2, <4>3, PutTaken
            <7>3. \A l \in DOMAIN NowPut(c).setting : NowPut(c).setting[l].reg # s[j].reg
              BY <7>1, <7>2, <6>2, <4>1 DEF NowPut
            <7> QED
              BY <7>3, <5>2, <4>2 DEF NowCell
          <6>4. at[c].read
            BY <6>3, <1>1, NowFacts DEF ReadsFirst
          <6>5. new = reg[r]
            BY <6>3, <6>4, <1>1, <2>1, <2>3, KeepAlone
          <6> QED
            BY <6>5, <5>2, <1>1, <1>4 DEF TypeOK
        <5> QED
          BY <5>1, <5>2
      <4> QED
        BY <4>6, <4>7
    <3> QED
      BY <3>1, <3>3, <3>4 DEF Undisturbed
  <2> QED
    BY <2>2, <2>3
<1> QED
  BY <1>1, <1>8, <1>9 DEF AloneInv

LEMMA ReturnAlone ==
  ASSUME RInv, NEW c \in Caller, Return(c)
  PROVE  AloneInv'
<1> USE DEF RInv, IInv
<1>1. /\ at' = [at EXCEPT ![c] = Idle] /\ held' = [held EXCEPT ![c] = Nothing]
      /\ reg' = reg /\ seen' = seen /\ alone' = alone
  BY DEF Return
<1>2. at'[c] = Idle /\ \A d \in Caller \ {c} : at'[d] = at[d]
  BY <1>1, OthersKept
<1>3. \A d \in Busy' : d \in Busy /\ at'[d] = at[d] /\ held'[d] = held[d]
  BY <1>1, <1>2 DEF Busy, TypeOK
<1>4. AloneApart'
  BY <1>1, <1>3 DEF AloneInv, AloneApart
<1>5. ASSUME NEW d \in Busy', alone'[d] PROVE Undisturbed(d)'
  <2>1. d \in Busy /\ Undisturbed(d) /\ at'[d] = at[d] /\ held'[d] = held[d]
    BY <1>1, <1>3, <1>5 DEF AloneInv
  <2> QED
    BY <2>1, <1>1, BystanderKept
<1> QED
  BY <1>1, <1>4, <1>5 DEF AloneInv

LEMMA StepRInv == RInv /\ [Next]_vars => RInv'
<1> SUFFICES ASSUME RInv, [Next]_vars PROVE AloneInv'
  BY StepIInv DEF RInv
<1>1. CASE Next
  BY <1>1, BeginAlone, TakeAlone, ReadAlone, WriteAlone, ReturnAlone DEF Next
<1>2. CASE UNCHANGED vars
  <2>1. AloneApart'
    BY <1>2 DEF vars, RInv, AloneInv, AloneApart, Busy
  <2>2. ASSUME NEW d \in Busy', alone'[d] PROVE Undisturbed(d)'
    <3>1. d \in Busy /\ Undisturbed(d)
      BY <1>2, <2>2 DEF vars, RInv, AloneInv, Busy
    <3> QED
      BY <3>1, <1>2, BystanderKept DEF vars, RInv, IInv
  <2> QED
    BY <1>2, <2>1, <2>2 DEF vars, RInv, AloneInv
<1> QED
  BY <1>1, <1>2

-----------------------------------------------------------------------------

(* The values that stand for SettingsMap's variables. *)
Home == [s \in Setting |-> {s[i].reg : i \in DOMAIN s}]

Val == [s \in Setting |-> ReadsAs(s)]

Doing == [c \in Caller |-> IF at[c] = Idle THEN Idle ELSE at[c].call]

LEMMA SettingCells ==
  ASSUME NEW s \in Setting, NEW i \in DOMAIN s
  PROVE  IsCell(s[i])
<1>1. PICK k \in Call : \E p \in DOMAIN k.puts : s = k.puts[p].setting
  BY DEF Setting, Put
<1>2. PICK p \in DOMAIN k.puts : s = k.puts[p].setting
  BY <1>1
<1>3. p \in 1 .. Len(k.puts)
  BY CallAssumption
<1>4. DOMAIN s = 1 .. Len(s)
  BY <1>2, <1>3, CallAssumption
<1> QED
  BY <1>2, <1>3, <1>4, CallAssumption

LEMMA SettingReads ==
  ASSUME NEW s \in Setting
  PROVE  ReadsAs(s) \subseteq Nat
<1> SUFFICES ASSUME NEW i \in DOMAIN s, NEW b \in reg[s[i].reg] \cap Bits(s[i])
             PROVE  s[i].of[b] \in Nat
  BY DEF ReadsAs
<1> QED
  BY SettingCells DEF IsCell

(* A call's registers are the homes of the settings it names. *)
LEMMA CallPlaces ==
  ASSUME NEW k \in Call
  PROVE  Abstract!Places(k) = Places(k) /\ Abstract!Named(k) = Named(k) /\ Named(k) \subseteq Setting
<1>1. Named(k) \subseteq Setting
  BY DEF Named, Setting, Put
<1>2. Abstract!Named(k) = Named(k)
  BY DEF Abstract!Named, Named
<1>3. Abstract!Places(k) = Places(k)
  <2>1. \A s \in Named(k) : Home[s] = {s[i].reg : i \in DOMAIN s}
    BY <1>1 DEF Home
  <2>2. Abstract!Places(k) = UNION {Home[s] : s \in Named(k)}
    BY <1>2 DEF Abstract!Places, Home
  <2> QED
    BY <2>1, <2>2 DEF Places
<1> QED
  BY <1>1, <1>2, <1>3

LEMMA DoingCall ==
  ASSUME TypeOK, NEW c \in Caller
  PROVE  /\ Doing[c] = Idle <=> at[c] = Idle
         /\ at[c] # Idle => Doing[c] = at[c].call /\ at[c].call \in Call
<1>1. at[c] = Idle \/ at[c] \in Place
  BY DEF TypeOK
<1> QED
  BY <1>1, IdleAssumption DEF Doing, Place

LEMMA InitMaps == Init => Abstract!Init
<1> SUFFICES ASSUME Init PROVE Abstract!Init
  OBVIOUS
<1>1. Val \in [Setting -> SUBSET Nat]
  BY SettingReads DEF Val
<1>2. Doing = [c \in Caller |-> Idle]
  BY DEF Init, Doing
<1> QED
  BY <1>1, <1>2 DEF Init, Abstract!Init, Val, Doing

LEMMA BeginMaps ==
  ASSUME TypeOK, NEW c \in Caller, Begin(c)
  PROVE  Abstract!Start(c)
<1>1. PICK k \in CallsOf[round][c] :
        /\ at' = [at EXCEPT ![c] = Entered(k)]
        /\ alone' = [d \in Caller |->
             IF d = c THEN {e \in Busy : Places(k) \cap Places(at[e].call) # {}} = {}
             ELSE alone[d] /\ d \notin {e \in Busy : Places(k) \cap Places(at[e].call) # {}}]
  BY DEF Begin
<1>2. at[c] = Idle /\ reg' = reg
  BY DEF Begin
<1>3. k \in Call /\ k \in MadeCalls
  BY RoundAssumption DEF TypeOK, MadeCalls
<1>4. Entered(k) # Idle /\ Entered(k).call = k
  BY <1>3, CallFacts, IdleAssumption
<1> HIDE DEF Entered
<1>5. Doing' = [Doing EXCEPT ![c] = k]
  BY <1>1, <1>4 DEF Doing, TypeOK
<1>6. Doing[c] = Idle /\ Doing'[c] = k
  BY <1>2, <1>5 DEF Doing
<1>7. {d \in Caller : Doing[d] # Idle /\ Abstract!Meet(k, Doing[d])}
        = {e \in Busy : Places(k) \cap Places(at[e].call) # {}}
  BY <1>3, DoingCall, CallPlaces DEF Abstract!Meet, Busy
<1>8. Val' = Val
  BY <1>2 DEF Val, ReadsAs
<1>9. alone' = [d \in Caller |->
        IF d = c THEN {e \in Caller : Doing[e] # Idle /\ Abstract!Meet(Doing'[c], Doing[e])} = {}
        ELSE alone[d]
             /\ d \notin {e \in Caller : Doing[e] # Idle /\ Abstract!Meet(Doing'[c], Doing[e])}]
  BY <1>1, <1>6, <1>7
<1>10. Doing'[c] \in MadeCalls /\ Doing' = [Doing EXCEPT ![c] = Doing'[c]]
  BY <1>3, <1>5, <1>6
<1> QED
  BY <1>6, <1>8, <1>9, <1>10 DEF Abstract!Start, Val, Doing

LEMMA TakeMaps ==
  ASSUME TypeOK, NEW c \in Caller, Take(c)
  PROVE  UNCHANGED Abstract!vars
<1> DEFINE w == AfterTake(at[c])
<1>1. Taking(c) /\ at' = [at EXCEPT ![c] = w] /\ reg' = reg /\ alone' = alone
  BY DEF Take
<1>2. w.call = at[c].call /\ w # Idle /\ at[c] # Idle
  BY <1>1, AfterTakePlace, IdleAssumption DEF Taking
<1> HIDE DEF w
<1>3. Doing' = Doing
  BY <1>1, <1>2 DEF Doing, TypeOK
<1>4. Val' = Val
  BY <1>1 DEF Val, ReadsAs
<1> QED
  BY <1>1, <1>3, <1>4 DEF Abstract!vars, Val, Doing

LEMMA ReadMaps ==
  ASSUME TypeOK, NEW c \in Caller, Read(c)
  PROVE  UNCHANGED Abstract!vars
<1> DEFINE w == [at[c] EXCEPT !.read = TRUE]
<1>1. Working(c) /\ at' = [at EXCEPT ![c] = w] /\ reg' = reg /\ alone' = alone
  BY DEF Read
<1>2. at[c] \in Place
  BY <1>1, NowFacts
<1>3. w.call = at[c].call /\ w # Idle /\ at[c] # Idle
  <2>1. w.call = at[c].call /\ w \in Place
    BY <1>2 DEF Place
  <2> QED
    BY <2>1, <1>2, IdleAssumption
<1> HIDE DEF w
<1>4. Doing' = Doing
  BY <1>1, <1>3 DEF Doing, TypeOK
<1>5. Val' = Val
  BY <1>1 DEF Val, ReadsAs
<1> QED
  BY <1>1, <1>4, <1>5 DEF Abstract!vars, Val, Doing

(* A write changes what the settings of its register read as: those the    *)
(* call asks for, and others only when what it read or took there is out   *)
(* of date.                                                                *)
LEMMA WriteMaps ==
  ASSUME RInv, NEW c \in Caller, Write(c)
  PROVE  Abstract!Touch(c)
<1> USE DEF RInv, IInv
<1> DEFINE w == After(at[c])
           r == NowCell(c).reg
           new == Written(NowCell(c), NowPut(c), seen[c], held[c][r])
<1>1. /\ Working(c)
      /\ ReadsFirst(c) => at[c].read
      /\ reg' = [reg EXCEPT ![r] = new]
      /\ at' = [at EXCEPT ![c] = w]
      /\ alone' = alone
  BY DEF Write
<1>2. /\ NowPut(c).setting \in Setting
      /\ at[c].cell \in DOMAIN NowPut(c).setting
      /\ r \in Register
      /\ NowPut(c).how # "set" => ~NowCell(c).whole
      /\ at[c] \in Place
  BY <1>1, NowFacts
<1>3. w.call = at[c].call /\ w \in Place
  BY <1>1, AfterPlace
<1> HIDE DEF w
<1>4. at[c] # Idle /\ w # Idle
  BY <1>2, <1>3, IdleAssumption
<1>5. Doing' = Doing
  BY <1>1, <1>3, <1>4 DEF Doing, TypeOK
<1>6. Doing[c] = at[c].call /\ Doing[c] # Idle /\ at[c].call \in Call
  BY <1>4, DoingCall
<1>7. ASSUME NEW s \in Setting, Val'[s] # Val[s]
      PROVE  \/ s \in Abstract!Changed(Doing[c])
             \/ ~alone[c] /\ Home[s] \cap Abstract!Places(Doing[c]) # {}
  <2>1. ReadsAs(s)' # ReadsAs(s)
    BY <1>7 DEF Val
  <2>2. PICK i \in DOMAIN s : reg'[s[i].reg] \cap Bits(s[i]) # reg[s[i].reg] \cap Bits(s[i])
    BY <2>1 DEF ReadsAs
  <2>3. s[i].reg \in Register
    BY DEF Register
  <2>4. s[i].reg = r /\ reg'[s[i].reg] = new
    BY <2>2, <2>3, <1>1 DEF TypeOK
  <2>5. Home[s] \cap Abstract!Places(Doing[c]) # {}
    <3>1. r \in Places(at[c].call)
      BY <1>1, NowPlace
    <3>2. r \in Home[s]
      BY <2>4 DEF Home
    <3> QED
      BY <3>1, <3>2, <1>6, CallPlaces
  <2>6. ASSUME alone[c] PROVE s \in Abstract!Changed(at[c].call)
    <3>1. NowPut(c).how # "keep"
      <4> SUFFICES ASSUME NowPut(c).how = "keep" PROVE FALSE
        OBVIOUS
      <4>1. at[c].read
        BY <1>1, <1>2 DEF ReadsFirst
      <4> QED
        BY <4>1, <2>2, <2>4, <2>6, <1>1, KeepAlone
    <3>2. s = NowPut(c).setting
      <4> SUFFICES ASSUME s # NowPut(c).setting PROVE FALSE
        OBVIOUS
      <4>1. ~NowCell(c).whole /\ Bits(s[i]) \cap Bits(NowCell(c)) = {}
        BY <2>4, <1>2, DisjointAssumption DEF Apart, NowCell
      <4> QED
        BY <4>1, <2>2, <2>4, <2>6, <1>1, BesideAlone
    <3> QED
      BY <3>1, <3>2, <1>1 DEF Abstract!Changed, NowPut, Working
  <2> QED
    BY <2>5, <2>6, <1>6 DEF AloneInv
<1> QED
  BY <1>1, <1>5, <1>6, <1>7 DEF Abstract!Touch, Val, Doing, Home

(* A call that was alone and is done: every cell of the settings it asks   *)
(* for holds its bits of the code, and together they are the whole code.   *)
LEMMA ReturnMaps ==
  ASSUME AsksFit, RInv, NEW c \in Caller, Return(c)
  PROVE  Abstract!Finish(c)
<1> USE DEF RInv, IInv
<1> DEFINE k == at[c].call
<1>1. /\ at[c] # Idle /\ ~Working(c) /\ ~Taking(c)
      /\ at' = [at EXCEPT ![c] = Idle] /\ reg' = reg /\ alone' = alone
  BY DEF Return
<1>2. c \in Busy
  BY <1>1 DEF Busy
<1>3. Doing[c] = k /\ Doing[c] # Idle /\ k \in Call
  <2>1. at[c] \in Place
    BY <1>1 DEF TypeOK
  <2> QED
    BY <2>1, <1>1, DoingCall, IdleAssumption
<1>4. DOMAIN k.puts = 1 .. Len(k.puts) /\ Len(k.puts) \in Nat
  BY <1>3, CallAssumption
<1>5. at[c].put = Len(k.puts) + 1
  BY <1>1, <1>2, <1>4 DEF TypeOK, Working, Taking
<1>6. ASSUME alone[c], k.ok, NEW i \in DOMAIN k.puts, Abstract!Asks(k, i)
      PROVE  Val[k.puts[i].setting] = k.puts[i].code
  <2> DEFINE s == k.puts[i].setting
             code == k.puts[i].code
  <2>1. s \in Setting
    BY <1>3 DEF Setting, Put
  <2>2. \A j \in DOMAIN s : reg[s[j].reg] \cap Bits(s[j]) = Placed(s[j], code)
    <3>1. i < at[c].put
      BY <1>4, <1>5, SMTT(40)
    <3> QED
      BY <3>1, <1>2, <1>6 DEF AloneInv, Undisturbed, PutsHold, Passed
  <2>3. code \subseteq UNION {{s[j].of[b] : b \in Bits(s[j])} : j \in DOMAIN s}
    BY <1>2, <1>6, SMTT(40) DEF AsksFit, Room
  <2>4. ReadsAs(s) \subseteq code
    BY <2>2, SMTT(40) DEF ReadsAs, Placed
  <2>5. code \subseteq ReadsAs(s)
    <3> SUFFICES ASSUME NEW x \in code PROVE x \in ReadsAs(s)
      OBVIOUS
    <3>1. PICK j \in DOMAIN s : x \in {s[j].of[b] : b \in Bits(s[j])}
      BY <2>3
    <3>2. PICK b \in Bits(s[j]) : x = s[j].of[b]
      BY <3>1, SMTT(40)
    <3>3. b \in reg[s[j].reg] \cap Bits(s[j])
      BY <3>2, <2>2, ZenonT(60) DEF Placed
    <3>4. x \in {s[j].of[a] : a \in reg[s[j].reg] \cap Bits(s[j])}
      BY <3>2, <3>3
    <3> HIDE DEF s, code
    <3> QED
      BY <3>4 DEF ReadsAs
  <2> QED
    BY <2>1, <2>4, <2>5 DEF Val
<1>7. Doing' = [Doing EXCEPT ![c] = Idle]
  BY <1>1 DEF Doing, TypeOK
<1>8. Val' = Val
  BY <1>1 DEF Val, ReadsAs
<1>9. (alone[c] /\ Doing[c].ok) =>
        \A i \in DOMAIN Doing[c].puts :
          Abstract!Asks(Doing[c], i) => Val[Doing[c].puts[i].setting] = Doing[c].puts[i].code
  BY <1>3, <1>6
<1> QED
  BY <1>1, <1>3, <1>7, <1>8, <1>9 DEF Abstract!Finish, Val, Doing

LEMMA StepMaps ==
  ASSUME AsksFit, RInv, [Next]_vars
  PROVE  [Abstract!Next]_(Abstract!vars)
<1>1. CASE Next
  <2>1. PICK c \in Caller : Begin(c) \/ Take(c) \/ Read(c) \/ Write(c) \/ Return(c)
    BY <1>1 DEF Next
  <2>2. Begin(c) => Abstract!Next
    BY BeginMaps DEF RInv, IInv, Abstract!Next
  <2>3. (Take(c) \/ Read(c)) => UNCHANGED Abstract!vars
    BY TakeMaps, ReadMaps DEF RInv, IInv
  <2>4. Write(c) => Abstract!Next
    BY WriteMaps DEF Abstract!Next
  <2>5. Return(c) => Abstract!Next
    BY ReturnMaps DEF Abstract!Next
  <2> QED
    BY <2>1, <2>2, <2>3, <2>4, <2>5
<1>2. CASE UNCHANGED vars
  <2>1. Val' = Val
    BY <1>2 DEF vars, Val, ReadsAs
  <2>2. Doing' = Doing
    BY <1>2 DEF vars, Doing
  <2> QED
    BY <1>2, <2>1, <2>2 DEF vars, Abstract!vars, Val, Doing
<1> QED
  BY <1>1, <1>2

(* The calls of the library, made one register access at a time by any     *)
(* number of processes, are the calls of SettingsMap, where every setting  *)
(* is a cell of its own: a call that met no other at its registers and     *)
(* reports success leaves every setting reading what it asked for, and no  *)
(* call changes a setting it does not ask for unless another met it there  *)
(* (what it took early to write back is still what is there).  That no     *)
(* call asks for more than a setting holds is for the functions of         *)
(* rtk_api.c to see to: SettingsProofs proves it of those translated.      *)
THEOREM SettingsImplemented == Spec /\ []AsksFit => ImplementsSettings
<1>1. AsksFit /\ RInv /\ [Next]_vars => [Abstract!Next]_(Abstract!vars)
  BY StepMaps
<1> QED
  BY <1>1, InitRInv, InitMaps, StepRInv, PTL DEF Spec, ImplementsSettings, Abstract!Spec
=============================================================================
