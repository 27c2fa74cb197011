--------------------------- MODULE SettingsProofs ---------------------------
(***************************************************************************)
(* The calls of the library, for any arguments its functions accept: what  *)
(* a put owes its setting (AsksFit) and what a cell owes the register map  *)
(* (AccessesKeepMap), and with the first the refinement of SettingsMap.    *)
(*                                                                         *)
(* Both are about every put of every call, whatever the registers hold, so *)
(* the invariant is TypeOK, which says that a process is at a put of one   *)
(* of the calls.  What is owed is the same for every setting of one shape. *)
(* There is a lemma for each shape (one cell, an item of a table, several  *)
(* cells, a PHY's), one for each width of number a setting takes, then a   *)
(* step for each setting and a lemma for each group of functions.          *)
(***************************************************************************)
EXTENDS RegistersProofs, Settings

Fits(q) == q.how = "keep" \/ q.code \subseteq Room(q.setting)

Mapped(s) == \A j \in DOMAIN s : KeepsMap(s[j])

(* A setting with room for codes of n bits, whose cells keep the map. *)
Sound(s, n) == Mapped(s) /\ 0 .. n - 1 \subseteq Room(s)

Good(q) == Fits(q) /\ Mapped(q.setting)

GoodPuts(ps) == \E S : ps \in Seq(S) /\ \A q \in S : Good(q)

GoodCall(k) == GoodPuts(k.puts)

-----------------------------------------------------------------------------
(* Cells.                                                                  *)

(* The fields at an address of a block are those of the block. *)
LEMMA BlockFields ==
  ASSUME NEW x \in RegBlocks, NEW i \in 0 .. x.count - 1
  PROVE  FieldsAt(Reg(x, i)) = x.fields
<1> DEFINE a == Reg(x, i)
<1>1. {y \in RegBlocks : \E j \in 0 .. y.count - 1 : Reg(y, j) = a} = {x}
  BY MapAssumption
<1> HIDE DEF a
<1>2. FieldsAt(a) = UNION {y.fields : y \in {x}}
  BY <1>1, Zenon DEF FieldsAt
<1> QED
  BY <1>2 DEF a

(* len bits from bit lo on cover fields of block x, lie within one, or do  *)
(* not touch it.                                                           *)
Nested(x, lo, len) ==
  \A f \in x.fields :
    \/ lo <= f[1] /\ f[1] + f[2] <= lo + len
    \/ f[1] <= lo /\ lo + len <= f[1] + f[2]
    \/ f[1] + f[2] <= lo
    \/ lo + len <= f[1]

LEMMA FieldKeeps ==
  ASSUME NEW x \in RegBlocks, NEW i \in 0 .. x.count - 1, NEW lo \in Int, NEW len \in Nat,
         Nested(x, lo, len)
  PROVE  KeepsMap(Field(Reg(x, i), lo, len))
<1> DEFINE c == Field(Reg(x, i), lo, len)
<1>1. c.reg = Reg(x, i) /\ Bits(c) = lo .. lo + len - 1
  BY DEF Field, Spread, Bits
<1> HIDE DEF c
<1>2. FieldsAt(c.reg) = x.fields
  BY <1>1, BlockFields
<1>3. \A f \in x.fields : f[1] \in Nat /\ f[2] \in Nat
  BY MapAssumption
<1>4. ASSUME NEW f \in x.fields
      PROVE  \/ FieldBits(f) \subseteq Bits(c)
             \/ Bits(c) \subseteq FieldBits(f)
             \/ FieldBits(f) \cap Bits(c) = {}
  <2> DEFINE b == f[1]
             w == f[2]
  <2>1. b \in Nat /\ w \in Nat /\ FieldBits(f) = b .. b + w - 1
    BY <1>3 DEF FieldBits
  <2>2. \/ lo <= b /\ b + w <= lo + len
        \/ b <= lo /\ lo + len <= b + w
        \/ b + w <= lo
        \/ lo + len <= b
    BY DEF Nested
  <2> HIDE DEF b, w
  <2> QED
    BY <1>1, <2>1, <2>2
<1>5. KeepsMap(c)
  BY <1>2, <1>4 DEF KeepsMap
<1> QED
  BY <1>5 DEF c

(* A field is never split by one bit, nor by a whole register. *)
LEMMA FlagKeeps ==
  ASSUME NEW x \in RegBlocks, NEW i \in 0 .. x.count - 1, NEW b \in Int
  PROVE  KeepsMap(Flag(Reg(x, i), b))
<1>1. \A f \in x.fields : f[1] \in Nat /\ f[2] \in Nat
  BY MapAssumption
<1>2. Nested(x, b, 1)
  BY <1>1 DEF Nested
<1> QED
  BY <1>2, FieldKeeps DEF Flag

LEMMA WordKeeps ==
  ASSUME NEW x \in RegBlocks, NEW i \in 0 .. x.count - 1
  PROVE  KeepsMap(Word(Reg(x, i)))
<1> DEFINE c == Word(Reg(x, i))
<1>1. c.reg = Reg(x, i) /\ Bits(c) = 0 .. 15
  BY DEF Word, Bits
<1> HIDE DEF c
<1>2. FieldsAt(c.reg) = x.fields
  BY <1>1, BlockFields
<1>3. \A f \in x.fields : FieldBits(f) \subseteq Bits(c)
  BY <1>1, MapAssumption DEF FieldBits
<1>4. KeepsMap(c)
  BY <1>2, <1>3 DEF KeepsMap
<1> QED
  BY <1>4 DEF c

(* Where in the code its bits stand does not matter to the map. *)
LEMMA FromKeeps ==
  ASSUME NEW c, KeepsMap(c), NEW n, DOMAIN c = {"reg", "of", "whole"}
  PROVE  KeepsMap(From(n, c))
<1> DEFINE d == From(n, c)
<1>1. d.reg = c.reg /\ Bits(d) = Bits(c)
  BY DEF From, Bits
<1> HIDE DEF d
<1>2. KeepsMap(d)
  BY <1>1 DEF KeepsMap, Plain
<1> QED
  BY <1>2 DEF d

LEMMA FieldRoom ==
  ASSUME NEW r, NEW lo \in Int, NEW len \in Nat
  PROVE  0 .. len - 1 \subseteq Room(<<Field(r, lo, len)>>)
<1> DEFINE c == Field(r, lo, len)
<1>1. Bits(c) = lo .. lo + len - 1 /\ \A b \in Bits(c) : c.of[b] = b - lo
  BY DEF Field, Spread, Bits
<1> HIDE DEF c
<1>2. \A v \in 0 .. len - 1 : lo + v \in Bits(c) /\ c.of[lo + v] = v
  BY <1>1
<1>3. Room(<<c>>) = {c.of[b] : b \in Bits(c)}
  BY DEF Room
<1>4. 0 .. len - 1 \subseteq Room(<<c>>)
  BY <1>2, <1>3
<1> QED
  BY <1>4 DEF c

LEMMA WordRoom ==
  ASSUME NEW r
  PROVE  0 .. 15 \subseteq Room(<<Word(r)>>)
<1> DEFINE c == Word(r)
<1>1. Bits(c) = 0 .. 15 /\ \A b \in 0 .. 15 : c.of[b] = b
  BY DEF Word, Bits
<1> HIDE DEF c
<1>2. Room(<<c>>) = {c.of[b] : b \in Bits(c)}
  BY DEF Room
<1>3. 0 .. 15 \subseteq Room(<<c>>)
  BY <1>1, <1>2
<1> QED
  BY <1>3 DEF c

-----------------------------------------------------------------------------
(* Settings of one cell.                                                   *)

LEMMA FieldSound ==
  ASSUME NEW x \in RegBlocks, NEW i \in 0 .. x.count - 1, NEW lo \in Int, NEW len \in Nat,
         Nested(x, lo, len)
  PROVE  Sound(<<Field(Reg(x, i), lo, len)>>, len)
<1> DEFINE c == Field(Reg(x, i), lo, len)
<1>1. KeepsMap(c) /\ 0 .. len - 1 \subseteq Room(<<c>>)
  BY FieldKeeps, FieldRoom
<1> HIDE DEF c
<1>2. Sound(<<c>>, len)
  BY <1>1 DEF Sound, Mapped
<1> QED
  BY <1>2 DEF c

LEMMA FlagSound ==
  ASSUME NEW x \in RegBlocks, NEW i \in 0 .. x.count - 1, NEW b \in Int
  PROVE  Sound(<<Flag(Reg(x, i), b)>>, 1)
<1> DEFINE c == Flag(Reg(x, i), b)
<1>1. KeepsMap(c)
  BY FlagKeeps
<1>2. 0 .. 0 \subseteq Room(<<c>>)
  BY FieldRoom DEF Flag
<1> HIDE DEF c
<1>3. Sound(<<c>>, 1)
  BY <1>1, <1>2 DEF Sound, Mapped
<1> QED
  BY <1>3 DEF c

LEMMA WordSound ==
  ASSUME NEW x \in RegBlocks, NEW i \in 0 .. x.count - 1
  PROVE  Sound(<<Word(Reg(x, i))>>, 16)
<1> DEFINE c == Word(Reg(x, i))
<1>1. KeepsMap(c) /\ 0 .. 15 \subseteq Room(<<c>>)
  BY WordKeeps, WordRoom
<1> HIDE DEF c
<1>2. Sound(<<c>>, 16)
  BY <1>1 DEF Sound, Mapped
<1> QED
  BY <1>2 DEF c

(* The items 0 .. top of x, of len bits, per to a register, step apart.    *)
Packs(x, per, step, len, top) ==
  /\ x \in RegBlocks
  /\ per \in Nat \ {0} /\ step \in Nat /\ len \in Nat /\ top \in Nat
  /\ x.count \in Nat
  /\ \A i \in 0 .. top : i \div per < x.count
  /\ \A j \in 0 .. per - 1 : Nested(x, step * j, len)

LEMMA PackedSound ==
  ASSUME NEW x, NEW per, NEW step, NEW len, NEW top, Packs(x, per, step, len, top), NEW i \in 0 .. top
  PROVE  Sound(Packed(x, per, step, len, i), len)
<1> DEFINE n == i \div per
           lo == step * (i % per)
<1>1. /\ per \in Nat \ {0} /\ step \in Nat /\ len \in Nat /\ top \in Nat /\ x.count \in Nat
      /\ n < x.count
      /\ \A j \in 0 .. per - 1 : Nested(x, step * j, len)
  BY DEF Packs
<1>2. i \in Nat
  BY <1>1
<1>3. n \in Nat /\ i % per \in 0 .. per - 1
  BY <1>1, <1>2
<1>4. n \in 0 .. x.count - 1 /\ lo \in Int /\ Nested(x, lo, len)
  BY <1>1, <1>3
<1> HIDE DEF n, lo
<1>5. Sound(<<Field(Reg(x, n), lo, len)>>, len)
  BY <1>1, <1>4, FieldSound DEF Packs
<1> QED
  BY <1>5 DEF Packed, n, lo

-----------------------------------------------------------------------------
(* Codes.                                                                  *)

(* What a bit of a code counts for. *)
Weight(b) == 2 ^ b

LEMMA Weights ==
  /\ Weight(0) = 1 /\ Weight(1) = 2 /\ Weight(2) = 4 /\ Weight(3) = 8
  /\ Weight(4) = 16 /\ Weight(5) = 32 /\ Weight(6) = 64 /\ Weight(7) = 128
  /\ Weight(8) = 256 /\ Weight(9) = 512 /\ Weight(10) = 1024 /\ Weight(11) = 2048
  /\ Weight(12) = 4096 /\ Weight(13) = 8192 /\ Weight(14) = 16384 /\ Weight(15) = 32768
  /\ Weight(16) = 65536 /\ Weight(17) = 131072 /\ Weight(18) = 262144 /\ Weight(19) = 524288
  /\ Weight(20) = 1048576 /\ Weight(21) = 2097152 /\ Weight(22) = 4194304 /\ Weight(23) = 8388608
  /\ Weight(24) = 16777216 /\ Weight(25) = 33554432 /\ Weight(26) = 67108864 /\ Weight(27) = 134217728
  /\ Weight(28) = 268435456 /\ Weight(29) = 536870912 /\ Weight(30) = 1073741824
  BY DEF Weight

LEMMA WeightAbove ==
  ASSUME NEW n \in 0 .. 30, NEW b \in n .. 30
  PROVE  Weight(n) \in Nat /\ Weight(b) \in Nat /\ Weight(n) <= Weight(b)
<1>1. \/ n = 0 \/ n = 1 \/ n = 2 \/ n = 3 \/ n = 4 \/ n = 5 \/ n = 6 \/ n = 7 \/ n = 8 \/ n = 9
     \/ n = 10 \/ n = 11 \/ n = 12 \/ n = 13 \/ n = 14 \/ n = 15 \/ n = 16 \/ n = 17 \/ n = 18 \/ n = 19
     \/ n = 20 \/ n = 21 \/ n = 22 \/ n = 23 \/ n = 24 \/ n = 25 \/ n = 26 \/ n = 27 \/ n = 28 \/ n = 29
     \/ n = 30
  OBVIOUS
<1>2. b \in 0 .. 30 /\ n <= b
  OBVIOUS
<1>3. \/ b = 0 \/ b = 1 \/ b = 2 \/ b = 3 \/ b = 4 \/ b = 5 \/ b = 6 \/ b = 7 \/ b = 8 \/ b = 9
     \/ b = 10 \/ b = 11 \/ b = 12 \/ b = 13 \/ b = 14 \/ b = 15 \/ b = 16 \/ b = 17 \/ b = 18 \/ b = 19
     \/ b = 20 \/ b = 21 \/ b = 22 \/ b = 23 \/ b = 24 \/ b = 25 \/ b = 26 \/ b = 27 \/ b = 28 \/ b = 29
     \/ b = 30
  BY <1>2
<1> QED
  BY <1>1, <1>2, <1>3, Weights, SMT

LEMMA NoSuchBit ==
  ASSUME NEW v \in Nat, NEW w \in Nat, v < w
  PROVE  v \div w = 0
  OBVIOUS

HasBit(v, b) == (v \div 2 ^ b) % 2 = 1

(* A number below 2 ^ n has n bits. *)
LEMMA CodeBelow ==
  ASSUME NEW n \in 0 .. 30, NEW v \in Nat, v < Weight(n)
  PROVE  Code(v) \subseteq 0 .. n - 1
<1>1. ASSUME NEW b \in n .. 30
      PROVE  ~HasBit(v, b)
  <2>1. v < Weight(b) /\ Weight(b) \in Nat
    BY WeightAbove
  <2>2. v \div Weight(b) = 0
    BY <2>1, NoSuchBit
  <2>3. HasBit(v, b) <=> (v \div Weight(b)) % 2 = 1
    BY Zenon DEF HasBit, Weight
  <2> QED
    BY <2>2, <2>3
<1>2. Code(v) = {b \in 0 .. 30 : HasBit(v, b)}
  BY DEF Code, HasBit
<1> QED
  BY <1>1, <1>2

-----------------------------------------------------------------------------
(* Puts and calls.                                                         *)

LEMMA BitsGood ==
  ASSUME NEW s, NEW n, Sound(s, n), NEW code, code \subseteq 0 .. n - 1
  PROVE  Good(ToBits(s, code))
  BY DEF Good, Fits, Sound, ToBits

LEMMA ToGood ==
  ASSUME NEW s, NEW n \in 0 .. 30, Sound(s, n), NEW v \in Nat, v < Weight(n)
  PROVE  Good(To(s, v))
  BY CodeBelow, BitsGood DEF To

LEMMA KeepGood ==
  ASSUME NEW s, NEW n, Sound(s, n)
  PROVE  Good(Keep(s))
  BY DEF Good, Fits, Sound, Keep

LEMMA OverGood ==
  ASSUME NEW s, NEW v, Good(To(s, v))
  PROVE  Good(Over(s, v))
<1>1. /\ Over(s, v).setting = s /\ To(s, v).setting = s
      /\ Over(s, v).code = Code(v) /\ To(s, v).code = Code(v)
      /\ To(s, v).how = "set"
  BY DEF Over, To, ToBits
<1> QED
  BY <1>1 DEF Good, Fits

LEMMA OfRange ==
  ASSUME NEW e \in Nat, NEW lo \in Nat, NEW hi \in Nat, lo <= hi
  PROVE  Of(e, lo, hi) \in lo .. hi
  BY DEF Of

LEMMA OfGood ==
  ASSUME NEW e \in Nat, NEW s, NEW n \in 0 .. 30, Sound(s, n),
         NEW lo \in Nat, NEW hi \in Nat, lo <= hi, hi < Weight(n)
  PROVE  Good(To(s, Of(e, lo, hi)))
<1> DEFINE v == Of(e, lo, hi)
<1>1. v \in lo .. hi
  BY OfRange
<1> HIDE DEF v
<1>2. v \in Nat /\ v <= hi
  BY <1>1
<1>3. Weight(n) \in Nat
  BY WeightAbove
<1>4. v < Weight(n)
  BY <1>2, <1>3
<1>5. Good(To(s, v))
  BY <1>2, <1>4, ToGood
<1> QED
  BY <1>5 DEF v

LEMMA OfBitsGood ==
  ASSUME NEW e, NEW s, NEW n \in Nat, Sound(s, n)
  PROVE  Good(ToBits(s, OfBits(e, n)))
<1>1. OfBits(e, n) \subseteq 0 .. n - 1
  BY DEF OfBits, Either
<1> QED
  BY <1>1, BitsGood

(* Lists of puts, written out, put together, cut off and made in a loop.   *)
LEMMA PutsOver ==
  ASSUME NEW S, NEW a \in Seq(S), \A q \in S : Good(q)
  PROVE  GoodPuts(a)
  BY Zenon DEF GoodPuts

LEMMA PutsNone == GoodPuts(<<>>)
<1> DEFINE S == {}
<1>1. <<>> \in Seq(S)
  OBVIOUS
<1>2. \A x \in S : Good(x)
  OBVIOUS
<1> HIDE DEF S
<1> QED
  BY <1>1, <1>2, PutsOver

LEMMA Puts1 ==
  ASSUME NEW p, Good(p)
  PROVE  GoodPuts(<<p>>)
<1> DEFINE S == {p}
<1>1. <<p>> \in Seq(S)
  OBVIOUS
<1>2. \A x \in S : Good(x)
  OBVIOUS
<1> HIDE DEF S
<1> QED
  BY <1>1, <1>2, PutsOver

LEMMA Puts2 ==
  ASSUME NEW p, NEW q, Good(p), Good(q)
  PROVE  GoodPuts(<<p, q>>)
<1> DEFINE S == {p, q}
<1>1. <<p, q>> \in Seq(S)
  OBVIOUS
<1>2. \A x \in S : Good(x)
  OBVIOUS
<1> HIDE DEF S
<1> QED
  BY <1>1, <1>2, PutsOver

LEMMA PutsJoin ==
  ASSUME NEW a, NEW b, GoodPuts(a), GoodPuts(b)
  PROVE  GoodPuts(a \o b)
<1>1. PICK S : a \in Seq(S) /\ \A q \in S : Good(q)
  BY DEF GoodPuts
<1>2. PICK T : b \in Seq(T) /\ \A q \in T : Good(q)
  BY DEF GoodPuts
<1>3. a \in Seq(S \cup T) /\ b \in Seq(S \cup T)
  BY <1>1, <1>2
<1>4. a \o b \in Seq(S \cup T)
  BY <1>3
<1> QED
  BY <1>1, <1>2, <1>4 DEF GoodPuts

LEMMA Puts3 ==
  ASSUME NEW p, NEW q, NEW r, Good(p), Good(q), Good(r)
  PROVE  GoodPuts(<<p, q, r>>)
<1> DEFINE S == {p, q, r}
<1>1. <<p, q, r>> \in Seq(S)
  OBVIOUS
<1>2. \A x \in S : Good(x)
  OBVIOUS
<1> HIDE DEF S
<1> QED
  BY <1>1, <1>2, PutsOver

LEMMA Puts4 ==
  ASSUME NEW p, NEW q, NEW r, NEW t, Good(p), Good(q), Good(r), Good(t)
  PROVE  GoodPuts(<<p, q, r, t>>)
<1> DEFINE S == {p, q, r, t}
<1>1. <<p, q, r, t>> \in Seq(S)
  OBVIOUS
<1>2. \A x \in S : Good(x)
  OBVIOUS
<1> HIDE DEF S
<1> QED
  BY <1>1, <1>2, PutsOver

LEMMA Puts5 ==
  ASSUME NEW p, NEW q, NEW r, NEW t, NEW u, Good(p), Good(q), Good(r), Good(t), Good(u)
  PROVE  GoodPuts(<<p, q, r, t, u>>)
<1> DEFINE S == {p, q, r, t, u}
<1>1. <<p, q, r, t, u>> \in Seq(S)
  OBVIOUS
<1>2. \A x \in S : Good(x)
  OBVIOUS
<1> HIDE DEF S
<1> QED
  BY <1>1, <1>2, PutsOver

LEMMA PutsBegin ==
  ASSUME NEW a, GoodPuts(a), NEW n \in 1 .. Len(a)
  PROVE  GoodPuts(SubSeq(a, 1, n))
<1>1. PICK S : a \in Seq(S) /\ \A q \in S : Good(q)
  BY DEF GoodPuts
<1>2. SubSeq(a, 1, n) \in Seq(S)
  BY <1>1
<1> QED
  BY <1>1, <1>2 DEF GoodPuts

LEMMA Puts7 ==
  ASSUME NEW p, NEW q, NEW r, NEW t, NEW u, NEW v, NEW w,
         Good(p), Good(q), Good(r), Good(t), Good(u), Good(v), Good(w)
  PROVE  GoodPuts(<<p, q, r, t, u, v, w>>)
<1> DEFINE S == {p, q, r, t, u, v, w}
<1>1. <<p, q, r, t, u, v, w>> \in Seq(S)
  OBVIOUS
<1>2. \A x \in S : Good(x)
  OBVIOUS
<1> HIDE DEF S
<1> QED
  BY <1>1, <1>2, PutsOver

LEMMA PutsEach ==
  ASSUME NEW n \in Nat, NEW f, f = [i \in 1 .. n |-> f[i]], \A i \in 1 .. n : Good(f[i])
  PROVE  GoodPuts(f)
<1> DEFINE S == {f[i] : i \in 1 .. n}
<1>1. f \in [1 .. n -> S]
  OBVIOUS
<1>2. f \in Seq(S)
  BY <1>1, SMTT(40)
<1>3. \A q \in S : Good(q)
  OBVIOUS
<1> HIDE DEF S
<1> QED
  BY <1>2, <1>3, PutsOver

LEMMA CallGood ==
  ASSUME NEW puts, GoodPuts(puts)
  PROVE  GoodCall(Does(puts)) /\ GoodCall(GivesUp(puts))
  BY DEF GoodCall, Does, GivesUp

LEMMA CallWithGood ==
  ASSUME NEW takes, NEW puts, GoodPuts(puts)
  PROVE  GoodCall(DoesWith(takes, puts))
  BY DEF GoodCall, DoesWith

-----------------------------------------------------------------------------
(* Settings of more than one cell.                                         *)

(* Cell c keeps the map and stands for the bits a .. b of a code. *)
Cell(c, a, b) == KeepsMap(c) /\ a .. b \subseteq {c.of[x] : x \in Bits(c)}

LEMMA WordCell ==
  ASSUME NEW x \in RegBlocks, NEW i \in 0 .. x.count - 1
  PROVE  Cell(Word(Reg(x, i)), 0, 15)
<1>1. KeepsMap(Word(Reg(x, i)))
  BY WordKeeps
<1>2. Bits(Word(Reg(x, i))) = 0 .. 15 /\ \A b \in 0 .. 15 : Word(Reg(x, i)).of[b] = b
  BY DEF Word, Bits
<1> QED
  BY <1>1, <1>2 DEF Cell

LEMMA WordFrom ==
  ASSUME NEW x \in RegBlocks, NEW i \in 0 .. x.count - 1, NEW n \in Nat
  PROVE  Cell(From(n, Word(Reg(x, i))), n, n + 15)
<1> DEFINE c == Word(Reg(x, i))
           d == From(n, c)
<1>1. KeepsMap(c) /\ DOMAIN c = {"reg", "of", "whole"}
  BY WordKeeps DEF Word
<1>2. Bits(c) = 0 .. 15 /\ \A b \in 0 .. 15 : c.of[b] = b
  BY DEF Word, Bits
<1>3. KeepsMap(d)
  BY <1>1, FromKeeps
<1> HIDE DEF c
<1>4. Bits(d) = 0 .. 15 /\ \A b \in 0 .. 15 : d.of[b] = b + n
  BY <1>1, <1>2 DEF From, Bits
<1> HIDE DEF d
<1>5. \A v \in n .. n + 15 : v - n \in Bits(d) /\ d.of[v - n] = v
  BY <1>4
<1>6. Cell(d, n, n + 15)
  BY <1>3, <1>5 DEF Cell
<1> QED
  BY <1>6 DEF c, d

LEMMA FieldFrom ==
  ASSUME NEW x \in RegBlocks, NEW i \in 0 .. x.count - 1, NEW n \in Nat, NEW len \in Nat, Nested(x, 0, len)
  PROVE  Cell(From(n, Field(Reg(x, i), 0, len)), n, n + len - 1)
<1> DEFINE c == Field(Reg(x, i), 0, len)
           d == From(n, c)
<1>1. KeepsMap(c) /\ DOMAIN c = {"reg", "of", "whole"}
  BY FieldKeeps DEF Field, Spread
<1>2. Bits(c) = 0 .. len - 1 /\ \A b \in 0 .. len - 1 : c.of[b] = b
  BY DEF Field, Spread, Bits
<1>3. KeepsMap(d)
  BY <1>1, FromKeeps
<1> HIDE DEF c
<1>4. Bits(d) = 0 .. len - 1 /\ \A b \in 0 .. len - 1 : d.of[b] = b + n
  BY <1>1, <1>2 DEF From, Bits
<1> HIDE DEF d
<1>5. \A v \in n .. n + len - 1 : v - n \in Bits(d) /\ d.of[v - n] = v
  BY <1>4
<1>6. Cell(d, n, n + len - 1)
  BY <1>3, <1>5 DEF Cell
<1> QED
  BY <1>6 DEF c, d

LEMMA FlagFrom ==
  ASSUME NEW x \in RegBlocks, NEW i \in 0 .. x.count - 1, NEW n \in Nat
  PROVE  Cell(From(n, Flag(Reg(x, i), 0)), n, n)
<1>1. \A f \in x.fields : f[1] \in Nat /\ f[2] \in Nat
  BY MapAssumption
<1>2. Nested(x, 0, 1)
  BY <1>1 DEF Nested
<1>3. Cell(From(n, Field(Reg(x, i), 0, 1)), n, n + 1 - 1)
  BY <1>2, FieldFrom
<1>4. n + 1 - 1 = n
  OBVIOUS
<1> QED
  BY <1>3, <1>4 DEF Flag

LEMMA TwoCells ==
  ASSUME NEW c, NEW a, NEW b, Cell(c, a, b), NEW d, NEW p, NEW q, Cell(d, p, q),
         NEW n, 0 .. n - 1 \subseteq (a .. b) \cup (p .. q)
  PROVE  Sound(<<c, d>>, n)
<1>1. Room(<<c, d>>) = {c.of[x] : x \in Bits(c)} \cup {d.of[x] : x \in Bits(d)}
  BY DEF Room
<1>2. Mapped(<<c, d>>)
  BY DEF Mapped, Cell
<1> QED
  BY <1>1, <1>2 DEF Sound, Cell

LEMMA ThreeCells ==
  ASSUME NEW c, NEW a, NEW b, Cell(c, a, b), NEW d, NEW p, NEW q, Cell(d, p, q),
         NEW f, NEW s, NEW t, Cell(f, s, t),
         NEW n, 0 .. n - 1 \subseteq (a .. b) \cup (p .. q) \cup (s .. t)
  PROVE  Sound(<<c, d, f>>, n)
<1>1. Room(<<c, d, f>>) =
        {c.of[x] : x \in Bits(c)} \cup {d.of[x] : x \in Bits(d)} \cup {f.of[x] : x \in Bits(f)}
  BY DEF Room
<1>2. Mapped(<<c, d, f>>)
  BY DEF Mapped, Cell
<1> QED
  BY <1>1, <1>2 DEF Sound, Cell

LEMMA FourCells ==
  ASSUME NEW c, NEW a, NEW b, Cell(c, a, b), NEW d, NEW p, NEW q, Cell(d, p, q),
         NEW f, NEW s, NEW t, Cell(f, s, t), NEW g, NEW u, NEW v, Cell(g, u, v),
         NEW n, 0 .. n - 1 \subseteq (a .. b) \cup (p .. q) \cup (s .. t) \cup (u .. v)
  PROVE  Sound(<<c, d, f, g>>, n)
<1>1. Room(<<c, d, f, g>>) =
        {c.of[x] : x \in Bits(c)} \cup {d.of[x] : x \in Bits(d)} \cup {f.of[x] : x \in Bits(f)}
        \cup {g.of[x] : x \in Bits(g)}
  BY DEF Room
<1>2. Mapped(<<c, d, f, g>>)
  BY DEF Mapped, Cell
<1> QED
  BY <1>1, <1>2 DEF Sound, Cell

LEMMA FiveCells ==
  ASSUME NEW c, NEW a, NEW b, Cell(c, a, b), NEW d, NEW p, NEW q, Cell(d, p, q),
         NEW f, NEW s, NEW t, Cell(f, s, t), NEW g, NEW u, NEW v, Cell(g, u, v),
         NEW h, NEW y, NEW z, Cell(h, y, z),
         NEW n, 0 .. n - 1 \subseteq (a .. b) \cup (p .. q) \cup (s .. t) \cup (u .. v) \cup (y .. z)
  PROVE  Sound(<<c, d, f, g, h>>, n)
<1>1. Room(<<c, d, f, g, h>>) =
        {c.of[x] : x \in Bits(c)} \cup {d.of[x] : x \in Bits(d)} \cup {f.of[x] : x \in Bits(f)}
        \cup {g.of[x] : x \in Bits(g)} \cup {h.of[x] : x \in Bits(h)}
  BY DEF Room
<1>2. Mapped(<<c, d, f, g, h>>)
  BY DEF Mapped, Cell
<1> QED
  BY <1>1, <1>2 DEF Sound, Cell

-----------------------------------------------------------------------------
(* Numbers a setting of so many bits has room for.                         *)

Takes(s, top) ==
  /\ \A v \in 0 .. top : Good(To(s, v))
  /\ Good(To(s, 0)) /\ Good(To(s, top))
  /\ \A e \in Nat : Good(To(s, Of(e, 0, top)))

LEMMA InGood ==
  ASSUME NEW s, NEW n \in 0 .. 30, Sound(s, n), NEW top \in Nat, top < Weight(n)
  PROVE  Takes(s, top)
<1>1. Weight(n) \in Nat /\ 0 \in 0 .. top /\ top \in 0 .. top /\ 0 \in Nat /\ 0 <= top
  BY WeightAbove
<1>2. ASSUME NEW v \in 0 .. top
      PROVE  Good(To(s, v))
  <2>1. v \in Nat /\ v < Weight(n)
    BY <1>1
  <2> QED
    BY <2>1, ToGood
<1>3. \A e \in Nat : Of(e, 0, top) \in 0 .. top
  BY <1>1, OfRange, Zenon
<1> QED
  BY <1>1, <1>2, <1>3, Zenon DEF Takes

LEMMA In1 ==
  ASSUME NEW s, Sound(s, 1)
  PROVE  Takes(s, 1)
<1>1. 1 \in 0 .. 30 /\ 1 \in Nat /\ 1 < Weight(1)
  BY Weights, SMT
<1> QED
  BY <1>1, InGood, Zenon

LEMMA In2 ==
  ASSUME NEW s, Sound(s, 2)
  PROVE  Takes(s, 3)
<1>1. 2 \in 0 .. 30 /\ 3 \in Nat /\ 3 < Weight(2)
  BY Weights, SMT
<1> QED
  BY <1>1, InGood, Zenon

LEMMA In3 ==
  ASSUME NEW s, Sound(s, 3)
  PROVE  Takes(s, 7)
<1>1. 3 \in 0 .. 30 /\ 7 \in Nat /\ 7 < Weight(3)
  BY Weights, SMT
<1> QED
  BY <1>1, InGood, Zenon

LEMMA In4 ==
  ASSUME NEW s, Sound(s, 4)
  PROVE  Takes(s, 15)
<1>1. 4 \in 0 .. 30 /\ 15 \in Nat /\ 15 < Weight(4)
  BY Weights, SMT
<1> QED
  BY <1>1, InGood, Zenon

LEMMA In5 ==
  ASSUME NEW s, Sound(s, 5)
  PROVE  Takes(s, 31)
<1>1. 5 \in 0 .. 30 /\ 31 \in Nat /\ 31 < Weight(5)
  BY Weights, SMT
<1> QED
  BY <1>1, InGood, Zenon

LEMMA In6 ==
  ASSUME NEW s, Sound(s, 6)
  PROVE  Takes(s, 63)
<1>1. 6 \in 0 .. 30 /\ 63 \in Nat /\ 63 < Weight(6)
  BY Weights, SMT
<1> QED
  BY <1>1, InGood, Zenon

LEMMA In7 ==
  ASSUME NEW s, Sound(s, 7)
  PROVE  Takes(s, 127)
<1>1. 7 \in 0 .. 30 /\ 127 \in Nat /\ 127 < Weight(7)
  BY Weights, SMT
<1> QED
  BY <1>1, InGood, Zenon

LEMMA In8 ==
  ASSUME NEW s, Sound(s, 8)
  PROVE  Takes(s, 255)
<1>1. 8 \in 0 .. 30 /\ 255 \in Nat /\ 255 < Weight(8)
  BY Weights, SMT
<1> QED
  BY <1>1, InGood, ZenonT(60)

LEMMA InPages ==
  ASSUME NEW s, Sound(s, Pages)
  PROVE  Takes(s, PageNumber - 1)
<1>1. Pages \in 0 .. 30 /\ PageNumber - 1 \in Nat /\ PageNumber - 1 < Weight(Pages)
  BY Weights, SMT DEF Pages, PageNumber
<1> QED
  BY <1>1, InGood, Zenon

LEMMA In12 ==
  ASSUME NEW s, Sound(s, 12)
  PROVE  Takes(s, VidMax)
<1>1. 12 \in 0 .. 30 /\ VidMax \in Nat /\ VidMax < Weight(12)
  BY Weights, SMT DEF VidMax
<1> QED
  BY <1>1, InGood, Zenon

LEMMA InLimit ==
  ASSUME NEW s, Sound(s, 16)
  PROVE  Takes(s, LearnLimitMax)
<1>1. 16 \in 0 .. 30 /\ LearnLimitMax \in Nat /\ LearnLimitMax < Weight(16)
  BY Weights, SMT DEF LearnLimitMax
<1> QED
  BY <1>1, InGood, Zenon

LEMMA In16 ==
  ASSUME NEW s, Sound(s, 16)
  PROVE  Takes(s, RegDataMax)
<1>1. 16 \in 0 .. 30 /\ RegDataMax \in Nat /\ RegDataMax < Weight(16)
  BY Weights, SMT DEF RegDataMax
<1> QED
  BY <1>1, InGood, Zenon

LEMMA In17 ==
  ASSUME NEW s, Sound(s, 17)
  PROVE  Takes(s, RateMax \div 8)
<1>1. 17 \in 0 .. 30 /\ RateMax \div 8 \in Nat /\ RateMax \div 8 < Weight(17)
  BY Weights, SMT DEF RateMax
<1> QED
  BY <1>1, InGood, Zenon

(* A flag that is written the other way round, and three of four values.   *)
LEMMA NotGood ==
  ASSUME NEW s, Sound(s, 1), NEW e \in Nat
  PROVE  Good(To(s, 1 - Of(e, 0, 1)))
<1> DEFINE v == Of(e, 0, 1)
<1>1. v \in 0 .. 1
  BY SMT DEF Of
<1> HIDE DEF v
<1>2. 1 - v \in 0 .. 1
  BY <1>1
<1>3. Good(To(s, 1 - v))
  BY <1>2, In1, Zenon DEF Takes
<1> QED
  BY <1>3 DEF v

LEMMA ThreeGood ==
  ASSUME NEW s, Sound(s, 2), NEW e \in Nat
  PROVE  Good(To(s, Of(e, 0, 2)))
<1>1. Of(e, 0, 2) \in 0 .. 3
  BY SMT DEF Of
<1> QED
  BY <1>1, In2, Zenon DEF Takes

(* The ports of the switch in a mask of a whole register.                  *)
LEMMA MaskGood ==
  ASSUME NEW e, NEW s, Sound(s, 16)
  PROVE  Good(ToBits(s, OfBits(e, 8)))
<1>1. OfBits(e, 8) \subseteq 0 .. 16 - 1
  BY SMT DEF OfBits, Either
<1> QED
  BY <1>1, BitsGood, Zenon

-----------------------------------------------------------------------------
(* Cells that are not plain: those of a PHY, and those with gaps.          *)

LEMMA PhyKeeps ==
  ASSUME NEW c, NEW p \in Nat, NEW page \in Nat, NEW n \in Nat, c.reg = PhyRegister(p, page, n)
  PROVE  KeepsMap(c)
<1>1. ~(c.reg < PhyRegister(0, 0, 0))
  BY SMT DEF PhyRegister
<1> QED
  BY <1>1, Zenon DEF KeepsMap, Plain

LEMMA PhyFieldSound ==
  ASSUME NEW p \in Nat, NEW page \in Nat, NEW n \in Nat, NEW lo \in Int, NEW len \in Nat
  PROVE  Sound(<<Field(PhyRegister(p, page, n), lo, len)>>, len)
<1> DEFINE r == PhyRegister(p, page, n)
           c == Field(r, lo, len)
<1>1. c.reg = r
  BY Zenon DEF Field, Spread
<1>2. 0 .. len - 1 \subseteq Room(<<c>>)
  BY FieldRoom, Zenon
<1> HIDE DEF c
<1>3. KeepsMap(c)
  BY <1>1, PhyKeeps, Zenon
<1>4. Sound(<<c>>, len)
  BY <1>2, <1>3 DEF Sound, Mapped
<1> QED
  BY <1>4, Zenon DEF c, r

LEMMA PhyFlagSound ==
  ASSUME NEW p \in Nat, NEW page \in Nat, NEW n \in Nat, NEW b \in Int
  PROVE  Sound(<<Flag(PhyRegister(p, page, n), b)>>, 1)
<1>1. 1 \in Nat
  OBVIOUS
<1> QED
  BY <1>1, PhyFieldSound, Zenon DEF Flag

LEMMA PhyWordSound ==
  ASSUME NEW p \in Nat, NEW page \in Nat, NEW n \in Nat
  PROVE  Sound(<<Word(PhyRegister(p, page, n))>>, 16)
<1> DEFINE r == PhyRegister(p, page, n)
           c == Word(r)
<1>1. c.reg = r
  BY Zenon DEF Word
<1>2. 0 .. 15 \subseteq Room(<<c>>)
  BY WordRoom, Zenon
<1> HIDE DEF c
<1>3. KeepsMap(c)
  BY <1>1, PhyKeeps, Zenon
<1>4. Sound(<<c>>, 16)
  BY <1>2, <1>3 DEF Sound, Mapped
<1> QED
  BY <1>4, Zenon DEF c, r

(* A setting with room for the bits of the set B, not the first ones. *)
Holds(s, B) == Mapped(s) /\ B \subseteq Room(s)

LEMMA HoldsGood ==
  ASSUME NEW s, NEW B, Holds(s, B), NEW code, code \subseteq B
  PROVE  Good(ToBits(s, code))
  BY DEF Good, Fits, Holds, ToBits

LEMMA SpreadRoom ==
  ASSUME NEW r, NEW of
  PROVE  Room(<<Spread(r, of)>>) = {of[b] : b \in DOMAIN of}
<1> DEFINE c == Spread(r, of)
<1>1. c.of = of
  BY Zenon DEF Spread
<1> HIDE DEF c
<1>2. Room(<<c>>) = {c.of[b] : b \in Bits(c)}
  BY DEF Room
<1> QED
  BY <1>1, <1>2, Zenon DEF Bits, c

LEMMA GapHolds ==
  ASSUME NEW r, NEW of, DOMAIN of \subseteq Int, NEW a \in DOMAIN of, NEW b \in DOMAIN of,
         NEW m \in Int, a < m, m < b, m \notin DOMAIN of
  PROVE  Mapped(<<Spread(r, of)>>)
<1> DEFINE c == Spread(r, of)
<1>1. Bits(c) = DOMAIN of
  BY Zenon DEF Spread, Bits
<1> HIDE DEF c
<1>2. ASSUME NEW lo \in Bits(c), NEW hi \in Bits(c), Bits(c) = lo .. hi
      PROVE  FALSE
  BY <1>1, <1>2
<1>3. KeepsMap(c)
  BY <1>2, Zenon DEF KeepsMap, Plain
<1>4. Mapped(<<c>>)
  BY <1>3 DEF Mapped
<1> QED
  BY <1>4, Zenon DEF c

-----------------------------------------------------------------------------
(* Queues, rates, priorities, flow control and storm control (QosSettings). *)

LEMMA RateCallsGood ==
  ASSUME NEW e \in Nat
  PROVE  /\ \A k \in RateShareMeter(e) : GoodCall(k)
         /\ \A k \in RateShareMeterBucket(e) : GoodCall(k)
         /\ \A k \in RateIgrBandwidthCtrlRate(e) : GoodCall(k)
         /\ \A k \in RateEgrBandwidthCtrlRate(e) : GoodCall(k)
         /\ \A k \in RateEgrQueueBwCtrlEnable(e) : GoodCall(k)
         /\ \A k \in RateEgrQueueBwCtrlRate(e) : GoodCall(k)
         /\ \A k \in RateDriver(e) : GoodCall(k)
<1>1. {METER0_RATE_CTRL0, METER0_RATE_CTRL1, METER_IFG_CTRL0, METER0_BUCKET_SIZE,
   INGRESSBW_PORT0_RATE_CTRL0, INGRESSBW_PORT0_RATE_CTRL1, PORT0_MISC_CFG, PORT0_EGRESSBW_CTRL0,
   PORT0_EGRESSBW_CTRL1, SCHEDULE_WFQ_CTRL, SCHEDULE_APR_CTRL0, SCHEDULE_PORT0_APR_METER_CTRL0} \subseteq RegBlocks
  BY SMT DEF RegBlocks
<1>2. {METER_CTRL0, METER_CTRL1, SCHEDULE_WFQ_BURST_SIZE} \subseteq RegBlocks
  BY SMT DEF RegBlocks
<1>3. METER0_RATE_CTRL0.count = 32
  BY DEF METER0_RATE_CTRL0, Block
<1>4. METER0_RATE_CTRL1.count = 32
  BY DEF METER0_RATE_CTRL1, Block
<1>5. \A meter \in 0 .. 31 : Sound(AsicShareMeterRate(meter), 17)
  <2>1. \A meter \in 0 .. 31 : Cell(Word(Reg(METER0_RATE_CTRL0, meter)), 0, 15)
    BY <1>1, <1>3, WordCell
  <2>2. \A meter \in 0 .. 31 : Cell(From(16, Word(Reg(METER0_RATE_CTRL1, meter))), 16, 16 + 15)
    BY <1>1, <1>4, WordFrom
  <2>3. 0 .. 17 - 1 \subseteq (0 .. 15) \cup (16 .. 16 + 15)
    BY SMT
  <2> QED
    BY <2>1, <2>2, <2>3, TwoCells, ZenonT(60) DEF AsicShareMeterRate
<1>6. Packs(METER_IFG_CTRL0, 16, 1, 1, 31)
  BY <1>1, SMT DEF Packs, METER_IFG_CTRL0, Block, Each, Nested
<1>7. \A meter \in 0 .. 31 : Sound(AsicShareMeterIfg(meter), 1)
  BY <1>6, PackedSound, Zenon DEF AsicShareMeterIfg
<1>8. METER0_BUCKET_SIZE.count = 32
  BY DEF METER0_BUCKET_SIZE, Block
<1>9. \A meter \in 0 .. 31 : Sound(AsicShareMeterBucketSize(meter), 16)
  BY <1>1, <1>8, WordSound DEF AsicShareMeterBucketSize
<1>10. INGRESSBW_PORT0_RATE_CTRL0.count = 8
  BY DEF INGRESSBW_PORT0_RATE_CTRL0, Block
<1>11. INGRESSBW_PORT0_RATE_CTRL1.count = 8
  BY DEF INGRESSBW_PORT0_RATE_CTRL1, Block
<1>12. \A port \in 0 .. 7 : Sound(AsicPortIngressBandwidth(port), 17)
  <2>1. \A port \in 0 .. 7 : Cell(Word(Reg(INGRESSBW_PORT0_RATE_CTRL0, port)), 0, 15)
    BY <1>1, <1>10, WordCell
  <2>2. \A port \in 0 .. 7 : Cell(From(16, Flag(Reg(INGRESSBW_PORT0_RATE_CTRL1, port), 0)), 16, 16)
    BY <1>1, <1>11, FlagFrom
  <2>3. 0 .. 17 - 1 \subseteq (0 .. 15) \cup (16 .. 16)
    BY SMT
  <2> QED
    BY <2>1, <2>2, <2>3, TwoCells, Zenon DEF AsicPortIngressBandwidth
<1>13. PORT0_MISC_CFG.count = 8
  BY DEF PORT0_MISC_CFG, Block
<1>14. \A port \in 0 .. 7 : Sound(AsicPortIngressIfg(port), 1)
  BY <1>1, <1>13, FlagSound DEF AsicPortIngressIfg
<1>15. \A port \in 0 .. 7 : Sound(AsicPortIngressFlowControl(port), 1)
  BY <1>1, <1>13, FlagSound DEF AsicPortIngressFlowControl
<1>16. PORT0_EGRESSBW_CTRL0.count = 8
  BY DEF PORT0_EGRESSBW_CTRL0, Block
<1>17. PORT0_EGRESSBW_CTRL1.count = 8
  BY DEF PORT0_EGRESSBW_CTRL1, Block
<1>18. \A port \in 0 .. 7 : Sound(AsicPortEgressRate(port), 17)
  <2>1. \A port \in 0 .. 7 : Cell(Word(Reg(PORT0_EGRESSBW_CTRL0, port)), 0, 15)
    BY <1>1, <1>16, WordCell
  <2>2. \A port \in 0 .. 7 : Cell(From(16, Flag(Reg(PORT0_EGRESSBW_CTRL1, port), 0)), 16, 16)
    BY <1>1, <1>17, FlagFrom
  <2>3. 0 .. 17 - 1 \subseteq (0 .. 15) \cup (16 .. 16)
    BY SMT
  <2> QED
    BY <2>1, <2>2, <2>3, TwoCells, Zenon DEF AsicPortEgressRate
<1>19. SCHEDULE_WFQ_CTRL.count = 1
  BY DEF SCHEDULE_WFQ_CTRL, One, Block
<1>20. Sound(AsicPortEgressRateIfg, 1)
  BY <1>1, <1>19, FlagSound DEF AsicPortEgressRateIfg
<1>21. SCHEDULE_APR_CTRL0.count = 1
  BY DEF SCHEDULE_APR_CTRL0, One, Block
<1>22. \A port \in 0 .. 7 : Sound(AsicAprEnable(port), 1)
  BY <1>1, <1>21, FlagSound DEF AsicAprEnable
<1>23. SCHEDULE_PORT0_APR_METER_CTRL0.count = 32
  BY DEF SCHEDULE_PORT0_APR_METER_CTRL0, Block
<1>24. \A port, qid \in 0 .. 7 : Sound(AsicAprMeter(port, qid), 3)
  <2>1. \A port, qid \in 0 .. 7 :
          4 * port + qid \div 5 \in 0 .. SCHEDULE_PORT0_APR_METER_CTRL0.count - 1 /\ 3 * (qid % 5) \in Int /\ qid % 5 \in 0 .. 4
    BY <1>23, SMT
  <2>2. \A j \in 0 .. 4 : Nested(SCHEDULE_PORT0_APR_METER_CTRL0, 3 * j, 3)
    BY SMT DEF SCHEDULE_PORT0_APR_METER_CTRL0, Block, Each, Nested
  <2>3. 3 \in Nat
    BY SMT
  <2> QED
    BY <2>1, <2>2, <2>3, <1>1, FieldSound, Zenon DEF AsicAprMeter
<1>25. METER_CTRL0.count = 1
  BY DEF METER_CTRL0, One, Block
<1>26. Nested(METER_CTRL0, 0, 8)
  BY SMT DEF METER_CTRL0, One, Block, Nested
<1>27. Sound(LeakyBucketTick, 8)
  BY <1>2, <1>25, <1>26, FieldSound DEF LeakyBucketTick
<1>28. METER_CTRL1.count = 1
  BY DEF METER_CTRL1, One, Block
<1>29. Nested(METER_CTRL1, 0, 8)
  BY SMT DEF METER_CTRL1, One, Block, Low, Nested
<1>30. Sound(LeakyBucketToken, 8)
  BY <1>2, <1>28, <1>29, FieldSound DEF LeakyBucketToken
<1>31. SCHEDULE_WFQ_BURST_SIZE.count = 1
  BY DEF SCHEDULE_WFQ_BURST_SIZE, One, Block
<1>32. Sound(AsicWFQBurstSize, 16)
  BY <1>2, <1>31, WordSound DEF AsicWFQBurstSize
<1>33. Of(e, RateMin, RateMax) \div 8 \in 0 .. RateMax \div 8
  <2> DEFINE v == Of(e, RateMin, RateMax)
  <2>1. RateMin \in Nat /\ RateMax \in Nat /\ RateMin <= RateMax
    BY SMT DEF RateMin, RateMax
  <2>2. v \in RateMin .. RateMax
    BY <2>1, OfRange, Zenon
  <2> HIDE DEF v
  <2>3. v \in Nat /\ v <= RateMax
    BY <2>1, <2>2, SMT
  <2>4. v \div 8 \in 0 .. RateMax \div 8
    BY <2>1, <2>3, SMT
  <2> QED
    BY <2>4 DEF v
<1>34. \A k \in RateShareMeter(e) : GoodCall(k)
  <2>1. \A m \in Meter : Good(To(AsicShareMeterRate(m), Of(e, RateMin, RateMax) \div 8)) /\ Good(To(AsicShareMeterIfg(m), Of(e, 0, 1)))
    BY <1>33, <1>5, <1>7, In1, In17, IndexAssumption, Zenon DEF Takes
  <2> QED
    BY <2>1, Puts2, CallGood, Zenon DEF RateShareMeter, ShareMeter
<1>35. \A k \in RateShareMeterBucket(e) : GoodCall(k)
  <2>1. \A m \in Meter : Good(To(AsicShareMeterBucketSize(m), Of(e, 0, RegDataMax)))
    BY <1>9, In16, IndexAssumption, Zenon DEF Takes
  <2> QED
    BY <2>1, Puts1, CallGood, Zenon DEF RateShareMeterBucket
<1>36. \A k \in RateIgrBandwidthCtrlRate(e) : GoodCall(k)
  <2>1. \A p \in Port :
          /\ Good(To(AsicPortIngressBandwidth(p), Of(e, RateMin, RateMax) \div 8))
          /\ Good(To(AsicPortIngressIfg(p), Of(e, 0, 1)))
          /\ Good(To(AsicPortIngressFlowControl(p), Of(e, 0, 1)))
    BY <1>33, <1>12, <1>14, <1>15,
       In1, In17, IndexAssumption, Zenon DEF Takes
  <2> QED
    BY <2>1, Puts3, CallGood, Zenon DEF RateIgrBandwidthCtrlRate
<1>37. \A k \in RateEgrBandwidthCtrlRate(e) : GoodCall(k)
  <2>1. \A p \in Port :
          /\ Good(To(AsicPortEgressRate(p), Of(e, RateMin, RateMax) \div 8))
          /\ Good(To(AsicPortEgressRateIfg, Of(e, 0, 1)))
    BY <1>33, <1>18, <1>20, In1, In17, IndexAssumption, Zenon DEF Takes
  <2> QED
    BY <2>1, Puts2, CallGood, Zenon DEF RateEgrBandwidthCtrlRate
<1>38. \A k \in RateEgrQueueBwCtrlEnable(e) : GoodCall(k)
  <2>1. \A p \in Port : Good(To(AsicAprEnable(p), Of(e, 0, 1)))
    BY <1>22, In1, IndexAssumption, Zenon DEF Takes
  <2> QED
    BY <2>1, Puts1, CallGood, Zenon DEF RateEgrQueueBwCtrlEnable
<1>39. \A k \in RateEgrQueueBwCtrlRate(e) : GoodCall(k)
  <2> DEFINE Within(p) == Of(e, 8 * (p % 4), 8 * (p % 4) + 7) - 8 * (p % 4)
  <2>1. ASSUME NEW p \in 0 .. 7
        PROVE  Within(p) \in 0 .. 7
    <3> DEFINE first == 8 * (p % 4)
               v == Of(e, first, first + 7)
    <3>1. first \in Nat
      BY SMT
    <3> HIDE DEF first
    <3>2. v \in first .. first + 7
      BY <3>1, OfRange, SMT
    <3> HIDE DEF v
    <3>3. v - first \in 0 .. 7
      BY <3>1, <3>2, SMT
    <3> QED
      BY <3>3 DEF v, first
  <2> HIDE DEF Within
  <2>2. \A p, q \in 0 .. 7 : Good(To(AsicAprMeter(p, q), Within(p)))
    BY <2>1, <1>24, In3, Zenon DEF Takes
  <2>3. \A p \in Port, q \in Queue : GoodCall(Does(<<To(AsicAprMeter(p, q), Within(p))>>))
    BY <2>2, IndexAssumption, Puts1, CallGood, Zenon
  <2>4. \A k \in RateEgrQueueBwCtrlRate(e) :
          \E p \in Port, q \in Queue : k = Does(<<To(AsicAprMeter(p, q), Within(p))>>)
    BY SMT DEF RateEgrQueueBwCtrlRate, Within
  <2> QED
    BY <2>3, <2>4, Zenon
<1>40. \A k \in RateDriver(e) : GoodCall(k)
  <2>1. Good(To(LeakyBucketTick, Of(e, 0, 255))) /\ Good(To(LeakyBucketToken, Of(e, 0, 255)))
    BY <1>27, <1>30, In8, ZenonT(60) DEF Takes
  <2>2. Good(To(AsicWFQBurstSize, Of(e, 0, RegDataMax)))
    BY <1>32, In16, Zenon DEF Takes
  <2> QED
    BY <2>1, <2>2, Puts1, Puts2, CallGood, ZenonT(60) DEF RateDriver
<1> QED
  BY <1>34, <1>35, <1>36, <1>37, <1>38, <1>39, <1>40

(* Priorities: from a tag, a DSCP or a port, and what is sent instead.     *)
LEMMA PriorityCallsGood ==
  ASSUME NEW e \in Nat
  PROVE  /\ \A k \in Qos1pPriRemap(e) : GoodCall(k)
         /\ \A k \in QosDscpPriRemap(e) : GoodCall(k)
         /\ \A k \in QosPortPri(e) : GoodCall(k)
         /\ \A k \in Qos1pRemarkEnable(e) : GoodCall(k)
         /\ \A k \in Qos1pRemark(e) : GoodCall(k)
         /\ \A k \in QosDscpRemarkEnable(e) : GoodCall(k)
         /\ \A k \in QosDscpRemark(e) : GoodCall(k)
<1>1. {QOS_1Q_PRIORITY_REMAPPING_CTRL0, QOS_DSCP_TO_PRIORITY_CTRL0, QOS_PORTBASED_PRIORITY_CTRL0,
   PORT0_MISC_CFG, QOS_1Q_REMARK_CTRL0, SWITCH_CTRL0, QOS_DSCP_REMARK_CTRL0} \subseteq RegBlocks
  BY SMT DEF RegBlocks
<1>2. Packs(QOS_1Q_PRIORITY_REMAPPING_CTRL0, 4, 4, 3, 7)
  BY <1>1, SMT DEF Packs, QOS_1Q_PRIORITY_REMAPPING_CTRL0, Block, Each, Nested
<1>3. \A pri \in 0 .. 7 : Sound(AsicPriorityDot1qRemapping(pri), 3)
  BY <1>2, PackedSound, Zenon DEF AsicPriorityDot1qRemapping
<1>4. Packs(QOS_DSCP_TO_PRIORITY_CTRL0, 4, 4, 3, 63)
  BY <1>1, SMT DEF Packs, QOS_DSCP_TO_PRIORITY_CTRL0, Block, Each, Nested
<1>5. \A dscp \in 0 .. 63 : Sound(AsicPriorityDscpBased(dscp), 3)
  BY <1>4, PackedSound, Zenon DEF AsicPriorityDscpBased
<1>6. Packs(QOS_PORTBASED_PRIORITY_CTRL0, 4, 4, 3, 7)
  BY <1>1, SMT DEF Packs, QOS_PORTBASED_PRIORITY_CTRL0, Block, Each, Nested
<1>7. \A port \in 0 .. 7 : Sound(AsicPriorityPortBased(port), 3)
  BY <1>6, PackedSound, Zenon DEF AsicPriorityPortBased
<1>8. PORT0_MISC_CFG.count = 8
  BY DEF PORT0_MISC_CFG, Block
<1>9. \A port \in 0 .. 7 : Sound(AsicRemarkingDot1pAbility(port), 1)
  BY <1>1, <1>8, FlagSound DEF AsicRemarkingDot1pAbility
<1>10. Packs(QOS_1Q_REMARK_CTRL0, 4, 4, 3, 7)
  BY <1>1, SMT DEF Packs, QOS_1Q_REMARK_CTRL0, Block, Each, Nested
<1>11. \A pri \in 0 .. 7 : Sound(AsicRemarkingDot1pParameter(pri), 3)
  BY <1>10, PackedSound, Zenon DEF AsicRemarkingDot1pParameter
<1>12. SWITCH_CTRL0.count = 1
  BY DEF SWITCH_CTRL0, One, Block
<1>13. Sound(AsicRemarkingDscpAbility, 1)
  BY <1>1, <1>12, FlagSound DEF AsicRemarkingDscpAbility
<1>14. Packs(QOS_DSCP_REMARK_CTRL0, 2, 8, 6, 7)
  BY <1>1, SMT DEF Packs, QOS_DSCP_REMARK_CTRL0, Block, Each, Nested
<1>15. \A pri \in 0 .. 7 : Sound(AsicRemarkingDscpParameter(pri), 6)
  BY <1>14, PackedSound, Zenon DEF AsicRemarkingDscpParameter
<1>16. \A k \in Qos1pPriRemap(e) : GoodCall(k)
  <2>1. \A i \in Priority : Good(To(AsicPriorityDot1qRemapping(i), Of(e, 0, 7)))
    BY <1>3, In3, IndexAssumption, Zenon DEF Takes
  <2> QED
    BY <2>1, Puts1, CallGood, Zenon DEF Qos1pPriRemap
<1>17. \A k \in QosDscpPriRemap(e) : GoodCall(k)
  <2>1. \A d \in Dscp : Good(To(AsicPriorityDscpBased(d), Of(e, 0, 7)))
    BY <1>5, In3, IndexAssumption, Zenon DEF Takes
  <2> QED
    BY <2>1, Puts1, CallGood, Zenon DEF QosDscpPriRemap
<1>18. \A k \in QosPortPri(e) : GoodCall(k)
  <2>1. \A p \in Port : Good(To(AsicPriorityPortBased(p), Of(e, 0, 7)))
    BY <1>7, In3, IndexAssumption, ZenonT(60) DEF Takes
  <2> QED
    BY <2>1, Puts1, CallGood, Zenon DEF QosPortPri
<1>19. \A k \in Qos1pRemarkEnable(e) : GoodCall(k)
  <2>1. \A p \in Port : Good(To(AsicRemarkingDot1pAbility(p), Of(e, 0, 1)))
    BY <1>9, In1, IndexAssumption, Zenon DEF Takes
  <2> QED
    BY <2>1, Puts1, CallGood, Zenon DEF Qos1pRemarkEnable
<1>20. \A k \in Qos1pRemark(e) : GoodCall(k)
  <2>1. \A i \in Priority : Good(To(AsicRemarkingDot1pParameter(i), Of(e, 0, 7)))
    BY <1>11, In3, IndexAssumption, Zenon DEF Takes
  <2> QED
    BY <2>1, Puts1, CallGood, Zenon DEF Qos1pRemark
<1>21. \A k \in QosDscpRemarkEnable(e) : GoodCall(k)
  <2>1. Good(To(AsicRemarkingDscpAbility, Of(e, 0, 1)))
    BY <1>13, In1, Zenon DEF Takes
  <2> QED
    BY <2>1, Puts1, CallGood, Zenon DEF QosDscpRemarkEnable
<1>22. \A k \in QosDscpRemark(e) : GoodCall(k)
  <2>1. \A i \in Priority : Good(To(AsicRemarkingDscpParameter(i), Of(e, 0, 63)))
    BY <1>15, In6, IndexAssumption, Zenon DEF Takes
  <2> QED
    BY <2>1, Puts1, CallGood, Zenon DEF QosDscpRemark
<1> QED
  BY <1>16, <1>17, <1>18, <1>19, <1>20, <1>21, <1>22

(* A threshold to stop at and one to go on at.                             *)
LEMMA OffThenOnGood ==
  ASSUME NEW off \in RegBlocks, NEW on \in RegBlocks, off.count = 1, on.count = 1,
         Nested(off, 0, Pages), Nested(on, 0, Pages), NEW e \in Nat
  PROVE  \A k \in OffThenOn(off, on, e) : GoodCall(k)
<1>1. Pages \in Nat
  BY DEF Pages
<1>2. Sound(<<Field(Reg(off, 0), 0, Pages)>>, Pages) /\ Sound(<<Field(Reg(on, 0), 0, Pages)>>, Pages)
  BY <1>1, FieldSound
<1>3. /\ Good(ToBits(<<Field(Reg(off, 0), 0, Pages)>>, OfBits(e, Pages)))
      /\ Good(ToBits(<<Field(Reg(on, 0), 0, Pages)>>, OfBits(e, Pages)))
  BY <1>1, <1>2, OfBitsGood, Zenon
<1> QED
  BY <1>3, Puts2, CallGood, Zenon DEF OffThenOn

(* Flow control: the settings beside the thresholds.                       *)
LEMMA FlowControlCallsGood ==
  ASSUME NEW e \in Nat
  PROVE  /\ \A k \in AsicFlowControlJumboMode(e) : GoodCall(k)
         /\ \A k \in AsicFlowControlJumboModeSize(e) : GoodCall(k)
         /\ \A k \in AsicFlowControlQueueEgressEnable(e) : GoodCall(k)
         /\ \A k \in AsicFlowControlDropAll(e) : GoodCall(k)
         /\ \A k \in AsicFlowControlPauseAllThreshold(e) : GoodCall(k)
         /\ \A k \in AsicEgressFlowControlQueueDropThreshold(e) : GoodCall(k)
         /\ \A k \in AsicEgressFlowControlPortDropThreshold(e) : GoodCall(k)
         /\ \A k \in AsicEgressFlowControlPortDropGap(e) : GoodCall(k)
         /\ \A k \in AsicEgressFlowControlQueueDropGap(e) : GoodCall(k)
         /\ \A k \in AsicFlowControlEgressPortIndep(e) : GoodCall(k)
<1>1. {FLOWCTRL_JUMBO_SIZE, FLOWCRTL_EGRESS_QUEUE_ENABLE_CTRL0, FLOWCTRL_CTRL0, FLOWCTRL_ALL_ON,
   FLOWCTRL_QUEUE0_DROP_ON, FLOWCTRL_PORT0_DROP_ON, FLOWCTRL_PORT_GAP, FLOWCTRL_QUEUE_GAP,
   PORT0_MISC_CFG} \subseteq RegBlocks
  BY SMT DEF RegBlocks
<1>2. FLOWCTRL_JUMBO_SIZE.count = 1
  BY DEF FLOWCTRL_JUMBO_SIZE, One, Block
<1>3. Sound(<<Flag(Reg(FLOWCTRL_JUMBO_SIZE, 0), 2)>>, 1)
  BY <1>1, <1>2, FlagSound
<1>4. Nested(FLOWCTRL_JUMBO_SIZE, 0, 2)
  BY SMT DEF FLOWCTRL_JUMBO_SIZE, One, Block, Nested
<1>5. Sound(<<Field(Reg(FLOWCTRL_JUMBO_SIZE, 0), 0, 2)>>, 2)
  BY <1>1, <1>2, <1>4, FieldSound
<1>6. Packs(FLOWCRTL_EGRESS_QUEUE_ENABLE_CTRL0, 16, 1, 1, 63)
  BY <1>1, SMT DEF Packs, FLOWCRTL_EGRESS_QUEUE_ENABLE_CTRL0, Block, Each, Nested
<1>7. \A p, q \in 0 .. 7 : Sound(Packed(FLOWCRTL_EGRESS_QUEUE_ENABLE_CTRL0, 16, 1, 1, 8 * p + q), 1)
  <2>1. \A p, q \in 0 .. 7 : 8 * p + q \in 0 .. 63
    BY SMT
  <2> QED
    BY <2>1, <1>6, PackedSound, Zenon
<1>8. FLOWCTRL_CTRL0.count = 1
  BY DEF FLOWCTRL_CTRL0, One, Block
<1>9. Nested(FLOWCTRL_CTRL0, 5, Pages)
  BY SMT DEF FLOWCTRL_CTRL0, One, Block, Nested, Pages
<1>10. Sound(<<Field(Reg(FLOWCTRL_CTRL0, 0), 5, Pages)>>, Pages)
  BY <1>1, <1>8, <1>9, FieldSound DEF Pages
<1>11. FLOWCTRL_ALL_ON.count = 1
  BY DEF FLOWCTRL_ALL_ON, One, Block
<1>12. Nested(FLOWCTRL_ALL_ON, 0, Pages)
  BY SMT DEF FLOWCTRL_ALL_ON, One, Block, Nested, Pages
<1>13. Sound(<<Field(Reg(FLOWCTRL_ALL_ON, 0), 0, Pages)>>, Pages)
  BY <1>1, <1>11, <1>12, FieldSound DEF Pages
<1>14. FLOWCTRL_QUEUE0_DROP_ON.count = 8
  BY DEF FLOWCTRL_QUEUE0_DROP_ON, Block
<1>15. Nested(FLOWCTRL_QUEUE0_DROP_ON, 0, Pages)
  BY SMT DEF FLOWCTRL_QUEUE0_DROP_ON, Block, Low, Nested, Pages
<1>16. \A q \in 0 .. 7 : Sound(<<Field(Reg(FLOWCTRL_QUEUE0_DROP_ON, q), 0, Pages)>>, Pages)
  BY <1>1, <1>14, <1>15, FieldSound DEF Pages
<1>17. FLOWCTRL_PORT0_DROP_ON.count = 8
  BY DEF FLOWCTRL_PORT0_DROP_ON, Block
<1>18. Nested(FLOWCTRL_PORT0_DROP_ON, 0, Pages)
  BY SMT DEF FLOWCTRL_PORT0_DROP_ON, Block, Low, Nested, Pages
<1>19. \A p \in 0 .. 7 : Sound(<<Field(Reg(FLOWCTRL_PORT0_DROP_ON, p), 0, Pages)>>, Pages)
  BY <1>1, <1>17, <1>18, FieldSound DEF Pages
<1>20. FLOWCTRL_PORT_GAP.count = 1
  BY DEF FLOWCTRL_PORT_GAP, One, Block
<1>21. Nested(FLOWCTRL_PORT_GAP, 0, Pages)
  BY SMT DEF FLOWCTRL_PORT_GAP, One, Block, Low, Nested, Pages
<1>22. Sound(<<Field(Reg(FLOWCTRL_PORT_GAP, 0), 0, Pages)>>, Pages)
  BY <1>1, <1>20, <1>21, FieldSound DEF Pages
<1>23. FLOWCTRL_QUEUE_GAP.count = 1
  BY DEF FLOWCTRL_QUEUE_GAP, One, Block
<1>24. Nested(FLOWCTRL_QUEUE_GAP, 0, Pages)
  BY SMT DEF FLOWCTRL_QUEUE_GAP, One, Block, Low, Nested, Pages
<1>25. Sound(<<Field(Reg(FLOWCTRL_QUEUE_GAP, 0), 0, Pages)>>, Pages)
  BY <1>1, <1>23, <1>24, FieldSound DEF Pages
<1>26. PORT0_MISC_CFG.count = 8
  BY DEF PORT0_MISC_CFG, Block
<1>27. \A p \in 0 .. 7 : Sound(<<Flag(Reg(PORT0_MISC_CFG, p), 13)>>, 1)
  BY <1>1, <1>26, FlagSound
<1>28. \A k \in AsicFlowControlJumboMode(e) : GoodCall(k)
  <2>1. Good(To(<<Flag(Reg(FLOWCTRL_JUMBO_SIZE, 0), 2)>>, Of(e, 0, 1)))
    BY <1>3, In1, Zenon DEF Takes
  <2> QED
    BY <2>1, Puts1, CallGood, Zenon DEF AsicFlowControlJumboMode
<1>29. \A k \in AsicFlowControlJumboModeSize(e) : GoodCall(k)
  <2>1. Good(To(<<Field(Reg(FLOWCTRL_JUMBO_SIZE, 0), 0, 2)>>, Of(e, 0, 3)))
    BY <1>5, In2, Zenon DEF Takes
  <2> QED
    BY <2>1, Puts1, CallGood, Zenon DEF AsicFlowControlJumboModeSize
<1>30. \A k \in AsicFlowControlQueueEgressEnable(e) : GoodCall(k)
  <2>1. \A p \in Port, q \in Queue :
        /\ Good(To(Packed(FLOWCRTL_EGRESS_QUEUE_ENABLE_CTRL0, 16, 1, 1, 8 * p + q), Of(e, 0, 1)))
    BY <1>7, In1, IndexAssumption, Zenon DEF Takes
  <2>2. \A k \in AsicFlowControlQueueEgressEnable(e) :
          \E p \in Port, q \in Queue : k = Does(<<To(Packed(FLOWCRTL_EGRESS_QUEUE_ENABLE_CTRL0, 16, 1, 1, 8 * p + q), Of(e, 0, 1))>>)
    BY SMT DEF AsicFlowControlQueueEgressEnable
  <2> QED
    BY <2>1, <2>2, Puts1, CallGood, ZenonT(60)
<1>31. \A k \in AsicFlowControlDropAll(e) : GoodCall(k)
  <2>1. Good(To(<<Field(Reg(FLOWCTRL_CTRL0, 0), 5, Pages)>>, Of(e, 0, PageNumber - 1)))
    BY <1>10, InPages, Zenon DEF Takes
  <2> QED
    BY <2>1, Puts1, CallGood, Zenon DEF AsicFlowControlDropAll
<1>32. \A k \in AsicFlowControlPauseAllThreshold(e) : GoodCall(k)
  <2>1. Good(To(<<Field(Reg(FLOWCTRL_ALL_ON, 0), 0, Pages)>>, Of(e, 0, PageNumber - 1)))
    BY <1>13, InPages, Zenon DEF Takes
  <2> QED
    BY <2>1, Puts1, CallGood, Zenon DEF AsicFlowControlPauseAllThreshold
<1>33. \A k \in AsicEgressFlowControlQueueDropThreshold(e) : GoodCall(k)
  <2>1. \A q \in Queue :
        /\ Good(To(<<Field(Reg(FLOWCTRL_QUEUE0_DROP_ON, q), 0, Pages)>>, Of(e, 0, PageNumber - 1)))
    BY <1>16, InPages, IndexAssumption, Zenon DEF Takes
  <2> QED
    BY <2>1, Puts1, CallGood, Zenon DEF AsicEgressFlowControlQueueDropThreshold
<1>34. \A k \in AsicEgressFlowControlPortDropThreshold(e) : GoodCall(k)
  <2>1. \A p \in Port :
        /\ Good(To(<<Field(Reg(FLOWCTRL_PORT0_DROP_ON, p), 0, Pages)>>, Of(e, 0, PageNumber - 1)))
    BY <1>19, InPages, IndexAssumption, ZenonT(60) DEF Takes
  <2> QED
    BY <2>1, Puts1, CallGood, Zenon DEF AsicEgressFlowControlPortDropThreshold
<1>35. \A k \in AsicEgressFlowControlPortDropGap(e) : GoodCall(k)
  <2>1. Good(To(<<Field(Reg(FLOWCTRL_PORT_GAP, 0), 0, Pages)>>, Of(e, 0, PageNumber - 1)))
    BY <1>22, InPages, Zenon DEF Takes
  <2> QED
    BY <2>1, Puts1, CallGood, Zenon DEF AsicEgressFlowControlPortDropGap
<1>36. \A k \in AsicEgressFlowControlQueueDropGap(e) : GoodCall(k)
  <2>1. Good(To(<<Field(Reg(FLOWCTRL_QUEUE_GAP, 0), 0, Pages)>>, Of(e, 0, PageNumber - 1)))
    BY <1>25, InPages, Zenon DEF Takes
  <2> QED
    BY <2>1, Puts1, CallGood, Zenon DEF AsicEgressFlowControlQueueDropGap
<1>37. \A k \in AsicFlowControlEgressPortIndep(e) : GoodCall(k)
  <2>1. \A p \in Port : Good(To(<<Flag(Reg(PORT0_MISC_CFG, p), 13)>>, Of(e, 0, 1)))
    BY <1>27, In1, IndexAssumption, Zenon DEF Takes
  <2> QED
    BY <2>1, Puts1, CallGood, Zenon DEF AsicFlowControlEgressPortIndep
<1> QED
  BY <1>28, <1>29, <1>30, <1>31, <1>32, <1>33, <1>34, <1>35, <1>36, <1>37

(* Flow control: the thresholds.                                           *)
LEMMA ThresholdCallsGood ==
  ASSUME NEW e \in Nat
  PROVE  /\ \A k \in AsicFlowControlSystemThreshold(e) : GoodCall(k)
         /\ \A k \in AsicFlowControlSharedThreshold(e) : GoodCall(k)
         /\ \A k \in AsicFlowControlPortThreshold(e) : GoodCall(k)
         /\ \A k \in AsicFlowControlPortPrivateThreshold(e) : GoodCall(k)
         /\ \A k \in AsicFlowControlSystemDropThreshold(e) : GoodCall(k)
         /\ \A k \in AsicFlowControlSharedDropThreshold(e) : GoodCall(k)
         /\ \A k \in AsicFlowControlPortDropThreshold(e) : GoodCall(k)
         /\ \A k \in AsicFlowControlPortPrivateDropThreshold(e) : GoodCall(k)
         /\ \A k \in AsicFlowControlSystemJumboThreshold(e) : GoodCall(k)
         /\ \A k \in AsicFlowControlSharedJumboThreshold(e) : GoodCall(k)
         /\ \A k \in AsicFlowControlPortJumboThreshold(e) : GoodCall(k)
         /\ \A k \in AsicFlowControlPortPrivateJumboThreshold(e) : GoodCall(k)
<1>1. {FLOWCTRL_SYS_OFF, FLOWCTRL_SYS_ON, FLOWCTRL_SHARE_OFF, FLOWCTRL_SHARE_ON, FLOWCTRL_PORT_OFF,
   FLOWCTRL_PORT_ON, FLOWCTRL_PORT_PRIVATE_OFF, FLOWCTRL_PORT_PRIVATE_ON} \subseteq RegBlocks
  BY SMT DEF RegBlocks
<1>2. {FLOWCTRL_FCOFF_SYS_OFF, FLOWCTRL_FCOFF_SYS_ON, FLOWCTRL_FCOFF_SHARE_OFF,
   FLOWCTRL_FCOFF_SHARE_ON, FLOWCTRL_FCOFF_PORT_OFF, FLOWCTRL_FCOFF_PORT_ON,
   FLOWCTRL_FCOFF_PORT_PRIVATE_OFF, FLOWCTRL_FCOFF_PORT_PRIVATE_ON} \subseteq RegBlocks
  BY SMT DEF RegBlocks
<1>3. {FLOWCTRL_JUMBO_SYS_OFF, FLOWCTRL_JUMBO_SYS_ON, FLOWCTRL_JUMBO_SHARE_OFF,
   FLOWCTRL_JUMBO_SHARE_ON, FLOWCTRL_JUMBO_PORT_OFF, FLOWCTRL_JUMBO_PORT_ON,
   FLOWCTRL_JUMBO_PORT_PRIVATE_OFF, FLOWCTRL_JUMBO_PORT_PRIVATE_ON} \subseteq RegBlocks
  BY SMT DEF RegBlocks
<1>4. \A k \in AsicFlowControlSystemThreshold(e) : GoodCall(k)
  <2>1. /\ FLOWCTRL_SYS_OFF.count = 1 /\ Nested(FLOWCTRL_SYS_OFF, 0, Pages)
        /\ FLOWCTRL_SYS_ON.count = 1 /\ Nested(FLOWCTRL_SYS_ON, 0, Pages)
    BY SMT DEF FLOWCTRL_SYS_OFF, FLOWCTRL_SYS_ON, One, Block, Low, Nested, Pages
  <2> QED
    BY <2>1, <1>1, OffThenOnGood, Zenon DEF AsicFlowControlSystemThreshold
<1>5. \A k \in AsicFlowControlSharedThreshold(e) : GoodCall(k)
  <2>1. /\ FLOWCTRL_SHARE_OFF.count = 1 /\ Nested(FLOWCTRL_SHARE_OFF, 0, Pages)
        /\ FLOWCTRL_SHARE_ON.count = 1 /\ Nested(FLOWCTRL_SHARE_ON, 0, Pages)
    BY SMT DEF FLOWCTRL_SHARE_OFF, FLOWCTRL_SHARE_ON, One, Block, Low, Nested, Pages
  <2> QED
    BY <2>1, <1>1, OffThenOnGood, Zenon DEF AsicFlowControlSharedThreshold
<1>6. \A k \in AsicFlowControlPortThreshold(e) : GoodCall(k)
  <2>1. /\ FLOWCTRL_PORT_OFF.count = 1 /\ Nested(FLOWCTRL_PORT_OFF, 0, Pages)
        /\ FLOWCTRL_PORT_ON.count = 1 /\ Nested(FLOWCTRL_PORT_ON, 0, Pages)
    BY SMT DEF FLOWCTRL_PORT_OFF, FLOWCTRL_PORT_ON, One, Block, Low, Nested, Pages
  <2> QED
    BY <2>1, <1>1, OffThenOnGood, Zenon DEF AsicFlowControlPortThreshold
<1>7. \A k \in AsicFlowControlPortPrivateThreshold(e) : GoodCall(k)
  <2>1. /\ FLOWCTRL_PORT_PRIVATE_OFF.count = 1 /\ Nested(FLOWCTRL_PORT_PRIVATE_OFF, 0, Pages)
        /\ FLOWCTRL_PORT_PRIVATE_ON.count = 1 /\ Nested(FLOWCTRL_PORT_PRIVATE_ON, 0, Pages)
    BY SMT DEF FLOWCTRL_PORT_PRIVATE_OFF, FLOWCTRL_PORT_PRIVATE_ON, One, Block, Low, Nested, Pages
  <2> QED
    BY <2>1, <1>1, OffThenOnGood, Zenon DEF AsicFlowControlPortPrivateThreshold
<1>8. \A k \in AsicFlowControlSystemDropThreshold(e) : GoodCall(k)
  <2>1. /\ FLOWCTRL_FCOFF_SYS_OFF.count = 1 /\ Nested(FLOWCTRL_FCOFF_SYS_OFF, 0, Pages)
        /\ FLOWCTRL_FCOFF_SYS_ON.count = 1 /\ Nested(FLOWCTRL_FCOFF_SYS_ON, 0, Pages)
    BY SMT DEF FLOWCTRL_FCOFF_SYS_OFF, FLOWCTRL_FCOFF_SYS_ON, One, Block, Low, Nested, Pages
  <2> QED
    BY <2>1, <1>2, OffThenOnGood, Zenon DEF AsicFlowControlSystemDropThreshold
<1>9. \A k \in AsicFlowControlSharedDropThreshold(e) : GoodCall(k)
  <2>1. /\ FLOWCTRL_FCOFF_SHARE_OFF.count = 1 /\ Nested(FLOWCTRL_FCOFF_SHARE_OFF, 0, Pages)
        /\ FLOWCTRL_FCOFF_SHARE_ON.count = 1 /\ Nested(FLOWCTRL_FCOFF_SHARE_ON, 0, Pages)
    BY SMT DEF FLOWCTRL_FCOFF_SHARE_OFF, FLOWCTRL_FCOFF_SHARE_ON, One, Block, Low, Nested, Pages
  <2> QED
    BY <2>1, <1>2, OffThenOnGood, Zenon DEF AsicFlowControlSharedDropThreshold
<1>10. \A k \in AsicFlowControlPortDropThreshold(e) : GoodCall(k)
  <2>1. /\ FLOWCTRL_FCOFF_PORT_OFF.count = 1 /\ Nested(FLOWCTRL_FCOFF_PORT_OFF, 0, Pages)
        /\ FLOWCTRL_FCOFF_PORT_ON.count = 1 /\ Nested(FLOWCTRL_FCOFF_PORT_ON, 0, Pages)
    BY SMT DEF FLOWCTRL_FCOFF_PORT_OFF, FLOWCTRL_FCOFF_PORT_ON, One, Block, Low, Nested, Pages
  <2> QED
    BY <2>1, <1>2, OffThenOnGood, Zenon DEF AsicFlowControlPortDropThreshold
<1>11. \A k \in AsicFlowControlPortPrivateDropThreshold(e) : GoodCall(k)
  <2>1. /\ FLOWCTRL_FCOFF_PORT_PRIVATE_OFF.count = 1 /\ Nested(FLOWCTRL_FCOFF_PORT_PRIVATE_OFF, 0, Pages)
        /\ FLOWCTRL_FCOFF_PORT_PRIVATE_ON.count = 1 /\ Nested(FLOWCTRL_FCOFF_PORT_PRIVATE_ON, 0, Pages)
    BY
       SMT DEF FLOWCTRL_FCOFF_PORT_PRIVATE_OFF, FLOWCTRL_FCOFF_PORT_PRIVATE_ON, One, Block, Low, Nested, Pages
  <2> QED
    BY <2>1, <1>2, OffThenOnGood, Zenon DEF AsicFlowControlPortPrivateDropThreshold
<1>12. \A k \in AsicFlowControlSystemJumboThreshold(e) : GoodCall(k)
  <2>1. /\ FLOWCTRL_JUMBO_SYS_OFF.count = 1 /\ Nested(FLOWCTRL_JUMBO_SYS_OFF, 0, Pages)
        /\ FLOWCTRL_JUMBO_SYS_ON.count = 1 /\ Nested(FLOWCTRL_JUMBO_SYS_ON, 0, Pages)
    BY SMT DEF FLOWCTRL_JUMBO_SYS_OFF, FLOWCTRL_JUMBO_SYS_ON, One, Block, Low, Nested, Pages
  <2> QED
    BY <2>1, <1>3, OffThenOnGood, Zenon DEF AsicFlowControlSystemJumboThreshold
<1>13. \A k \in AsicFlowControlSharedJumboThreshold(e) : GoodCall(k)
  <2>1. /\ FLOWCTRL_JUMBO_SHARE_OFF.count = 1 /\ Nested(FLOWCTRL_JUMBO_SHARE_OFF, 0, Pages)
        /\ FLOWCTRL_JUMBO_SHARE_ON.count = 1 /\ Nested(FLOWCTRL_JUMBO_SHARE_ON, 0, Pages)
    BY SMT DEF FLOWCTRL_JUMBO_SHARE_OFF, FLOWCTRL_JUMBO_SHARE_ON, One, Block, Low, Nested, Pages
  <2> QED
    BY <2>1, <1>3, OffThenOnGood, Zenon DEF AsicFlowControlSharedJumboThreshold
<1>14. \A k \in AsicFlowControlPortJumboThreshold(e) : GoodCall(k)
  <2>1. /\ FLOWCTRL_JUMBO_PORT_OFF.count = 1 /\ Nested(FLOWCTRL_JUMBO_PORT_OFF, 0, Pages)
        /\ FLOWCTRL_JUMBO_PORT_ON.count = 1 /\ Nested(FLOWCTRL_JUMBO_PORT_ON, 0, Pages)
    BY SMT DEF FLOWCTRL_JUMBO_PORT_OFF, FLOWCTRL_JUMBO_PORT_ON, One, Block, Low, Nested, Pages
  <2> QED
    BY <2>1, <1>3, OffThenOnGood, Zenon DEF AsicFlowControlPortJumboThreshold
<1>15. \A k \in AsicFlowControlPortPrivateJumboThreshold(e) : GoodCall(k)
  <2>1. /\ FLOWCTRL_JUMBO_PORT_PRIVATE_OFF.count = 1 /\ Nested(FLOWCTRL_JUMBO_PORT_PRIVATE_OFF, 0, Pages)
        /\ FLOWCTRL_JUMBO_PORT_PRIVATE_ON.count = 1 /\ Nested(FLOWCTRL_JUMBO_PORT_PRIVATE_ON, 0, Pages)
    BY
       SMT DEF FLOWCTRL_JUMBO_PORT_PRIVATE_OFF, FLOWCTRL_JUMBO_PORT_PRIVATE_ON, One, Block, Low, Nested, Pages
  <2> QED
    BY <2>1, <1>3, OffThenOnGood, Zenon DEF AsicFlowControlPortPrivateJumboThreshold
<1> QED
  BY <1>4, <1>5, <1>6, <1>7, <1>8, <1>9, <1>10, <1>11, <1>12, <1>13, <1>14, <1>15

(* Queues: how many, which priority goes where, and who is served.         *)
LEMMA QueueCallsGood ==
  ASSUME NEW e \in Nat
  PROVE  /\ \A k \in QosQueueNum(e) : GoodCall(k)
         /\ \A k \in QosPriSel(e) : GoodCall(k)
         /\ \A k \in QosPriMap(e) : GoodCall(k)
         /\ \A k \in QosSchedulingQueue(e) : GoodCall(k)
<1>1. {QOS_PORT_QUEUE_NUMBER_CTRL0, QOS_INTERNAL_PRIORITY_DECISION_CTRL0, QOS_1Q_PRIORITY_TO_QID_CTRL0,
   SCHEDULE_QUEUE_TYPE_CTRL0, SCHEDULE_PORT0_QUEUE0_WFQ_WEIGHT} \subseteq RegBlocks
  BY SMT DEF RegBlocks
<1>2. Packs(QOS_PORT_QUEUE_NUMBER_CTRL0, 4, 4, 3, 7)
  BY <1>1, SMT DEF Packs, QOS_PORT_QUEUE_NUMBER_CTRL0, Block, Each, Nested
<1>3. \A port \in 0 .. 7 : Sound(AsicOutputQueueMappingIndex(port), 3)
  BY <1>2, PackedSound, Zenon DEF AsicOutputQueueMappingIndex
<1>4. Packs(QOS_INTERNAL_PRIORITY_DECISION_CTRL0, 2, 8, 8, 7)
  BY <1>1, SMT DEF Packs, QOS_INTERNAL_PRIORITY_DECISION_CTRL0, Block, Each, Nested
<1>5. \A source \in 0 .. 7 : Sound(AsicPriorityDecision(source), 8)
  BY <1>4, PackedSound, Zenon DEF AsicPriorityDecision
<1>6. Packs(QOS_1Q_PRIORITY_TO_QID_CTRL0, 4, 4, 3, 63)
  BY <1>1, SMT DEF Packs, QOS_1Q_PRIORITY_TO_QID_CTRL0, Block, Each, Nested
<1>7. \A index, pri \in 0 .. 7 : Sound(AsicPriorityToQIDMappingTable(index, pri), 3)
  <2>1. \A index, pri \in 0 .. 7 : 8 * index + pri \in 0 .. 63
    BY SMT
  <2> QED
    BY <2>1, <1>6, PackedSound, Zenon DEF AsicPriorityToQIDMappingTable
<1>8. Packs(SCHEDULE_QUEUE_TYPE_CTRL0, 16, 1, 1, 63)
  BY <1>1, SMT DEF Packs, SCHEDULE_QUEUE_TYPE_CTRL0, Block, Each, Nested
<1>9. \A port, qid \in 0 .. 7 : Sound(AsicQueueType(port, qid), 1)
  <2>1. \A port, qid \in 0 .. 7 : 8 * port + qid \in 0 .. 63
    BY SMT
  <2> QED
    BY <2>1, <1>8, PackedSound, Zenon DEF AsicQueueType
<1>10. SCHEDULE_PORT0_QUEUE0_WFQ_WEIGHT.count = 64
  BY DEF SCHEDULE_PORT0_QUEUE0_WFQ_WEIGHT, Block
<1>11. \A port, qid \in 0 .. 7 : Sound(AsicWFQWeight(port, qid), 16)
  BY <1>1, <1>10, WordSound DEF AsicWFQWeight
<1>12. \A k \in QosQueueNum(e) : GoodCall(k)
  <2> DEFINE table == Of(e, 1, 8) % 8
  <2>1. table \in 0 .. 7
    BY SMT DEF Of
  <2>2. \A p \in Port : Good(To(AsicOutputQueueMappingIndex(p), table))
    BY <2>1, <1>3, In3, IndexAssumption, Zenon DEF Takes
  <2> QED
    BY <2>2, Puts1, CallGood, Zenon DEF QosQueueNum
<1>13. \A k \in QosPriSel(e) : GoodCall(k)
  <2> DEFINE Made(pri) == ForEach(8, LAMBDA i : To(AsicPriorityDecision(i), 2 ^ pri))
             made == Made(Of(e, 0, 7))
             v == Weight(Of(e, 0, 7))
  <2>1. v \in 0 .. 255
    <3>1. \A b \in 0 .. 7 : Weight(b) \in 0 .. 255
      BY Weights, SMT
    <3>2. Of(e, 0, 7) \in 0 .. 7
      BY SMT DEF Of
    <3> QED
      BY <3>1, <3>2, Zenon
  <2> HIDE DEF v
  <2>2. made = [i \in 1 .. 8 |-> To(AsicPriorityDecision(i - 1), v)]
    BY Zenon DEF ForEach, Weight, v
  <2>3. \A i \in 1 .. 8 : i - 1 \in 0 .. 7
    BY SMT
  <2>4. \A i \in 1 .. 8 : Good(To(AsicPriorityDecision(i - 1), v))
    BY <2>1, <2>3, <1>5, In8, ZenonT(60) DEF Takes
  <2> HIDE DEF made
  <2>5. /\ made = [i \in 1 .. 8 |-> made[i]] /\ 8 \in Nat /\ Len(made) = 8
        /\ \A i \in 1 .. 8 : made[i] = To(AsicPriorityDecision(i - 1), v)
    BY <2>2, SMT
  <2>6. GoodPuts(made)
    BY <2>4, <2>5, PutsEach, Zenon
  <2>7. \A i \in 1 .. 7 : i \in 1 .. Len(made)
    BY <2>5, SMT
  <2>8. \A i \in 1 .. 7 : GoodPuts(SubSeq(made, 1, i))
    BY <2>6, <2>7, PutsBegin, Zenon
  <2>9. QosPriSel(e) = {Does(made)} \cup {GivesUp(SubSeq(made, 1, i)) : i \in 1 .. 7}
    BY Zenon DEF QosPriSel, made
  <2> QED
    BY <2>6, <2>8, <2>9, CallGood, Zenon
<1>14. \A k \in QosPriMap(e) : GoodCall(k)
  <2> DEFINE Map(n) == ForEach(8, LAMBDA i : To(AsicPriorityToQIDMappingTable(n - 1, i), Of(e, 0, 7)))
  <2>1. ASSUME NEW n \in 1 .. 8
        PROVE  GoodPuts(Map(n)) /\ \A i \in {1, 7} : GoodPuts(SubSeq(Map(n), 1, i))
    <3> DEFINE made == Map(n)
    <3>1. made = [i \in 1 .. 8 |-> To(AsicPriorityToQIDMappingTable(n - 1, i - 1), Of(e, 0, 7))]
      BY Zenon DEF ForEach
    <3>2. n - 1 \in 0 .. 7 /\ \A i \in 1 .. 8 : i - 1 \in 0 .. 7
      BY SMT
    <3>3. \A i \in 1 .. 8 : Good(To(AsicPriorityToQIDMappingTable(n - 1, i - 1), Of(e, 0, 7)))
      BY <3>2, <1>7, In3, Zenon DEF Takes
    <3> HIDE DEF made
    <3>4. /\ made = [i \in 1 .. 8 |-> made[i]] /\ 8 \in Nat
          /\ \A i \in 1 .. 8 : made[i] = To(AsicPriorityToQIDMappingTable(n - 1, i - 1), Of(e, 0, 7))
          /\ \A i \in {1, 7} : i \in 1 .. Len(made)
      BY <3>1, SMT
    <3>5. GoodPuts(made)
      BY <3>3, <3>4, PutsEach, Zenon
    <3>6. \A i \in {1, 7} : GoodPuts(SubSeq(made, 1, i))
      BY <3>4, <3>5, PutsBegin, Zenon
    <3> QED
      BY <3>5, <3>6 DEF made
  <2>2. \A n \in {1, 8} : n \in 1 .. 8
    BY SMT
  <2>3. \A k \in QosPriMap(e) :
          \/ \E n \in 1 .. 8 : k = Does(Map(n))
          \/ \E n \in {1, 8}, i \in {1, 7} : k = GivesUp(SubSeq(Map(n), 1, i))
    BY SMT DEF QosPriMap
  <2> HIDE DEF Map
  <2> QED
    BY <2>1, <2>2, <2>3, CallGood, Zenon
<1>15. \A k \in QosSchedulingQueue(e) : GoodCall(k)
  <2> DEFINE Strict(p) == ForEach(8, LAMBDA q : To(AsicQueueType(p, q), 0))
             Wfq(p, w) == ForEach(16, LAMBDA i : IF i % 2 = 0 THEN To(AsicQueueType(p, i \div 2), 1)
                                                 ELSE To(AsicWFQWeight(p, i \div 2), IF i = 1 THEN w + 1 ELSE w))
  <2>1. ASSUME NEW p \in 0 .. 7
        PROVE  GoodPuts(Strict(p))
    <3> DEFINE made == Strict(p)
    <3>1. made = [i \in 1 .. 8 |-> To(AsicQueueType(p, i - 1), 0)]
      BY Zenon DEF ForEach
    <3>2. \A i \in 1 .. 8 : i - 1 \in 0 .. 7
      BY SMT
    <3>3. \A i \in 1 .. 8 : Good(To(AsicQueueType(p, i - 1), 0))
      BY <3>2, <1>9, In1, Zenon DEF Takes
    <3> HIDE DEF made
    <3>4. /\ made = [i \in 1 .. 8 |-> made[i]] /\ 8 \in Nat
          /\ \A i \in 1 .. 8 : made[i] = To(AsicQueueType(p, i - 1), 0)
      BY <3>1, SMT
    <3>5. GoodPuts(made)
      BY <3>3, <3>4, PutsEach, Zenon
    <3> QED
      BY <3>5 DEF made
  <2>2. ASSUME NEW p \in 0 .. 7, NEW w \in 1 .. 127
        PROVE  GoodPuts(Wfq(p, w)) /\ GoodPuts(SubSeq(Wfq(p, w), 1, 3))
    <3> DEFINE made == Wfq(p, w)
               Type(i) == To(AsicQueueType(p, (i - 1) \div 2), 1)
               First(i) == To(AsicWFQWeight(p, (i - 1) \div 2), w + 1)
               Other(i) == To(AsicWFQWeight(p, (i - 1) \div 2), w)
    <3>0. w \in 0 .. RegDataMax /\ w + 1 \in 0 .. RegDataMax
      <4>1. RegDataMax \in Nat /\ 128 <= RegDataMax
        BY SMT DEF RegDataMax
      <4> QED
        BY <4>1, SMT
    <3>1. \A i \in 1 .. 16 : (i - 1) \div 2 \in 0 .. 7
      BY SMT
    <3>2. \A i \in 1 .. 16 : Good(Type(i)) /\ Good(First(i)) /\ Good(Other(i))
      BY <3>0, <3>1, <1>9, <1>11, In1, In16, Zenon DEF Takes
    <3>3. made = [i \in 1 .. 16 |-> IF (i - 1) % 2 = 0 THEN Type(i)
                                    ELSE To(AsicWFQWeight(p, (i - 1) \div 2), IF i - 1 = 1 THEN w + 1 ELSE w)]
      BY Zenon DEF ForEach
    <3>4. /\ made = [i \in 1 .. 16 |-> made[i]]
          /\ \A i \in 1 .. 16 : made[i] \in {Type(i), First(i), Other(i)}
      <4> HIDE DEF made
      <4>1. \A i \in 1 .. 16 : made[i] = IF (i - 1) % 2 = 0 THEN Type(i)
                                    ELSE To(AsicWFQWeight(p, (i - 1) \div 2), IF i - 1 = 1 THEN w + 1 ELSE w)
        BY <3>3, Zenon
      <4>2. made = [i \in 1 .. 16 |-> made[i]]
        BY <3>3, Zenon
      <4> QED
        BY <4>1, <4>2, Zenon
    <3> HIDE DEF made, Type, First, Other
    <3>5. 16 \in Nat /\ 3 \in 1 .. Len(made)
      BY <3>4, SMT
    <3>6. GoodPuts(made)
      BY <3>2, <3>4, <3>5, PutsEach, ZenonT(60)
    <3>7. GoodPuts(SubSeq(made, 1, 3))
      BY <3>5, <3>6, PutsBegin, Zenon
    <3> QED
      BY <3>6, <3>7 DEF made
  <2>3. Of(e, 1, 127) \in 1 .. 127 /\ 127 \in 1 .. 127
    BY SMT DEF Of
  <2>4. QosSchedulingQueue(e) =
          UNION {{Does(Strict(p)), Does(Wfq(p, Of(e, 1, 127))), GivesUp(SubSeq(Wfq(p, 127), 1, 3))} : p \in Port}
    BY Zenon DEF QosSchedulingQueue
  <2> HIDE DEF Strict, Wfq
  <2>5. \A k \in QosSchedulingQueue(e) :
          \E p \in Port : k \in {Does(Strict(p)), Does(Wfq(p, Of(e, 1, 127))), GivesUp(SubSeq(Wfq(p, 127), 1, 3))}
    BY <2>4, ZenonT(60)
  <2>6. \A p \in Port :
          GoodCall(Does(Strict(p))) /\ GoodCall(Does(Wfq(p, Of(e, 1, 127)))) /\ GoodCall(GivesUp(SubSeq(Wfq(p, 127), 1, 3)))
    BY <2>1, <2>2, <2>3, IndexAssumption, CallGood, ZenonT(60)
  <2> QED
    BY <2>5, <2>6, SMT
<1> QED
  BY <1>12, <1>13, <1>14, <1>15

(* The tables rtk_qos_init writes.                                         *)
LEMMA QosInitGood ==
  ASSUME NEW e \in Nat
  PROVE  /\ \A k \in QosInit(e) : GoodCall(k)
<1>1. {QOS_1Q_PRIORITY_REMAPPING_CTRL0, QOS_1Q_REMARK_CTRL0, QOS_DSCP_REMARK_CTRL0,
   QOS_PORT_QUEUE_NUMBER_CTRL0, QOS_1Q_PRIORITY_TO_QID_CTRL0, FLOWCTRL_CTRL0,
   QOS_INTERNAL_PRIORITY_DECISION_CTRL0, QOS_PORTBASED_PRIORITY_CTRL0, PORT0_MISC_CFG, SWITCH_CTRL0,
   QOS_DSCP_TO_PRIORITY_CTRL0} \subseteq RegBlocks
  BY SMT DEF RegBlocks
<1>2. Packs(QOS_1Q_PRIORITY_REMAPPING_CTRL0, 4, 4, 3, 7)
  BY <1>1, SMT DEF Packs, QOS_1Q_PRIORITY_REMAPPING_CTRL0, Block, Each, Nested
<1>3. \A pri \in 0 .. 7 : Sound(AsicPriorityDot1qRemapping(pri), 3)
  BY <1>2, PackedSound, Zenon DEF AsicPriorityDot1qRemapping
<1>4. Packs(QOS_1Q_REMARK_CTRL0, 4, 4, 3, 7)
  BY <1>1, SMT DEF Packs, QOS_1Q_REMARK_CTRL0, Block, Each, Nested
<1>5. \A pri \in 0 .. 7 : Sound(AsicRemarkingDot1pParameter(pri), 3)
  BY <1>4, PackedSound, Zenon DEF AsicRemarkingDot1pParameter
<1>6. Packs(QOS_DSCP_REMARK_CTRL0, 2, 8, 6, 7)
  BY <1>1, SMT DEF Packs, QOS_DSCP_REMARK_CTRL0, Block, Each, Nested
<1>7. \A pri \in 0 .. 7 : Sound(AsicRemarkingDscpParameter(pri), 6)
  BY <1>6, PackedSound, Zenon DEF AsicRemarkingDscpParameter
<1>8. Packs(QOS_PORT_QUEUE_NUMBER_CTRL0, 4, 4, 3, 7)
  BY <1>1, SMT DEF Packs, QOS_PORT_QUEUE_NUMBER_CTRL0, Block, Each, Nested
<1>9. \A port \in 0 .. 7 : Sound(AsicOutputQueueMappingIndex(port), 3)
  BY <1>8, PackedSound, Zenon DEF AsicOutputQueueMappingIndex
<1>10. Packs(QOS_1Q_PRIORITY_TO_QID_CTRL0, 4, 4, 3, 63)
  BY <1>1, SMT DEF Packs, QOS_1Q_PRIORITY_TO_QID_CTRL0, Block, Each, Nested
<1>11. \A index, pri \in 0 .. 7 : Sound(AsicPriorityToQIDMappingTable(index, pri), 3)
  <2>1. \A index, pri \in 0 .. 7 : 8 * index + pri \in 0 .. 63
    BY SMT
  <2> QED
    BY <2>1, <1>10, PackedSound, Zenon DEF AsicPriorityToQIDMappingTable
<1>12. FLOWCTRL_CTRL0.count = 1
  BY DEF FLOWCTRL_CTRL0, One, Block
<1>13. Sound(AsicFlowControlSelect, 1)
  BY <1>1, <1>12, FlagSound DEF AsicFlowControlSelect
<1>14. Packs(QOS_INTERNAL_PRIORITY_DECISION_CTRL0, 2, 8, 8, 7)
  BY <1>1, SMT DEF Packs, QOS_INTERNAL_PRIORITY_DECISION_CTRL0, Block, Each, Nested
<1>15. \A source \in 0 .. 7 : Sound(AsicPriorityDecision(source), 8)
  BY <1>14, PackedSound, Zenon DEF AsicPriorityDecision
<1>16. Packs(QOS_PORTBASED_PRIORITY_CTRL0, 4, 4, 3, 7)
  BY <1>1, SMT DEF Packs, QOS_PORTBASED_PRIORITY_CTRL0, Block, Each, Nested
<1>17. \A port \in 0 .. 7 : Sound(AsicPriorityPortBased(port), 3)
  BY <1>16, PackedSound, Zenon DEF AsicPriorityPortBased
<1>18. PORT0_MISC_CFG.count = 8
  BY DEF PORT0_MISC_CFG, Block
<1>19. \A port \in 0 .. 7 : Sound(AsicRemarkingDot1pAbility(port), 1)
  BY <1>1, <1>18, FlagSound DEF AsicRemarkingDot1pAbility
<1>20. SWITCH_CTRL0.count = 1
  BY DEF SWITCH_CTRL0, One, Block
<1>21. Sound(AsicRemarkingDscpAbility, 1)
  BY <1>1, <1>20, FlagSound DEF AsicRemarkingDscpAbility
<1>22. Packs(QOS_DSCP_TO_PRIORITY_CTRL0, 4, 4, 3, 63)
  BY <1>1, SMT DEF Packs, QOS_DSCP_TO_PRIORITY_CTRL0, Block, Each, Nested
<1>23. \A dscp \in 0 .. 63 : Sound(AsicPriorityDscpBased(dscp), 3)
  BY <1>22, PackedSound, Zenon DEF AsicPriorityDscpBased
<1>24. \A k \in QosInit(e) : GoodCall(k)
  <2> DEFINE table == Of(e, 1, 8) % 8
  <2>1. table \in 0 .. 7
    BY SMT DEF Of
  <2> HIDE DEF table
  <2> DEFINE Outputs == ForEach(8, LAMBDA p : To(AsicOutputQueueMappingIndex(p), table))
  <2>2. GoodPuts(Outputs)
    <3>1. Outputs = [i \in 1 .. 8 |-> To(AsicOutputQueueMappingIndex(i - 1), table)]
      BY Zenon DEF ForEach
    <3>2. 8 \in Nat /\ \A i \in 1 .. 8 : i - 1 \in 0 .. 7
      BY SMT
    <3>3. \A i \in 1 .. 8 : Good(To(AsicOutputQueueMappingIndex(i - 1), table))
      BY <3>2, <2>1, <1>9, In3, Zenon DEF Takes
    <3> HIDE DEF Outputs
    <3>4. /\ Outputs = [i \in 1 .. 8 |-> Outputs[i]]
          /\ \A i \in 1 .. 8 : Outputs[i] = To(AsicOutputQueueMappingIndex(i - 1), table)
      BY <3>1, Zenon
    <3> QED
      BY <3>2, <3>3, <3>4, PutsEach, Zenon
  <2> HIDE DEF Outputs
  <2> DEFINE Queues == ForEach(7, LAMBDA i : To(AsicPriorityToQIDMappingTable(table, i), QosQid[table + 1][i + 1]))
  <2>3. GoodPuts(Queues)
    <3>1. Queues = [i \in 1 .. 7 |-> To(AsicPriorityToQIDMappingTable(table, i - 1), QosQid[table + 1][i - 1 + 1])]
      BY Zenon DEF ForEach
    <3>2. 7 \in Nat /\ \A i \in 1 .. 7 : i - 1 \in 0 .. 7
      BY SMT
    <3>3. \A i \in 1 .. 7 : QosQid[table + 1][(i - 1) + 1] \in 0 .. 7
      BY <2>1, SMT DEF QosQid
    <3>4. \A i \in 1 .. 7 : Good(To(AsicPriorityToQIDMappingTable(table, i - 1), QosQid[table + 1][i - 1 + 1]))
      BY <3>3, <3>2, <2>1, <1>11, In3, Zenon DEF Takes
    <3> HIDE DEF Queues
    <3>5. /\ Queues = [i \in 1 .. 7 |-> Queues[i]]
          /\ \A i \in 1 .. 7 : Queues[i] = To(AsicPriorityToQIDMappingTable(table, i - 1), QosQid[table + 1][i - 1 + 1])
      BY <3>1, Zenon
    <3> QED
      BY <3>2, <3>4, <3>5, PutsEach, Zenon
  <2> HIDE DEF Queues
  <2> DEFINE Decisions == ForEach(8, LAMBDA i : To(AsicPriorityDecision(i), QosDecision[i + 1]))
  <2>4. GoodPuts(Decisions)
    <3>1. Decisions = [i \in 1 .. 8 |-> To(AsicPriorityDecision(i - 1), QosDecision[i - 1 + 1])]
      BY Zenon DEF ForEach
    <3>2. 8 \in Nat /\ \A i \in 1 .. 8 : i - 1 \in 0 .. 7
      BY SMT
    <3>3. \A i \in 1 .. 8 : QosDecision[(i - 1) + 1] \in 0 .. 255
      BY SMT DEF QosDecision
    <3>4. \A i \in 1 .. 8 : Good(To(AsicPriorityDecision(i - 1), QosDecision[i - 1 + 1]))
      BY <3>3, <3>2, <1>15, In8, ZenonT(60) DEF Takes
    <3> HIDE DEF Decisions
    <3>5. /\ Decisions = [i \in 1 .. 8 |-> Decisions[i]]
          /\ \A i \in 1 .. 8 : Decisions[i] = To(AsicPriorityDecision(i - 1), QosDecision[i - 1 + 1])
      BY <3>1, Zenon
    <3> QED
      BY <3>2, <3>4, <3>5, PutsEach, Zenon
  <2> HIDE DEF Decisions
  <2> DEFINE Ports == ForEach(8, LAMBDA p : To(AsicPriorityPortBased(p), 0))
  <2>5. GoodPuts(Ports)
    <3>1. Ports = [i \in 1 .. 8 |-> To(AsicPriorityPortBased(i - 1), 0)]
      BY Zenon DEF ForEach
    <3>2. 8 \in Nat /\ \A i \in 1 .. 8 : i - 1 \in 0 .. 7
      BY SMT
    <3>3. \A i \in 1 .. 8 : Good(To(AsicPriorityPortBased(i - 1), 0))
      BY <3>2, <1>17, In3, Zenon DEF Takes
    <3> HIDE DEF Ports
    <3>4. /\ Ports = [i \in 1 .. 8 |-> Ports[i]]
          /\ \A i \in 1 .. 8 : Ports[i] = To(AsicPriorityPortBased(i - 1), 0)
      BY <3>1, Zenon
    <3> QED
      BY <3>2, <3>3, <3>4, PutsEach, Zenon
  <2> HIDE DEF Ports
  <2> DEFINE Remarks == ForEach(8, LAMBDA p : To(AsicRemarkingDot1pAbility(p), 0))
  <2>6. GoodPuts(Remarks)
    <3>1. Remarks = [i \in 1 .. 8 |-> To(AsicRemarkingDot1pAbility(i - 1), 0)]
      BY Zenon DEF ForEach
    <3>2. 8 \in Nat /\ \A i \in 1 .. 8 : i - 1 \in 0 .. 7
      BY SMT
    <3>3. \A i \in 1 .. 8 : Good(To(AsicRemarkingDot1pAbility(i - 1), 0))
      BY <3>2, <1>19, In1, Zenon DEF Takes
    <3> HIDE DEF Remarks
    <3>4. /\ Remarks = [i \in 1 .. 8 |-> Remarks[i]]
          /\ \A i \in 1 .. 8 : Remarks[i] = To(AsicRemarkingDot1pAbility(i - 1), 0)
      BY <3>1, Zenon
    <3> QED
      BY <3>2, <3>3, <3>4, PutsEach, Zenon
  <2> HIDE DEF Remarks
  <2> DEFINE Dscps == ForEach(63, LAMBDA d : To(AsicPriorityDscpBased(d), 0))
  <2>7. GoodPuts(Dscps)
    <3>1. Dscps = [i \in 1 .. 63 |-> To(AsicPriorityDscpBased(i - 1), 0)]
      BY Zenon DEF ForEach
    <3>2. 63 \in Nat /\ \A i \in 1 .. 63 : i - 1 \in 0 .. 63
      BY SMT
    <3>3. \A i \in 1 .. 63 : Good(To(AsicPriorityDscpBased(i - 1), 0))
      BY <3>2, <1>23, In3, Zenon DEF Takes
    <3> HIDE DEF Dscps
    <3>4. /\ Dscps = [i \in 1 .. 63 |-> Dscps[i]]
          /\ \A i \in 1 .. 63 : Dscps[i] = To(AsicPriorityDscpBased(i - 1), 0)
      BY <3>1, Zenon
    <3> QED
      BY <3>2, <3>3, <3>4, PutsEach, Zenon
  <2> HIDE DEF Dscps
  <2> DEFINE Remap(pri) == <<To(AsicPriorityDot1qRemapping(pri), pri),
                             To(AsicRemarkingDot1pParameter(pri), 0),
                             To(AsicRemarkingDscpParameter(pri), 0)>>
             Remaps == ForEach(21, LAMBDA i : Remap(i \div 3)[1 + (i % 3)])
  <2>8. GoodPuts(Remaps)
    <3>1. Remaps = [i \in 1 .. 21 |-> Remap((i - 1) \div 3)[1 + ((i - 1) % 3)]]
      BY Zenon DEF ForEach
    <3>2. 21 \in Nat /\ \A i \in 1 .. 21 : (i - 1) \div 3 \in 0 .. 7 /\ 1 + ((i - 1) % 3) \in {1, 2, 3}
      BY SMT
    <3>3. ASSUME NEW pri \in 0 .. 7
          PROVE  Good(Remap(pri)[1]) /\ Good(Remap(pri)[2]) /\ Good(Remap(pri)[3])
      <4>1. /\ Good(To(AsicPriorityDot1qRemapping(pri), pri))
            /\ Good(To(AsicRemarkingDot1pParameter(pri), 0))
            /\ Good(To(AsicRemarkingDscpParameter(pri), 0))
        BY <1>3, <1>5, <1>7,
           In3, In6, Zenon DEF Takes
      <4> QED
        BY <4>1
    <3> HIDE DEF Remap
    <3>4. \A i \in 1 .. 21 : Good(Remap((i - 1) \div 3)[1 + ((i - 1) % 3)])
      BY <3>2, <3>3, Zenon
    <3> HIDE DEF Remaps
    <3>5. /\ Remaps = [i \in 1 .. 21 |-> Remaps[i]]
          /\ \A i \in 1 .. 21 : Remaps[i] = Remap((i - 1) \div 3)[1 + ((i - 1) % 3)]
      BY <3>1, Zenon
    <3> QED
      BY <3>2, <3>4, <3>5, PutsEach, Zenon
  <2>9. GoodPuts(<<To(AsicFlowControlSelect, 1)>>) /\ GoodPuts(<<To(AsicRemarkingDscpAbility, 0)>>)
    BY <1>13, <1>21, In1, Puts1, Zenon DEF Takes
  <2>10. QosInit(e) =
          {Does(Outputs \o Queues \o <<To(AsicFlowControlSelect, 1)>> \o Decisions \o Ports \o Remarks
                \o <<To(AsicRemarkingDscpAbility, 0)>> \o Remaps \o Dscps)}
    BY Zenon DEF QosInit, table, Outputs, Queues, Decisions, Ports, Remarks, Remaps, Remap, Dscps
  <2> HIDE DEF Remaps
  <2>11. GoodPuts(Outputs \o Queues \o <<To(AsicFlowControlSelect, 1)>> \o Decisions \o Ports \o Remarks
                \o <<To(AsicRemarkingDscpAbility, 0)>> \o Remaps \o Dscps)
    BY <2>2, <2>3, <2>4, <2>5, <2>6, <2>7, <2>8, <2>9, PutsJoin, Zenon
  <2> QED
    BY <2>10, <2>11, CallGood, Zenon
<1> QED
  BY <1>24

(* Storm control: the filters of a port and their meters.                  *)
LEMMA StormCallsGood ==
  ASSUME NEW e \in Nat
  PROVE  /\ \A k \in StormControlRate(e) : GoodCall(k)
<1>1. {STORM_UNKOWN_UCAST, STORM_UNDA_METER_CTRL0, STORM_UNKOWN_MCAST, STORM_UNMC_METER_CTRL0,
   STORM_MCAST, STORM_MCAST_METER_CTRL0, STORM_BCAST, STORM_BCAST_METER_CTRL0, METER0_RATE_CTRL0,
   METER0_RATE_CTRL1, METER_IFG_CTRL0} \subseteq RegBlocks
  BY SMT DEF RegBlocks
<1>2. STORM_UNKOWN_UCAST.count = 1
  BY DEF STORM_UNKOWN_UCAST, One, Block
<1>3. \A port \in 0 .. 7 : Sound(AsicStormFilterUnknownUnicastEnable(port), 1)
  BY <1>1, <1>2, FlagSound DEF AsicStormFilterUnknownUnicastEnable
<1>4. Packs(STORM_UNDA_METER_CTRL0, 2, 8, 8, 7)
  BY <1>1, SMT DEF Packs, STORM_UNDA_METER_CTRL0, Block, Each, Nested
<1>5. \A port \in 0 .. 7 : Sound(AsicStormFilterUnknownUnicastMeter(port), 8)
  BY <1>4, PackedSound, Zenon DEF AsicStormFilterUnknownUnicastMeter
<1>6. STORM_UNKOWN_MCAST.count = 1
  BY DEF STORM_UNKOWN_MCAST, One, Block
<1>7. \A port \in 0 .. 7 : Sound(AsicStormFilterUnknownMulticastEnable(port), 1)
  BY <1>1, <1>6, FlagSound DEF AsicStormFilterUnknownMulticastEnable
<1>8. Packs(STORM_UNMC_METER_CTRL0, 2, 8, 8, 7)
  BY <1>1, SMT DEF Packs, STORM_UNMC_METER_CTRL0, Block, Each, Nested
<1>9. \A port \in 0 .. 7 : Sound(AsicStormFilterUnknownMulticastMeter(port), 8)
  BY <1>8, PackedSound, Zenon DEF AsicStormFilterUnknownMulticastMeter
<1>10. STORM_MCAST.count = 1
  BY DEF STORM_MCAST, One, Block
<1>11. \A port \in 0 .. 7 : Sound(AsicStormFilterMulticastEnable(port), 1)
  BY <1>1, <1>10, FlagSound DEF AsicStormFilterMulticastEnable
<1>12. Packs(STORM_MCAST_METER_CTRL0, 2, 8, 8, 7)
  BY <1>1, SMT DEF Packs, STORM_MCAST_METER_CTRL0, Block, Each, Nested
<1>13. \A port \in 0 .. 7 : Sound(AsicStormFilterMulticastMeter(port), 8)
  BY <1>12, PackedSound, Zenon DEF AsicStormFilterMulticastMeter
<1>14. STORM_BCAST.count = 1
  BY DEF STORM_BCAST, One, Block
<1>15. \A port \in 0 .. 7 : Sound(AsicStormFilterBroadcastEnable(port), 1)
  BY <1>1, <1>14, FlagSound DEF AsicStormFilterBroadcastEnable
<1>16. Packs(STORM_BCAST_METER_CTRL0, 2, 8, 8, 7)
  BY <1>1, SMT DEF Packs, STORM_BCAST_METER_CTRL0, Block, Each, Nested
<1>17. \A port \in 0 .. 7 : Sound(AsicStormFilterBroadcastMeter(port), 8)
  BY <1>16, PackedSound, Zenon DEF AsicStormFilterBroadcastMeter
<1>18. METER0_RATE_CTRL0.count = 32
  BY DEF METER0_RATE_CTRL0, Block
<1>19. METER0_RATE_CTRL1.count = 32
  BY DEF METER0_RATE_CTRL1, Block
<1>20. \A meter \in 0 .. 31 : Sound(AsicShareMeterRate(meter), 17)
  <2>1. \A meter \in 0 .. 31 : Cell(Word(Reg(METER0_RATE_CTRL0, meter)), 0, 15)
    BY <1>1, <1>18, WordCell
  <2>2. \A meter \in 0 .. 31 : Cell(From(16, Word(Reg(METER0_RATE_CTRL1, meter))), 16, 16 + 15)
    BY <1>1, <1>19, WordFrom
  <2>3. 0 .. 17 - 1 \subseteq (0 .. 15) \cup (16 .. 16 + 15)
    BY SMT
  <2> QED
    BY <2>1, <2>2, <2>3, TwoCells, Zenon DEF AsicShareMeterRate
<1>21. Packs(METER_IFG_CTRL0, 16, 1, 1, 31)
  BY <1>1, SMT DEF Packs, METER_IFG_CTRL0, Block, Each, Nested
<1>22. \A meter \in 0 .. 31 : Sound(AsicShareMeterIfg(meter), 1)
  BY <1>21, PackedSound, Zenon DEF AsicShareMeterIfg
<1>23. \A k \in StormControlRate(e) : GoodCall(k)
  <2>1. \A p \in Port : \A f \in StormFilters(p) :
          Sound(f.enable, 1) /\ Sound(f.meter, 8) /\ f.shared \in 28 .. 31
    <3>1. ASSUME NEW p \in Port, NEW f \in StormFilters(p)
          PROVE  Sound(f.enable, 1) /\ Sound(f.meter, 8) /\ f.shared \in 28 .. 31
      <4>1. /\ Sound(AsicStormFilterUnknownUnicastEnable(p), 1) /\ Sound(AsicStormFilterUnknownUnicastMeter(p), 8)
            /\ Sound(AsicStormFilterUnknownMulticastEnable(p), 1) /\ Sound(AsicStormFilterUnknownMulticastMeter(p), 8)
            /\ Sound(AsicStormFilterMulticastEnable(p), 1) /\ Sound(AsicStormFilterMulticastMeter(p), 8)
            /\ Sound(AsicStormFilterBroadcastEnable(p), 1) /\ Sound(AsicStormFilterBroadcastMeter(p), 8)
        BY IndexAssumption, <1>3, <1>5, <1>7, <1>9,
           <1>11, <1>13, <1>15, <1>17, Zenon
      <4>2. 28 \in 28 .. 31 /\ 29 \in 28 .. 31 /\ 30 \in 28 .. 31 /\ 31 \in 28 .. 31
        BY SMT
      <4> QED
        BY <4>1, <4>2, SMT DEF StormFilters
    <3> QED
      BY <3>1
  <2> DEFINE top == RateMax - 8
             v == Of(e, RateMin, top)
  <2>2. v \div 8 \in 0 .. RateMax \div 8
    <3>1. RateMin \in Nat /\ top \in Nat /\ RateMin <= top /\ RateMax \in Nat /\ top <= RateMax
      BY SMT DEF RateMin, RateMax
    <3> HIDE DEF top
    <3>2. v \in RateMin .. top
      BY <3>1, OfRange, Zenon
    <3> HIDE DEF v
    <3> QED
      BY <3>1, <3>2, SMT
  <2>3. \A n \in 28 .. 31 : n \in 0 .. 31 /\ n \in 0 .. 255
    BY SMT
  <2>4. Of(e, 0, 31) \in 0 .. 255
    BY SMT DEF Of
  <2> HIDE DEF v
  <2>5. ASSUME NEW p \in Port, NEW f \in StormFilters(p)
        PROVE  /\ GoodPuts(<<To(f.enable, 1), To(f.meter, f.shared)>> \o
                           <<To(AsicShareMeterRate(f.shared), v \div 8), To(AsicShareMeterIfg(f.shared), Of(e, 0, 1))>>)
               /\ GoodPuts(<<To(f.enable, 0)>>)
               /\ GoodPuts(<<To(f.enable, Of(e, 0, 1)), To(f.meter, Of(e, 0, 31))>>)
    <3>1. Sound(f.enable, 1) /\ Sound(f.meter, 8) /\ f.shared \in 0 .. 31 /\ f.shared \in 0 .. 255
      BY <2>1, <2>3, ZenonT(60)
    <3>2. Good(To(f.enable, 0)) /\ Good(To(f.enable, 1)) /\ Good(To(f.enable, Of(e, 0, 1)))
      BY <3>1, In1, Zenon DEF Takes
    <3>3. Good(To(f.meter, f.shared)) /\ Good(To(f.meter, Of(e, 0, 31)))
      BY <3>1, <2>4, In8, ZenonT(60) DEF Takes
    <3>4. Good(To(AsicShareMeterRate(f.shared), v \div 8)) /\ Good(To(AsicShareMeterIfg(f.shared), Of(e, 0, 1)))
      BY <2>2, <3>1, <1>20, <1>22, In1, In17, Zenon DEF Takes
    <3> QED
      BY <3>2, <3>3, <3>4, Puts1, Puts2, PutsJoin, Zenon
  <2> DEFINE Of3(f) == {Does(<<To(f.enable, 1), To(f.meter, f.shared)>> \o
                             <<To(AsicShareMeterRate(f.shared), v \div 8), To(AsicShareMeterIfg(f.shared), Of(e, 0, 1))>>),
                        Does(<<To(f.enable, 0)>>),
                        Does(<<To(f.enable, Of(e, 0, 1)), To(f.meter, Of(e, 0, 31))>>)}
  <2>6. StormControlRate(e) = UNION {Of3(f) : f \in UNION {StormFilters(p) : p \in Port}}
    BY Zenon DEF StormControlRate, ShareMeter, v
  <2>7. \A p \in Port : \A f \in StormFilters(p) : \A k \in Of3(f) : GoodCall(k)
    BY <2>5, CallGood, Zenon
  <2> HIDE DEF Of3
  <2> QED
    BY <2>6, <2>7, Zenon
<1> QED
  BY <1>23

(* All calls of QosSettings.                                               *)
LEMMA QosCallsGood ==
  ASSUME NEW e \in Nat
  PROVE  \A k \in QosCalls(e) : GoodCall(k)
<1> SUFFICES ASSUME NEW k \in QosCalls(e)
             PROVE  GoodCall(k)
  BY Zenon
<1>1. k \in UNION {
        RateShareMeter(e), RateShareMeterBucket(e), RateIgrBandwidthCtrlRate(e),
           RateEgrBandwidthCtrlRate(e), RateEgrQueueBwCtrlEnable(e), RateEgrQueueBwCtrlRate(e),
           RateDriver(e), QosInit(e), QosPriSel(e), Qos1pPriRemap(e), QosDscpPriRemap(e),
           QosPortPri(e), QosQueueNum(e), QosPriMap(e), QosSchedulingQueue(e), Qos1pRemarkEnable(e),
           Qos1pRemark(e), QosDscpRemarkEnable(e), QosDscpRemark(e), StormControlRate(e),
           AsicFlowControlJumboMode(e), AsicFlowControlJumboModeSize(e),
           AsicFlowControlQueueEgressEnable(e), AsicFlowControlDropAll(e),
           AsicFlowControlPauseAllThreshold(e), AsicFlowControlSystemThreshold(e),
           AsicFlowControlSharedThreshold(e), AsicFlowControlPortThreshold(e),
           AsicFlowControlPortPrivateThreshold(e), AsicFlowControlSystemDropThreshold(e),
           AsicFlowControlSharedDropThreshold(e), AsicFlowControlPortDropThreshold(e),
           AsicFlowControlPortPrivateDropThreshold(e), AsicFlowControlSystemJumboThreshold(e),
           AsicFlowControlSharedJumboThreshold(e), AsicFlowControlPortJumboThreshold(e),
           AsicFlowControlPortPrivateJumboThreshold(e), AsicEgressFlowControlQueueDropThreshold(e),
           AsicEgressFlowControlPortDropThreshold(e), AsicEgressFlowControlPortDropGap(e),
           AsicEgressFlowControlQueueDropGap(e), AsicFlowControlEgressPortIndep(e)}
  BY Zenon DEF QosCalls
<1>2. \/ k \in RateShareMeter(e)
      \/ k \in RateShareMeterBucket(e)
      \/ k \in RateIgrBandwidthCtrlRate(e)
      \/ k \in RateEgrBandwidthCtrlRate(e)
      \/ k \in RateEgrQueueBwCtrlEnable(e)
      \/ k \in RateEgrQueueBwCtrlRate(e)
      \/ k \in RateDriver(e)
      \/ k \in QosInit(e)
      \/ k \in QosPriSel(e)
      \/ k \in Qos1pPriRemap(e)
      \/ k \in QosDscpPriRemap(e)
      \/ k \in QosPortPri(e)
      \/ k \in QosQueueNum(e)
      \/ k \in QosPriMap(e)
      \/ k \in QosSchedulingQueue(e)
      \/ k \in Qos1pRemarkEnable(e)
      \/ k \in Qos1pRemark(e)
      \/ k \in QosDscpRemarkEnable(e)
      \/ k \in QosDscpRemark(e)
      \/ k \in StormControlRate(e)
      \/ k \in AsicFlowControlJumboMode(e)
      \/ k \in AsicFlowControlJumboModeSize(e)
      \/ k \in AsicFlowControlQueueEgressEnable(e)
      \/ k \in AsicFlowControlDropAll(e)
      \/ k \in AsicFlowControlPauseAllThreshold(e)
      \/ k \in AsicFlowControlSystemThreshold(e)
      \/ k \in AsicFlowControlSharedThreshold(e)
      \/ k \in AsicFlowControlPortThreshold(e)
      \/ k \in AsicFlowControlPortPrivateThreshold(e)
      \/ k \in AsicFlowControlSystemDropThreshold(e)
      \/ k \in AsicFlowControlSharedDropThreshold(e)
      \/ k \in AsicFlowControlPortDropThreshold(e)
      \/ k \in AsicFlowControlPortPrivateDropThreshold(e)
      \/ k \in AsicFlowControlSystemJumboThreshold(e)
      \/ k \in AsicFlowControlSharedJumboThreshold(e)
      \/ k \in AsicFlowControlPortJumboThreshold(e)
      \/ k \in AsicFlowControlPortPrivateJumboThreshold(e)
      \/ k \in AsicEgressFlowControlQueueDropThreshold(e)
      \/ k \in AsicEgressFlowControlPortDropThreshold(e)
      \/ k \in AsicEgressFlowControlPortDropGap(e)
      \/ k \in AsicEgressFlowControlQueueDropGap(e)
      \/ k \in AsicFlowControlEgressPortIndep(e)
  BY <1>1, SMT
<1> QED
  BY <1>2, RateCallsGood, PriorityCallsGood, FlowControlCallsGood, ThresholdCallsGood, QueueCallsGood,
     QosInitGood, StormCallsGood, Zenon

-----------------------------------------------------------------------------
(* Traps (TrapSettings).                                                   *)

LEMMA ReservedCallsGood ==
  ASSUME NEW e \in Nat
  PROVE  /\ \A k \in TrapRmaAction(e) : GoodCall(k)
         /\ \A k \in Dot1xEapolFrame2CpuEnable(e) : GoodCall(k)
         /\ \A k \in StormBypass(e) : GoodCall(k)
         /\ \A k \in LeakyVlan(e) : GoodCall(k)
         /\ \A k \in LeakyPortIsolation(e) : GoodCall(k)
         /\ \A k \in TrapUnknownMcastPktAction(e) : GoodCall(k)
         /\ \A k \in TrapEthernetAv(e) : GoodCall(k)
<1>1. {RMA_CTRL00, IGMP_MLD_CFG0, IPMCAST_VLAN_LEAKY, IPMCAST_PORTISO_LEAKY,
   UNKNOWN_L2_MULTICAST_CTRL0, UNKNOWN_IPV4_MULTICAST_CTRL0, UNKNOWN_IPV6_MULTICAST_CTRL0, EAV_CTRL0} \subseteq RegBlocks
  BY SMT DEF RegBlocks
<1>2. RMA_CTRL00.count = 35
  BY DEF RMA_CTRL00, Block
<1>3. \A octet \in 0 .. 47 : RmaClass(octet) \in 0 .. RMA_CTRL00.count - 1
  BY <1>2, SMT DEF RmaClass
<1>4. Sound(RmaTrapPriority, 3)
  <2>1. Nested(RMA_CTRL00, 3, 3) /\ 0 \in 0 .. 47
    BY SMT DEF RMA_CTRL00, Block, Nested
  <2>2. 3 \in Int /\ 3 \in Nat
    BY SMT
  <2> QED
    BY <2>1, <2>2, <1>3, <1>1, FieldSound, Zenon DEF RmaTrapPriority, AsicRma
<1>5. \A octet \in 0 .. 47 : Sound(RmaOperation(octet), 2)
  <2>1. Nested(RMA_CTRL00, 7, 2)
    BY SMT DEF RMA_CTRL00, Block, Nested
  <2>2. 7 \in Int /\ 2 \in Nat
    BY SMT
  <2> QED
    BY <2>1, <2>2, <1>3, <1>1, FieldSound, Zenon DEF RmaOperation, AsicRma
<1>6. \A octet \in 0 .. 47 : Sound(RmaStormFilter(octet), 1)
  <2>1. Nested(RMA_CTRL00, 6, 1)
    BY SMT DEF RMA_CTRL00, Block, Nested
  <2>2. 6 \in Int /\ 1 \in Nat
    BY SMT
  <2> QED
    BY <2>1, <2>2, <1>3, <1>1, FieldSound, Zenon DEF RmaStormFilter, AsicRma
<1>7. IGMP_MLD_CFG0.count = 1
  BY DEF IGMP_MLD_CFG0, One, Block
<1>8. Sound(AsicIGMPBypassStormCTRL, 1)
  BY <1>1, <1>7, FlagSound DEF AsicIGMPBypassStormCTRL
<1>9. \A octet \in 0 .. 47 : Sound(RmaVlanLeaky(octet), 1)
  <2>1. Nested(RMA_CTRL00, 1, 1)
    BY SMT DEF RMA_CTRL00, Block, Nested
  <2>2. 1 \in Int /\ 1 \in Nat
    BY SMT
  <2> QED
    BY <2>1, <2>2, <1>3, <1>1, FieldSound, Zenon DEF RmaVlanLeaky, AsicRma
<1>10. IPMCAST_VLAN_LEAKY.count = 1
  BY DEF IPMCAST_VLAN_LEAKY, One, Block
<1>11. \A port \in 0 .. 7 : Sound(AsicIpMulticastVlanLeaky(port), 1)
  BY <1>1, <1>10, FlagSound DEF AsicIpMulticastVlanLeaky
<1>12. Sound(AsicIGMPVLANLeaky, 1)
  BY <1>1, <1>7, FlagSound DEF AsicIGMPVLANLeaky
<1>13. \A octet \in 0 .. 47 : Sound(RmaPortIsoLeaky(octet), 1)
  <2>1. Nested(RMA_CTRL00, 0, 1)
    BY SMT DEF RMA_CTRL00, Block, Nested
  <2>2. 0 \in Int /\ 1 \in Nat
    BY SMT
  <2> QED
    BY <2>1, <2>2, <1>3, <1>1, FieldSound, Zenon DEF RmaPortIsoLeaky, AsicRma
<1>14. IPMCAST_PORTISO_LEAKY.count = 1
  BY DEF IPMCAST_PORTISO_LEAKY, One, Block
<1>15. \A port \in 0 .. 7 : Sound(AsicIpMulticastPortIsoLeaky(port), 1)
  BY <1>1, <1>14, FlagSound DEF AsicIpMulticastPortIsoLeaky
<1>16. Sound(AsicIGMPIsoLeaky, 1)
  BY <1>1, <1>7, FlagSound DEF AsicIGMPIsoLeaky
<1>17. UNKNOWN_L2_MULTICAST_CTRL0.count = 1
  BY DEF UNKNOWN_L2_MULTICAST_CTRL0, One, Block
<1>18. \A port \in 0 .. 7 : Nested(UNKNOWN_L2_MULTICAST_CTRL0, 2 * port, 2)
  BY SMT DEF UNKNOWN_L2_MULTICAST_CTRL0, One, Block, Each, Nested
<1>19. \A port \in 0 .. 7 : Sound(AsicUnknownL2MulticastBehavior(port), 2)
  BY <1>1, <1>17, <1>18, FieldSound DEF AsicUnknownL2MulticastBehavior
<1>20. UNKNOWN_IPV4_MULTICAST_CTRL0.count = 1
  BY DEF UNKNOWN_IPV4_MULTICAST_CTRL0, One, Block
<1>21. \A port \in 0 .. 7 : Nested(UNKNOWN_IPV4_MULTICAST_CTRL0, 2 * port, 2)
  BY SMT DEF UNKNOWN_IPV4_MULTICAST_CTRL0, One, Block, Each, Nested
<1>22. \A port \in 0 .. 7 : Sound(AsicUnknownIPv4MulticastBehavior(port), 2)
  BY <1>1, <1>20, <1>21, FieldSound DEF AsicUnknownIPv4MulticastBehavior
<1>23. UNKNOWN_IPV6_MULTICAST_CTRL0.count = 1
  BY DEF UNKNOWN_IPV6_MULTICAST_CTRL0, One, Block
<1>24. \A port \in 0 .. 7 : Nested(UNKNOWN_IPV6_MULTICAST_CTRL0, 2 * port, 2)
  BY SMT DEF UNKNOWN_IPV6_MULTICAST_CTRL0, One, Block, Each, Nested
<1>25. \A port \in 0 .. 7 : Sound(AsicUnknownIPv6MulticastBehavior(port), 2)
  BY <1>1, <1>23, <1>24, FieldSound DEF AsicUnknownIPv6MulticastBehavior
<1>26. EAV_CTRL0.count = 1
  BY DEF EAV_CTRL0, One, Block
<1>27. \A port \in 0 .. 7 : Sound(AsicEavEnable(port), 1)
  BY <1>1, <1>26, FlagSound DEF AsicEavEnable
<1>28. \A s, v : Good(To(s, v)) => GoodCall(RmaSet(s, v))
  BY <1>4, KeepGood, OverGood, Puts2, CallWithGood, Zenon DEF RmaSet
<1>29. \A k \in TrapRmaAction(e) : GoodCall(k)
  <2>1. \A o \in RmaOctet : Good(To(RmaOperation(o), Of(e, 0, 3)))
    BY <1>5, In2, OctetAssumption, Zenon DEF Takes
  <2> QED
    BY <2>1, <1>28, Zenon DEF TrapRmaAction
<1>30. \A k \in Dot1xEapolFrame2CpuEnable(e) : GoodCall(k)
  <2>1. 3 \in 0 .. 47 /\ Of(e, 0, 1) \in 0 .. 3
    BY SMT DEF Of
  <2>2. Good(To(RmaOperation(3), Of(e, 0, 1)))
    BY <2>1, <1>5, In2, Zenon DEF Takes
  <2> QED
    BY <2>2, <1>28, Zenon DEF Dot1xEapolFrame2CpuEnable
<1>31. \A k \in StormBypass(e) : GoodCall(k)
  <2>1. \A o \in RmaOctet : Good(To(RmaStormFilter(o), Of(e, 0, 1)))
    BY <1>6, In1, OctetAssumption, Zenon DEF Takes
  <2>2. Good(To(AsicIGMPBypassStormCTRL, Of(e, 0, 1)))
    BY <1>8, In1, Zenon DEF Takes
  <2> QED
    BY <2>1, <2>2, <1>28, Puts1, CallGood, Zenon DEF StormBypass
<1>32. \A k \in LeakyVlan(e) : GoodCall(k)
  <2>1. \A o \in RmaOctet : Good(To(RmaVlanLeaky(o), Of(e, 0, 1)))
    BY <1>9, In1, OctetAssumption, Zenon DEF Takes
  <2> DEFINE Ports == ForEach(8, LAMBDA p : To(AsicIpMulticastVlanLeaky(p), Of(e, 0, 1)))
  <2>2. GoodPuts(Ports)
    <3>1. Ports = [i \in 1 .. 8 |-> To(AsicIpMulticastVlanLeaky(i - 1), Of(e, 0, 1))]
      BY Zenon DEF ForEach
    <3>2. 8 \in Nat /\ \A i \in 1 .. 8 : i - 1 \in 0 .. 7
      BY SMT
    <3>3. \A i \in 1 .. 8 : Good(To(AsicIpMulticastVlanLeaky(i - 1), Of(e, 0, 1)))
      BY <3>2, <1>11, In1, Zenon DEF Takes
    <3> HIDE DEF Ports
    <3>4. /\ Ports = [i \in 1 .. 8 |-> Ports[i]]
          /\ \A i \in 1 .. 8 : Ports[i] = To(AsicIpMulticastVlanLeaky(i - 1), Of(e, 0, 1))
      BY <3>1, Zenon
    <3> QED
      BY <3>2, <3>3, <3>4, PutsEach, Zenon
  <2>3. Good(To(AsicIGMPVLANLeaky, Of(e, 0, 1)))
    BY <1>12, In1, Zenon DEF Takes
  <2>4. LeakyVlan(e) = {RmaSet(RmaVlanLeaky(o), Of(e, 0, 1)) : o \in RmaOctet}
                     \cup {Does(Ports), Does(<<To(AsicIGMPVLANLeaky, Of(e, 0, 1))>>)}
    BY ZenonT(60) DEF LeakyVlan
  <2> HIDE DEF Ports
  <2> QED
    BY <2>1, <2>2, <2>3, <2>4, <1>28, Puts1, CallGood, Zenon
<1>33. \A k \in LeakyPortIsolation(e) : GoodCall(k)
  <2>1. \A o \in RmaOctet : Good(To(RmaPortIsoLeaky(o), Of(e, 0, 1)))
    BY <1>13, In1, OctetAssumption, Zenon DEF Takes
  <2> DEFINE Ports == ForEach(8, LAMBDA p : To(AsicIpMulticastPortIsoLeaky(p), Of(e, 0, 1)))
  <2>2. GoodPuts(Ports)
    <3>1. Ports = [i \in 1 .. 8 |-> To(AsicIpMulticastPortIsoLeaky(i - 1), Of(e, 0, 1))]
      BY Zenon DEF ForEach
    <3>2. 8 \in Nat /\ \A i \in 1 .. 8 : i - 1 \in 0 .. 7
      BY SMT
    <3>3. \A i \in 1 .. 8 : Good(To(AsicIpMulticastPortIsoLeaky(i - 1), Of(e, 0, 1)))
      BY <3>2, <1>15, In1, Zenon DEF Takes
    <3> HIDE DEF Ports
    <3>4. /\ Ports = [i \in 1 .. 8 |-> Ports[i]]
          /\ \A i \in 1 .. 8 : Ports[i] = To(AsicIpMulticastPortIsoLeaky(i - 1), Of(e, 0, 1))
      BY <3>1, Zenon
    <3> QED
      BY <3>2, <3>3, <3>4, PutsEach, Zenon
  <2>3. Good(To(AsicIGMPIsoLeaky, Of(e, 0, 1)))
    BY <1>16, In1, Zenon DEF Takes
  <2>4. LeakyPortIsolation(e) = {RmaSet(RmaPortIsoLeaky(o), Of(e, 0, 1)) : o \in RmaOctet}
                     \cup {Does(Ports), Does(<<To(AsicIGMPIsoLeaky, Of(e, 0, 1))>>)}
    BY Zenon DEF LeakyPortIsolation
  <2> HIDE DEF Ports
  <2> QED
    BY <2>1, <2>2, <2>3, <2>4, <1>28, Puts1, CallGood, Zenon
<1>34. \A k \in TrapUnknownMcastPktAction(e) : GoodCall(k)
  <2>1. \A p \in Port : Good(To(AsicUnknownL2MulticastBehavior(p), Of(e, 0, 2)))
    BY <1>19, In2, ThreeGood, IndexAssumption, Zenon DEF Takes
  <2>2. \A p \in Port : Good(To(AsicUnknownIPv4MulticastBehavior(p), Of(e, 0, 3)))
    BY <1>22, In2, IndexAssumption, Zenon DEF Takes
  <2>3. \A p \in Port : Good(To(AsicUnknownIPv6MulticastBehavior(p), Of(e, 0, 3)))
    BY <1>25, In2, IndexAssumption, Zenon DEF Takes
  <2> QED
    BY <2>1, <2>2, <2>3, Puts1, CallGood, Zenon DEF TrapUnknownMcastPktAction
<1>35. \A k \in TrapEthernetAv(e) : GoodCall(k)
  <2> DEFINE Ports == ForEach(8, LAMBDA p : To(AsicEavEnable(p), Of(e, 0, 1)))
  <2>1. GoodPuts(Ports)
    <3>1. Ports = [i \in 1 .. 8 |-> To(AsicEavEnable(i - 1), Of(e, 0, 1))]
      BY Zenon DEF ForEach
    <3>2. 8 \in Nat /\ \A i \in 1 .. 8 : i - 1 \in 0 .. 7
      BY SMT
    <3>3. \A i \in 1 .. 8 : Good(To(AsicEavEnable(i - 1), Of(e, 0, 1)))
      BY <3>2, <1>27, In1, Zenon DEF Takes
    <3> HIDE DEF Ports
    <3>4. /\ Ports = [i \in 1 .. 8 |-> Ports[i]]
          /\ \A i \in 1 .. 8 : Ports[i] = To(AsicEavEnable(i - 1), Of(e, 0, 1))
      BY <3>1, Zenon
    <3> QED
      BY <3>2, <3>3, <3>4, PutsEach, Zenon
  <2> QED
    BY <2>1, CallGood, ZenonT(60) DEF TrapEthernetAv
<1> QED
  BY <1>29, <1>30, <1>31, <1>32, <1>33, <1>34, <1>35

(* IGMP and MLD snooping.                                                  *)
LEMMA IgmpCallsGood ==
  ASSUME NEW e \in Nat
  PROVE  /\ \A k \in TrapIgmpCtrlPktAction(e) : GoodCall(k)
         /\ \A k \in IgmpProtocol(e) : GoodCall(k)
         /\ \A k \in IgmpInit(e) : GoodCall(k)
         /\ \A k \in IgmpState(e) : GoodCall(k)
         /\ \A k \in IgmpStaticRouterPort(e) : GoodCall(k)
         /\ \A k \in IgmpFastLeave(e) : GoodCall(k)
         /\ \A k \in IgmpMaxGroup(e) : GoodCall(k)
         /\ \A k \in IgmpDriver(e) : GoodCall(k)
<1>1. {IGMP_PORT0_CONTROL, LUT_CFG, IGMP_MLD_CFG0, IGMP_STATIC_ROUTER_PORT, IGMP_PORT01_MAX_GROUP,
   IGMP_MLD_CFG1, IGMP_MLD_CFG2} \subseteq RegBlocks
  BY SMT DEF RegBlocks
<1>2. IGMP_PORT0_CONTROL.count = 8
  BY DEF IGMP_PORT0_CONTROL, Block
<1>3. Nested(IGMP_PORT0_CONTROL, 6, 2)
  BY SMT DEF IGMP_PORT0_CONTROL, Block, Nested
<1>4. \A port \in 0 .. 7 : Sound(AsicMLDv1Opeartion(port), 2)
  BY <1>1, <1>2, <1>3, FieldSound DEF AsicMLDv1Opeartion
<1>5. Nested(IGMP_PORT0_CONTROL, 8, 2)
  BY SMT DEF IGMP_PORT0_CONTROL, Block, Nested
<1>6. \A port \in 0 .. 7 : Sound(AsicMLDv2Opeartion(port), 2)
  BY <1>1, <1>2, <1>5, FieldSound DEF AsicMLDv2Opeartion
<1>7. Nested(IGMP_PORT0_CONTROL, 0, 2)
  BY SMT DEF IGMP_PORT0_CONTROL, Block, Nested
<1>8. \A port \in 0 .. 7 : Sound(AsicIGMPv1Opeartion(port), 2)
  BY <1>1, <1>2, <1>7, FieldSound DEF AsicIGMPv1Opeartion
<1>9. Nested(IGMP_PORT0_CONTROL, 2, 2)
  BY SMT DEF IGMP_PORT0_CONTROL, Block, Nested
<1>10. \A port \in 0 .. 7 : Sound(AsicIGMPv2Opeartion(port), 2)
  BY <1>1, <1>2, <1>9, FieldSound DEF AsicIGMPv2Opeartion
<1>11. Nested(IGMP_PORT0_CONTROL, 4, 2)
  BY SMT DEF IGMP_PORT0_CONTROL, Block, Nested
<1>12. \A port \in 0 .. 7 : Sound(AsicIGMPv3Opeartion(port), 2)
  BY <1>1, <1>2, <1>11, FieldSound DEF AsicIGMPv3Opeartion
<1>13. LUT_CFG.count = 1
  BY DEF LUT_CFG, One, Block
<1>14. Sound(AsicIpMulticastLookup, 1)
  BY <1>1, <1>13, FlagSound DEF AsicIpMulticastLookup
<1>15. Sound(AsicIpLookupMethod, 1)
  BY <1>1, <1>13, FlagSound DEF AsicIpLookupMethod
<1>16. IGMP_MLD_CFG0.count = 1
  BY DEF IGMP_MLD_CFG0, One, Block
<1>17. Sound(AsicIgmp, 1)
  BY <1>1, <1>16, FlagSound DEF AsicIgmp
<1>18. IGMP_STATIC_ROUTER_PORT.count = 1
  BY DEF IGMP_STATIC_ROUTER_PORT, One, Block
<1>19. Nested(IGMP_STATIC_ROUTER_PORT, 0, 8)
  BY SMT DEF IGMP_STATIC_ROUTER_PORT, One, Block, Low, Nested
<1>20. Sound(AsicIGMPStaticRouterPort, 8)
  BY <1>1, <1>18, <1>19, FieldSound DEF AsicIGMPStaticRouterPort
<1>21. Sound(AsicIGMPFastLeaveEn, 1)
  BY <1>1, <1>16, FlagSound DEF AsicIGMPFastLeaveEn
<1>22. Packs(IGMP_PORT01_MAX_GROUP, 2, 8, 8, 7)
  BY <1>1, SMT DEF Packs, IGMP_PORT01_MAX_GROUP, Block, Each, Nested
<1>23. \A port \in 0 .. 7 : Sound(AsicIGMPPortMAXGroup(port), 8)
  BY <1>22, PackedSound, Zenon DEF AsicIGMPPortMAXGroup
<1>24. Sound(AsicIGMPReportFlood, 1)
  BY <1>1, <1>16, FlagSound DEF AsicIGMPReportFlood
<1>25. IGMP_MLD_CFG1.count = 1
  BY DEF IGMP_MLD_CFG1, One, Block
<1>26. Sound(AsicIGMPDropLeaveZero, 1)
  BY <1>1, <1>25, FlagSound DEF AsicIGMPDropLeaveZero
<1>27. \A port \in 0 .. 7 : Sound(AsicIGMPMcDataRX(port), 1)
  BY <1>1, <1>2, FlagSound DEF AsicIGMPMcDataRX
<1>28. \A port \in 0 .. 7 : Sound(AsicIGMPMRPRX(port), 1)
  BY <1>1, <1>2, FlagSound DEF AsicIGMPMRPRX
<1>29. \A port \in 0 .. 7 : Sound(AsicIGMPLeaveRX(port), 1)
  BY <1>1, <1>2, FlagSound DEF AsicIGMPLeaveRX
<1>30. \A port \in 0 .. 7 : Sound(AsicIGMPReportRX(port), 1)
  BY <1>1, <1>2, FlagSound DEF AsicIGMPReportRX
<1>31. \A port \in 0 .. 7 : Sound(AsicIGMPQueryRX(port), 1)
  BY <1>1, <1>2, FlagSound DEF AsicIGMPQueryRX
<1>32. Nested(IGMP_MLD_CFG0, 1, 2)
  BY SMT DEF IGMP_MLD_CFG0, One, Block, Nested
<1>33. Sound(AsicIGMPCRCErrOP, 2)
  BY <1>1, <1>16, <1>32, FieldSound DEF AsicIGMPCRCErrOP
<1>34. Nested(IGMP_MLD_CFG1, 0, 2)
  BY SMT DEF IGMP_MLD_CFG1, One, Block, Nested
<1>35. Sound(AsicIGMPTableFullOP, 2)
  BY <1>1, <1>25, <1>34, FieldSound DEF AsicIGMPTableFullOP
<1>36. Nested(IGMP_MLD_CFG0, 4, 3)
  BY SMT DEF IGMP_MLD_CFG0, One, Block, Nested
<1>37. Sound(AsicIGMPLeaveTimer, 3)
  BY <1>1, <1>16, <1>36, FieldSound DEF AsicIGMPLeaveTimer
<1>38. Nested(IGMP_MLD_CFG0, 9, 3)
  BY SMT DEF IGMP_MLD_CFG0, One, Block, Nested
<1>39. Sound(AsicIGMPRobVar, 3)
  BY <1>1, <1>16, <1>38, FieldSound DEF AsicIGMPRobVar
<1>40. IGMP_MLD_CFG2.count = 1
  BY DEF IGMP_MLD_CFG2, One, Block
<1>41. Sound(AsicIGMPQueryInterval, 16)
  BY <1>1, <1>40, WordSound DEF AsicIGMPQueryInterval
<1>42. Sound(IGMPReportSuppression, 1)
  BY <1>1, <1>16, FlagSound DEF IGMPReportSuppression
<1>43. Sound(IGMPLeaveSuppression, 1)
  BY <1>1, <1>16, FlagSound DEF IGMPLeaveSuppression
<1>44. \A k \in TrapIgmpCtrlPktAction(e) : GoodCall(k)
  <2> DEFINE mld == ForEach(16, LAMBDA i :
                 To(IF i % 2 = 0 THEN AsicMLDv1Opeartion(i \div 2) ELSE AsicMLDv2Opeartion(i \div 2), Of(e, 0, 3)))
             igmp == ForEach(24, LAMBDA i :
                 To(CASE i % 3 = 0 -> AsicIGMPv1Opeartion(i \div 3)
                      [] i % 3 = 1 -> AsicIGMPv2Opeartion(i \div 3)
                      [] i % 3 = 2 -> AsicIGMPv3Opeartion(i \div 3), Of(e, 0, 3)))
  <2>1. GoodPuts(mld)
    <3> DEFINE S(i) == IF (i - 1) % 2 = 0 THEN AsicMLDv1Opeartion((i - 1) \div 2) ELSE AsicMLDv2Opeartion((i - 1) \div 2)
    <3>1. mld = [i \in 1 .. 16 |-> To(S(i), Of(e, 0, 3))]
      BY Zenon DEF ForEach
    <3>2. 16 \in Nat /\ \A i \in 1 .. 16 : (i - 1) \div 2 \in 0 .. 7
      BY SMT
    <3>3. \A i \in 1 .. 16 : Sound(S(i), 2)
      BY <3>2, <1>4, <1>6, Zenon
    <3> HIDE DEF S, mld
    <3>4. \A i \in 1 .. 16 : Good(To(S(i), Of(e, 0, 3)))
      BY <3>3, In2, Zenon DEF Takes
    <3>5. mld = [i \in 1 .. 16 |-> mld[i]] /\ \A i \in 1 .. 16 : mld[i] = To(S(i), Of(e, 0, 3))
      BY <3>1, Zenon
    <3> QED
      BY <3>2, <3>4, <3>5, PutsEach, Zenon
  <2>2. GoodPuts(igmp)
    <3> DEFINE S(i) == CASE (i - 1) % 3 = 0 -> AsicIGMPv1Opeartion((i - 1) \div 3)
                         [] (i - 1) % 3 = 1 -> AsicIGMPv2Opeartion((i - 1) \div 3)
                         [] (i - 1) % 3 = 2 -> AsicIGMPv3Opeartion((i - 1) \div 3)
    <3>1. igmp = [i \in 1 .. 24 |-> To(S(i), Of(e, 0, 3))]
      BY Zenon DEF ForEach
    <3>2. 24 \in Nat /\ \A i \in 1 .. 24 : (i - 1) \div 3 \in 0 .. 7 /\ (i - 1) % 3 \in {0, 1, 2}
      BY SMT
    <3>3. \A i \in 1 .. 24 : Sound(S(i), 2)
      <4>1. \A i \in 1 .. 24 : /\ Sound(AsicIGMPv1Opeartion((i - 1) \div 3), 2)
                               /\ Sound(AsicIGMPv2Opeartion((i - 1) \div 3), 2)
                               /\ Sound(AsicIGMPv3Opeartion((i - 1) \div 3), 2)
        BY <3>2, <1>8, <1>10, <1>12, Zenon
      <4> QED
        BY <3>2, <4>1, SMT
    <3> HIDE DEF S, igmp
    <3>4. \A i \in 1 .. 24 : Good(To(S(i), Of(e, 0, 3)))
      BY <3>3, In2, Zenon DEF Takes
    <3>5. igmp = [i \in 1 .. 24 |-> igmp[i]] /\ \A i \in 1 .. 24 : igmp[i] = To(S(i), Of(e, 0, 3))
      BY <3>1, Zenon
    <3> QED
      BY <3>2, <3>4, <3>5, PutsEach, Zenon
  <2>3. TrapIgmpCtrlPktAction(e) = {Does(mld), Does(igmp)}
    BY Zenon DEF TrapIgmpCtrlPktAction
  <2> HIDE DEF mld, igmp
  <2> QED
    BY <2>1, <2>2, <2>3, CallGood, Zenon
<1>45. \A k \in IgmpProtocol(e) : GoodCall(k)
  <2>1. \A s \in UNION {{AsicIGMPv1Opeartion(p), AsicIGMPv2Opeartion(p), AsicIGMPv3Opeartion(p),
          AsicMLDv1Opeartion(p), AsicMLDv2Opeartion(p)} : p \in Port} :
        /\ Good(To(s, Of(e, 0, 3)))
    <3>1. \A p \in Port :
          /\ Good(To(AsicIGMPv1Opeartion(p), Of(e, 0, 3)))
          /\ Good(To(AsicIGMPv2Opeartion(p), Of(e, 0, 3)))
          /\ Good(To(AsicIGMPv3Opeartion(p), Of(e, 0, 3)))
          /\ Good(To(AsicMLDv1Opeartion(p), Of(e, 0, 3)))
          /\ Good(To(AsicMLDv2Opeartion(p), Of(e, 0, 3)))
      BY <1>8, <1>10, <1>12, <1>4, <1>6, In2, IndexAssumption, Zenon DEF Takes
    <3> QED
      BY <3>1, Zenon
  <2> QED
    BY <2>1, Puts1, CallGood, Zenon DEF IgmpProtocol
<1>46. \A k \in IgmpInit(e) : GoodCall(k)
  <2>1. Good(To(AsicIpMulticastLookup, 1)) /\ Good(To(AsicIpLookupMethod, 1)) /\ Good(To(AsicIgmp, 1))
    BY <1>14, <1>15, <1>17, In1, Zenon DEF Takes
  <2> QED
    BY <2>1, Puts3, CallGood, Zenon DEF IgmpInit
<1>47. \A k \in IgmpState(e) : GoodCall(k)
  <2>1. Good(To(AsicIgmp, Of(e, 0, 1)))
    BY <1>17, In1, Zenon DEF Takes
  <2> QED
    BY <2>1, Puts1, CallGood, Zenon DEF IgmpState
<1>48. \A k \in IgmpStaticRouterPort(e) : GoodCall(k)
  <2>1. Good(ToBits(AsicIGMPStaticRouterPort, OfBits(e, 8)))
    BY <1>20, OfBitsGood, Zenon
  <2> QED
    BY <2>1, Puts1, CallGood, Zenon DEF IgmpStaticRouterPort
<1>49. \A k \in IgmpFastLeave(e) : GoodCall(k)
  <2>1. Good(To(AsicIGMPFastLeaveEn, Of(e, 0, 1)))
    BY <1>21, In1, Zenon DEF Takes
  <2> QED
    BY <2>1, Puts1, CallGood, Zenon DEF IgmpFastLeave
<1>50. \A k \in IgmpMaxGroup(e) : GoodCall(k)
  <2>1. \A p \in Port : Good(To(AsicIGMPPortMAXGroup(p), Of(e, 0, 255)))
    BY <1>23, In8, IndexAssumption, ZenonT(60) DEF Takes
  <2> QED
    BY <2>1, Puts1, CallGood, ZenonT(60) DEF IgmpMaxGroup
<1>51. \A k \in IgmpDriver(e) : GoodCall(k)
  <2>1. \A s \in {AsicIGMPReportFlood, AsicIGMPDropLeaveZero} \cup UNION {{AsicIGMPMcDataRX(p),
          AsicIGMPMRPRX(p), AsicIGMPLeaveRX(p), AsicIGMPReportRX(p), AsicIGMPQueryRX(p)} : p \in Port} :
        /\ Good(To(s, Of(e, 0, 1)))
    <3>1. \A p \in Port :
          /\ Good(To(AsicIGMPMcDataRX(p), Of(e, 0, 1)))
          /\ Good(To(AsicIGMPMRPRX(p), Of(e, 0, 1)))
          /\ Good(To(AsicIGMPLeaveRX(p), Of(e, 0, 1)))
          /\ Good(To(AsicIGMPReportRX(p), Of(e, 0, 1)))
          /\ Good(To(AsicIGMPQueryRX(p), Of(e, 0, 1)))
      BY <1>24, <1>26, <1>27, <1>28, <1>29, <1>30, <1>31, In1, IndexAssumption, Zenon DEF Takes
    <3>2. /\ Good(To(AsicIGMPReportFlood, Of(e, 0, 1)))
          /\ Good(To(AsicIGMPDropLeaveZero, Of(e, 0, 1)))
      BY <1>24, <1>26, <1>27, <1>28, <1>29, <1>30, <1>31, In1, IndexAssumption, Zenon DEF Takes
    <3> QED
      BY <3>1, <3>2, Zenon
  <2>2. \A s \in {AsicIGMPCRCErrOP, AsicIGMPTableFullOP} : Good(To(s, Of(e, 0, 2)))
    BY <1>33, <1>35, In2, ThreeGood, Zenon DEF Takes
  <2>3. \A s \in {AsicIGMPLeaveTimer, AsicIGMPRobVar} : Good(To(s, Of(e, 0, 7)))
    BY <1>37, <1>39, In3, Zenon DEF Takes
  <2>4. Good(To(AsicIGMPQueryInterval, Of(e, 0, RegDataMax)))
    BY <1>41, In16, Zenon DEF Takes
  <2>5. Good(To(IGMPReportSuppression, Of(e, 0, 1))) /\ Good(To(IGMPLeaveSuppression, Of(e, 0, 1)))
    BY <1>42, <1>43, In1, Zenon DEF Takes
  <2> QED
    BY <2>1, <2>2, <2>3, <2>4, <2>5, Puts1, Puts2, CallGood, Zenon DEF IgmpDriver
<1> QED
  BY <1>44, <1>45, <1>46, <1>47, <1>48, <1>49, <1>50, <1>51

(* 802.1X and the priority of trapped frames.                              *)
LEMMA Dot1xCallsGood ==
  ASSUME NEW e \in Nat
  PROVE  /\ \A k \in Dot1xUnauthPacketOper(e) : GoodCall(k)
         /\ \A k \in Dot1xPortBasedEnable(e) : GoodCall(k)
         /\ \A k \in Dot1xPortBasedAuthStatus(e) : GoodCall(k)
         /\ \A k \in Dot1xPortBasedDirection(e) : GoodCall(k)
         /\ \A k \in Dot1xMacBasedEnable(e) : GoodCall(k)
         /\ \A k \in Dot1xMacBasedDirection(e) : GoodCall(k)
         /\ \A k \in Dot1xGuestVlan2Auth(e) : GoodCall(k)
         /\ \A k \in TrapPriority(e) : GoodCall(k)
<1>1. {DOT1X_UNAUTH_ACT_W0, DOT1X_PORT_ENABLE, DOT1X_PORT_AUTH, DOT1X_PORT_OPDIR, DOT1X_MAC_ENABLE,
   DOT1X_CFG, QOS_TRAP_PRIORITY0} \subseteq RegBlocks
  BY SMT DEF RegBlocks
<1>2. DOT1X_UNAUTH_ACT_W0.count = 1
  BY DEF DOT1X_UNAUTH_ACT_W0, One, Block
<1>3. \A port \in 0 .. 7 : Nested(DOT1X_UNAUTH_ACT_W0, 2 * port, 2)
  BY SMT DEF DOT1X_UNAUTH_ACT_W0, One, Block, Each, Nested
<1>4. \A port \in 0 .. 7 : Sound(Asic1xProcConfig(port), 2)
  BY <1>1, <1>2, <1>3, FieldSound DEF Asic1xProcConfig
<1>5. DOT1X_PORT_ENABLE.count = 1
  BY DEF DOT1X_PORT_ENABLE, One, Block
<1>6. \A port \in 0 .. 7 : Sound(Asic1xPBEnConfig(port), 1)
  BY <1>1, <1>5, FlagSound DEF Asic1xPBEnConfig
<1>7. DOT1X_PORT_AUTH.count = 1
  BY DEF DOT1X_PORT_AUTH, One, Block
<1>8. \A port \in 0 .. 7 : Sound(Asic1xPBAuthConfig(port), 1)
  BY <1>1, <1>7, FlagSound DEF Asic1xPBAuthConfig
<1>9. DOT1X_PORT_OPDIR.count = 1
  BY DEF DOT1X_PORT_OPDIR, One, Block
<1>10. \A port \in 0 .. 7 : Sound(Asic1xPBOpdirConfig(port), 1)
  BY <1>1, <1>9, FlagSound DEF Asic1xPBOpdirConfig
<1>11. DOT1X_MAC_ENABLE.count = 1
  BY DEF DOT1X_MAC_ENABLE, One, Block
<1>12. \A port \in 0 .. 7 : Sound(Asic1xMBEnConfig(port), 1)
  BY <1>1, <1>11, FlagSound DEF Asic1xMBEnConfig
<1>13. DOT1X_CFG.count = 1
  BY DEF DOT1X_CFG, One, Block
<1>14. Sound(Asic1xMBOpdirConfig, 1)
  BY <1>1, <1>13, FlagSound DEF Asic1xMBOpdirConfig
<1>15. Sound(Asic1xGVOpdir, 1)
  BY <1>1, <1>13, FlagSound DEF Asic1xGVOpdir
<1>16. QOS_TRAP_PRIORITY0.count = 1
  BY DEF QOS_TRAP_PRIORITY0, One, Block
<1>17. Nested(QOS_TRAP_PRIORITY0, 0, 3)
  BY SMT DEF QOS_TRAP_PRIORITY0, One, Block, Each, Nested
<1>18. Sound(Asic1xTrapPriority, 3)
  BY <1>1, <1>16, <1>17, FieldSound DEF Asic1xTrapPriority
<1>19. Nested(QOS_TRAP_PRIORITY0, 12, 3)
  BY SMT DEF QOS_TRAP_PRIORITY0, One, Block, Each, Nested
<1>20. Sound(AsicUnknownMulticastTrapPriority, 3)
  BY <1>1, <1>16, <1>19, FieldSound DEF AsicUnknownMulticastTrapPriority
<1>21. \A k \in Dot1xUnauthPacketOper(e) : GoodCall(k)
  <2>1. \A p \in Port : Good(To(Asic1xProcConfig(p), Of(e, 0, 2)))
    BY <1>4, In2, ThreeGood, IndexAssumption, Zenon DEF Takes
  <2> QED
    BY <2>1, Puts1, CallGood, ZenonT(60) DEF Dot1xUnauthPacketOper
<1>22. \A k \in Dot1xPortBasedEnable(e) : GoodCall(k)
  <2>1. \A p \in Port : Good(To(Asic1xPBEnConfig(p), Of(e, 0, 1)))
    BY <1>6, In1, IndexAssumption, Zenon DEF Takes
  <2> QED
    BY <2>1, Puts1, CallGood, Zenon DEF Dot1xPortBasedEnable
<1>23. \A k \in Dot1xPortBasedAuthStatus(e) : GoodCall(k)
  <2>1. \A p \in Port : Good(To(Asic1xPBAuthConfig(p), Of(e, 0, 1)))
    BY <1>8, In1, IndexAssumption, Zenon DEF Takes
  <2> QED
    BY <2>1, Puts1, CallGood, Zenon DEF Dot1xPortBasedAuthStatus
<1>24. \A k \in Dot1xPortBasedDirection(e) : GoodCall(k)
  <2>1. \A p \in Port : Good(To(Asic1xPBOpdirConfig(p), Of(e, 0, 1)))
    BY <1>10, In1, IndexAssumption, Zenon DEF Takes
  <2> QED
    BY <2>1, Puts1, CallGood, Zenon DEF Dot1xPortBasedDirection
<1>25. \A k \in Dot1xMacBasedEnable(e) : GoodCall(k)
  <2>1. \A p \in Port : Good(To(Asic1xMBEnConfig(p), Of(e, 0, 1)))
    BY <1>12, In1, IndexAssumption, Zenon DEF Takes
  <2> QED
    BY <2>1, Puts1, CallGood, Zenon DEF Dot1xMacBasedEnable
<1>26. \A k \in Dot1xMacBasedDirection(e) : GoodCall(k)
  <2>1. Good(To(Asic1xMBOpdirConfig, Of(e, 0, 1)))
    BY <1>14, In1, Zenon DEF Takes
  <2> QED
    BY <2>1, Puts1, CallGood, Zenon DEF Dot1xMacBasedDirection
<1>27. \A k \in Dot1xGuestVlan2Auth(e) : GoodCall(k)
  <2>1. Good(To(Asic1xGVOpdir, Of(e, 0, 1)))
    BY <1>15, In1, Zenon DEF Takes
  <2> QED
    BY <2>1, Puts1, CallGood, Zenon DEF Dot1xGuestVlan2Auth
<1>28. \A k \in TrapPriority(e) : GoodCall(k)
  <2>1. \A s \in {Asic1xTrapPriority, AsicUnknownMulticastTrapPriority} : Good(To(s, Of(e, 0, 7)))
    BY <1>18, <1>20, In3, Zenon DEF Takes
  <2> QED
    BY <2>1, Puts1, CallGood, Zenon DEF TrapPriority
<1> QED
  BY <1>21, <1>22, <1>23, <1>24, <1>25, <1>26, <1>27, <1>28

(* Time stamps, kept over two registers.                                   *)
LEMMA EavCallsGood ==
  ASSUME NEW e \in Nat
  PROVE  /\ \A k \in EavDriver(e) : GoodCall(k)
<1>1. {EAV_CTRL1, SYS_TIME_FREQ, SYS_TIME_OFFSET_L, SYS_TIME_OFFSET_H, SYS_TIME_OFFSET_512NS_L,
   SYS_TIME_OFFSET_512NS_H, PTP_PORT0_CFG1} \subseteq RegBlocks
  BY SMT DEF RegBlocks
<1>2. Packs(EAV_CTRL1, 4, 3, 3, 7)
  BY <1>1, SMT DEF Packs, EAV_CTRL1, Block, Each, Nested
<1>3. \A pri \in 0 .. 7 : Sound(AsicEavPriRemapping(pri), 3)
  BY <1>2, PackedSound, Zenon DEF AsicEavPriRemapping
<1>4. SYS_TIME_FREQ.count = 1
  BY DEF SYS_TIME_FREQ, One, Block
<1>5. Sound(AsicEavTimeFreq, 16)
  BY <1>1, <1>4, WordSound DEF AsicEavTimeFreq
<1>6. SYS_TIME_OFFSET_L.count = 1
  BY DEF SYS_TIME_OFFSET_L, One, Block
<1>7. SYS_TIME_OFFSET_H.count = 1
  BY DEF SYS_TIME_OFFSET_H, One, Block
<1>8. Sound(AsicEavTimeOffsetSeccond, 32)
  <2>1. Cell(Word(Reg(SYS_TIME_OFFSET_L, 0)), 0, 15)
    BY <1>1, <1>6, WordCell
  <2>2. Cell(From(16, Word(Reg(SYS_TIME_OFFSET_H, 0))), 16, 16 + 15)
    BY <1>1, <1>7, WordFrom
  <2>3. 0 .. 32 - 1 \subseteq (0 .. 15) \cup (16 .. 16 + 15)
    BY SMT
  <2> QED
    BY <2>1, <2>2, <2>3, TwoCells, ZenonT(60) DEF AsicEavTimeOffsetSeccond
<1>9. SYS_TIME_OFFSET_512NS_L.count = 1
  BY DEF SYS_TIME_OFFSET_512NS_L, One, Block
<1>10. SYS_TIME_OFFSET_512NS_H.count = 1
  BY DEF SYS_TIME_OFFSET_512NS_H, One, Block
<1>11. Sound(AsicEavTimeOffset512ns, 21)
  <2>0. Nested(SYS_TIME_OFFSET_512NS_H, 0, 5)
    BY SMT DEF SYS_TIME_OFFSET_512NS_H, One, Block, Nested
  <2>1. Cell(Word(Reg(SYS_TIME_OFFSET_512NS_L, 0)), 0, 15)
    BY <1>1, <1>9, WordCell
  <2>2. Cell(From(16, Field(Reg(SYS_TIME_OFFSET_512NS_H, 0), 0, 5)), 16, 16 + 5 - 1)
    BY <1>1, <1>10, <2>0, FieldFrom
  <2>3. 0 .. 21 - 1 \subseteq (0 .. 15) \cup (16 .. 16 + 5 - 1)
    BY SMT
  <2> QED
    BY <2>1, <2>2, <2>3, TwoCells, Zenon DEF AsicEavTimeOffset512ns
<1>12. Sound(AsicEavOffsetTune, 1)
  BY <1>1, <1>10, FlagSound DEF AsicEavOffsetTune
<1>13. PTP_PORT0_CFG1.count = 8
  BY DEF PTP_PORT0_CFG1, Block
<1>14. \A port \in 0 .. 7 : Sound(AsicEavTimeSyncEn(port), 1)
  BY <1>1, <1>13, FlagSound DEF AsicEavTimeSyncEn
<1>15. \A port \in 0 .. 7 : Sound(AsicEavTimeStampFillEn(port), 1)
  BY <1>1, <1>13, FlagSound DEF AsicEavTimeStampFillEn
<1>16. \A k \in EavDriver(e) : GoodCall(k)
  <2>1. \A pri \in Priority : Good(To(AsicEavPriRemapping(pri), Of(e, 0, 7)))
    BY <1>3, In3, IndexAssumption, Zenon DEF Takes
  <2>2. Good(ToBits(AsicEavTimeFreq, OfBits(e, 16)))
    BY <1>5, OfBitsGood, Zenon
  <2>3. Good(ToBits(AsicEavTimeOffsetSeccond, OfBits(e, 32)))
    BY <1>8, OfBitsGood, Zenon
  <2>4. Good(ToBits(AsicEavTimeOffset512ns, OfBits(e, 21)))
    BY <1>11, OfBitsGood, Zenon
  <2>5. Good(To(AsicEavOffsetTune, Of(e, 0, 1)))
    BY <1>12, In1, Zenon DEF Takes
  <2>6. \A s \in UNION {{AsicEavTimeSyncEn(p), AsicEavTimeStampFillEn(p)} : p \in Port} :
        /\ Good(To(s, Of(e, 0, 1)))
    <3>1. \A p \in Port :
          /\ Good(To(AsicEavTimeSyncEn(p), Of(e, 0, 1)))
          /\ Good(To(AsicEavTimeStampFillEn(p), Of(e, 0, 1)))
      BY <1>14, <1>15, In1, IndexAssumption, Zenon DEF Takes
    <3> QED
      BY <3>1, Zenon
  <2> QED
    BY <2>1, <2>2, <2>3, <2>4, <2>5, <2>6, Puts1, CallGood, Zenon DEF EavDriver
<1> QED
  BY <1>16

(* All calls of TrapSettings.                                              *)
LEMMA TrapCallsGood ==
  ASSUME NEW e \in Nat
  PROVE  \A k \in TrapCalls(e) : GoodCall(k)
<1> SUFFICES ASSUME NEW k \in TrapCalls(e)
             PROVE  GoodCall(k)
  BY Zenon
<1>1. k \in UNION {
        TrapRmaAction(e), Dot1xEapolFrame2CpuEnable(e), StormBypass(e), LeakyVlan(e),
           LeakyPortIsolation(e), TrapUnknownMcastPktAction(e), TrapEthernetAv(e),
           TrapIgmpCtrlPktAction(e), IgmpProtocol(e), IgmpInit(e), IgmpState(e),
           IgmpStaticRouterPort(e), IgmpFastLeave(e), IgmpMaxGroup(e), IgmpDriver(e),
           Dot1xUnauthPacketOper(e), Dot1xPortBasedEnable(e), Dot1xPortBasedAuthStatus(e),
           Dot1xPortBasedDirection(e), Dot1xMacBasedEnable(e), Dot1xMacBasedDirection(e),
           Dot1xGuestVlan2Auth(e), TrapPriority(e), EavDriver(e)}
  BY Zenon DEF TrapCalls
<1>2. \/ k \in TrapRmaAction(e)
      \/ k \in Dot1xEapolFrame2CpuEnable(e)
      \/ k \in StormBypass(e)
      \/ k \in LeakyVlan(e)
      \/ k \in LeakyPortIsolation(e)
      \/ k \in TrapUnknownMcastPktAction(e)
      \/ k \in TrapEthernetAv(e)
      \/ k \in TrapIgmpCtrlPktAction(e)
      \/ k \in IgmpProtocol(e)
      \/ k \in IgmpInit(e)
      \/ k \in IgmpState(e)
      \/ k \in IgmpStaticRouterPort(e)
      \/ k \in IgmpFastLeave(e)
      \/ k \in IgmpMaxGroup(e)
      \/ k \in IgmpDriver(e)
      \/ k \in Dot1xUnauthPacketOper(e)
      \/ k \in Dot1xPortBasedEnable(e)
      \/ k \in Dot1xPortBasedAuthStatus(e)
      \/ k \in Dot1xPortBasedDirection(e)
      \/ k \in Dot1xMacBasedEnable(e)
      \/ k \in Dot1xMacBasedDirection(e)
      \/ k \in Dot1xGuestVlan2Auth(e)
      \/ k \in TrapPriority(e)
      \/ k \in EavDriver(e)
  BY <1>1, SMT
<1> QED
  BY <1>2, ReservedCallsGood, IgmpCallsGood, Dot1xCallsGood, EavCallsGood, Zenon

-----------------------------------------------------------------------------
(* Ports and what belongs to them (PortSettings).                          *)

LEMMA PortLinkCallsGood ==
  ASSUME NEW e \in Nat
  PROVE  /\ \A k \in PortMacForceLink(e) : GoodCall(k)
         /\ \A k \in PortMacForceLinkExt(e) : GoodCall(k)
         /\ \A k \in PortMacLocalLoopbackEnable(e) : GoodCall(k)
         /\ \A k \in PortBackpressureEnable(e) : GoodCall(k)
         /\ \A k \in PortIsolation(e) : GoodCall(k)
         /\ \A k \in PortRgmiiDelayExt(e) : GoodCall(k)
         /\ \A k \in PortPhyEnableAll(e) : GoodCall(k)
         /\ \A k \in PortEfid(e) : GoodCall(k)
<1>1. {PORT0_MISC_CFG, CFG_BACKPRESSURE, PORT_ISOLATION_PORT0_MASK, EXT0_RGMXF, EXT1_RGMXF, EXT2_RGMXF,
   PHY_AD, PORT_EFID_CTRL0, EXT_TXC_DLY, BYPASS_LINE_RATE, DIGITAL_INTERFACE_SELECT,
   DIGITAL_INTERFACE_SELECT_1} \subseteq RegBlocks
  BY SMT DEF RegBlocks
<1>2. PORT0_MISC_CFG.count = 8
  BY DEF PORT0_MISC_CFG, Block
<1>3. \A port \in 0 .. 7 : Sound(AsicPortLoopback(port), 1)
  BY <1>1, <1>2, FlagSound DEF AsicPortLoopback
<1>4. \A phy \in 0 .. 4 : Sound(PhyLoopback(phy), 1)
  <2>1. 0 \in Nat /\ 14 \in Int /\ (\A phy \in 0 .. 4 : phy \in Nat)
    BY SMT
  <2> QED
    BY <2>1, PhyFlagSound, Zenon DEF PhyLoopback
<1>5. CFG_BACKPRESSURE.count = 1
  BY DEF CFG_BACKPRESSURE, One, Block
<1>6. Sound(AsicPortJamMode, 1)
  BY <1>1, <1>5, FlagSound DEF AsicPortJamMode
<1>7. PORT_ISOLATION_PORT0_MASK.count = 8
  BY DEF PORT_ISOLATION_PORT0_MASK, Block
<1>8. \A port \in 0 .. 7 : Sound(AsicPortIsolationPermittedPortmask(port), 16)
  BY <1>1, <1>7, WordSound DEF AsicPortIsolationPermittedPortmask
<1>9. EXT0_RGMXF.count = 1
  BY DEF EXT0_RGMXF, One, Block
<1>10. EXT1_RGMXF.count = 1
  BY DEF EXT1_RGMXF, One, Block
<1>11. EXT2_RGMXF.count = 1
  BY DEF EXT2_RGMXF, One, Block
<1>12. \A id \in 0 .. 2 : Sound(RgmiiDelay(id), 4)
  <2>1. Nested(EXT0_RGMXF, 0, 4) /\ Nested(EXT1_RGMXF, 0, 4) /\ Nested(EXT2_RGMXF, 0, 4)
    BY SMT DEF EXT0_RGMXF, EXT1_RGMXF, EXT2_RGMXF, One, Block, Nested
  <2>2. 0 \in 0 .. 1 - 1 /\ 0 \in Int /\ 4 \in Nat
    BY SMT
  <2>3. Sound(<<Field(Reg(EXT0_RGMXF, 0), 0, 4)>>, 4)
    BY <2>1, <2>2, <1>1, <1>9, FieldSound
  <2>7. Sound(<<Field(Reg(EXT1_RGMXF, 0), 0, 4)>>, 4)
    BY <2>1, <2>2, <1>1, <1>10, FieldSound
  <2>8. Sound(<<Field(Reg(EXT2_RGMXF, 0), 0, 4)>>, 4)
    BY <2>1, <2>2, <1>1, <1>11, FieldSound
  <2>4. RgmiiDelay(0) = <<Field(Reg(EXT0_RGMXF, 0), 0, 4)>>
    BY SMT DEF RgmiiDelay
  <2>5. RgmiiDelay(1) = <<Field(Reg(EXT1_RGMXF, 0), 0, 4)>> /\ RgmiiDelay(2) = <<Field(Reg(EXT2_RGMXF, 0), 0, 4)>>
    BY SMT DEF RgmiiDelay
  <2>6. \A id \in 0 .. 2 : id = 0 \/ id = 1 \/ id = 2
    BY SMT
  <2> QED
    BY <2>3, <2>4, <2>5, <2>6, <2>7, <2>8, Zenon
<1>13. PHY_AD.count = 1
  BY DEF PHY_AD, One, Block
<1>14. Sound(AsicPortEnableAll, 1)
  BY <1>1, <1>13, FlagSound DEF AsicPortEnableAll
<1>15. Packs(PORT_EFID_CTRL0, 4, 4, 3, 7)
  BY <1>1, SMT DEF Packs, PORT_EFID_CTRL0, Block, Each, Nested
<1>16. \A port \in 0 .. 7 : Sound(AsicPortIsolationEfid(port), 3)
  BY <1>15, PackedSound, Zenon DEF AsicPortIsolationEfid
<1>17. \A id \in 0 .. 1 : Sound(RgtxInv(id), 1)
  <2>1. 0 \in 0 .. 1 - 1 /\ 6 \in Int
    BY SMT
  <2>2. Sound(<<Flag(Reg(EXT0_RGMXF, 0), 6)>>, 1) /\ Sound(<<Flag(Reg(EXT1_RGMXF, 0), 6)>>, 1)
    BY <2>1, <1>1, <1>1, <1>9, <1>10, FlagSound, Zenon
  <2> QED
    BY <2>2, Zenon DEF RgtxInv
<1>18. EXT_TXC_DLY.count = 1
  BY DEF EXT_TXC_DLY, One, Block
<1>19. \A id \in 0 .. 1 : Nested(EXT_TXC_DLY, 9 + 3 * id, 3)
  BY SMT DEF EXT_TXC_DLY, One, Block, Each, Nested
<1>20. \A id \in 0 .. 1 : Sound(GmiiTxDelay(id), 3)
  BY <1>1, <1>18, <1>19, FieldSound DEF GmiiTxDelay
<1>21. BYPASS_LINE_RATE.count = 1
  BY DEF BYPASS_LINE_RATE, One, Block
<1>22. \A id \in 0 .. 2 : Sound(BypassLineRate(id), 1)
  BY <1>1, <1>21, FlagSound DEF BypassLineRate
<1>23. DIGITAL_INTERFACE_SELECT.count = 1
  BY DEF DIGITAL_INTERFACE_SELECT, One, Block
<1>24. DIGITAL_INTERFACE_SELECT_1.count = 1
  BY DEF DIGITAL_INTERFACE_SELECT_1, One, Block
<1>25. \A id \in 0 .. 2 : Sound(AsicPortExtMode(id), 4)
  <2>1. (\A j \in {0, 4} : Nested(DIGITAL_INTERFACE_SELECT, j, 4)) /\ Nested(DIGITAL_INTERFACE_SELECT_1, 0, 4)
    BY SMT DEF DIGITAL_INTERFACE_SELECT, DIGITAL_INTERFACE_SELECT_1, One, Block, Nested
  <2>2. (\A j \in {0, 4} : j \in Int) /\ 4 \in Nat /\ 0 \in Int /\ 0 \in 0 .. 1 - 1
    BY SMT
  <2>3. /\ \A j \in {0, 4} : Sound(<<Field(Reg(DIGITAL_INTERFACE_SELECT, 0), j, 4)>>, 4)
        /\ Sound(<<Field(Reg(DIGITAL_INTERFACE_SELECT_1, 0), 0, 4)>>, 4)
    BY <2>1, <2>2, <1>1, <1>1, <1>23, <1>24, FieldSound, Zenon
  <2>4. \A id \in 0 .. 2 : id < 2 => 4 * id \in {0, 4}
    BY SMT
  <2>5. \A id \in 0 .. 2 : id < 2 => Sound(<<Field(Reg(DIGITAL_INTERFACE_SELECT, 0), 4 * id, 4)>>, 4)
    BY <2>3, <2>4, Zenon
  <2> QED
    BY <2>3, <2>5, Zenon DEF AsicPortExtMode
<1>26. \A r : Holds(<<Spread(r, Ability)>>, {0, 1, 2, 4, 5, 6, 7, 12})
  <2>1. DOMAIN Ability \subseteq Int /\ 2 \in DOMAIN Ability /\ 4 \in DOMAIN Ability /\ 3 \notin DOMAIN Ability
        /\ 2 < 3 /\ 3 < 4 /\ 3 \in Int
    BY SMT DEF Ability
  <2>2. {0, 1, 2, 4, 5, 6, 7, 12} \subseteq {Ability[b] : b \in DOMAIN Ability}
    BY Zenon DEF Ability
  <2> QED
    BY <2>1, <2>2, GapHolds, SpreadRoom, Zenon DEF Holds
<1>27. \A r : Good(ToBits(<<Spread(r, Ability)>>, AbilityBits(e)))
  <2>1. AbilityBits(e) \subseteq {0, 1, 2, 4, 5, 6, 7, 12}
    BY SMT DEF AbilityBits, Either
  <2> QED
    BY <2>1, <1>26, HoldsGood, Zenon
<1>28. \A id \in Ext, mode \in 0 .. 15 : GoodPuts(ExtMode(id, mode))
  <2>1. 1 \in 0 .. 1 /\ 0 \in 0 .. 1 /\ 5 \in 0 .. 7 /\ 6 \in 0 .. 7
    BY SMT
  <2>2. Good(To(RgtxInv(0), 1)) /\ Good(To(RgtxInv(1), 1))
    BY <2>1, <1>17, In1, Zenon DEF Takes
  <2>3. Good(To(GmiiTxDelay(1), 5)) /\ Good(To(GmiiTxDelay(0), 6))
    BY <2>1, <1>20, In3, Zenon DEF Takes
  <2>4. GoodPuts(<<To(RgtxInv(0), 1), To(RgtxInv(1), 1), To(GmiiTxDelay(1), 5), To(GmiiTxDelay(0), 6)>>)
    BY <2>2, <2>3, Puts4, Zenon
  <2>5. GoodPuts(<<>>)
    BY PutsNone
  <2>6. \A id \in Ext : Good(To(BypassLineRate(id), 1)) /\ Good(To(BypassLineRate(id), 0))
    BY <1>22, In1, Zenon DEF Takes, Ext
  <2>7. \A id \in Ext, mode \in 0 .. 15 : Good(To(AsicPortExtMode(id), mode))
    BY <1>25, In4, Zenon DEF Takes, Ext
  <2> SUFFICES ASSUME NEW id \in Ext, NEW mode \in 0 .. 15
               PROVE  GoodPuts(ExtMode(id, mode))
    OBVIOUS
  <2> DEFINE both == IF mode = ModeGmii
                     THEN <<To(RgtxInv(0), 1), To(RgtxInv(1), 1), To(GmiiTxDelay(1), 5), To(GmiiTxDelay(0), 6)>>
                     ELSE <<>>
             rate == To(BypassLineRate(id), IF mode \in ModeTmii THEN 1 ELSE 0)
             sel == To(AsicPortExtMode(id), mode)
  <2>8. GoodPuts(both) /\ Good(rate) /\ Good(sel)
    BY <2>4, <2>5, <2>6, <2>7, Zenon
  <2>9. ExtMode(id, mode) = both \o <<rate, sel>>
    BY Zenon DEF ExtMode
  <2> HIDE DEF both, rate, sel
  <2> QED
    BY <2>8, <2>9, Puts2, PutsJoin, Zenon
<1>29. \A k \in PortMacForceLink(e) : GoodCall(k)
  <2>1. \A p \in Port : Good(ToBits(AsicPortForceLink(p), AbilityBits(e)))
    BY <1>27, Zenon DEF AsicPortForceLink
  <2> QED
    BY <2>1, Puts1, CallGood, Zenon DEF PortMacForceLink
<1>30. \A k \in PortMacForceLinkExt(e) : GoodCall(k)
  <2>1. \A id \in Ext : Good(ToBits(AsicPortForceLinkExt(id), AbilityBits(e)))
    BY <1>27, Zenon DEF AsicPortForceLinkExt
  <2>2. Either(e, {0, 1}, {ModeGmii, 8} \cup ModeTmii) \subseteq 0 .. 15
    BY SMT DEF Either, ModeGmii, ModeTmii
  <2>3. \A id \in Ext, mode \in 0 .. 15 :
          GoodPuts(ExtMode(id, mode) \o <<ToBits(AsicPortForceLinkExt(id), AbilityBits(e))>>)
    BY <2>1, <1>28, Puts1, PutsJoin, Zenon
  <2>4. \A k \in PortMacForceLinkExt(e) :
          \E id \in Ext, mode \in Either(e, {0, 1}, {ModeGmii, 8} \cup ModeTmii) :
            k = Does(ExtMode(id, mode) \o <<ToBits(AsicPortForceLinkExt(id), AbilityBits(e))>>)
    BY SMTT(40) DEF PortMacForceLinkExt
  <2> QED
    BY <2>2, <2>3, <2>4, CallGood, Zenon
<1>31. \A k \in PortMacLocalLoopbackEnable(e) : GoodCall(k)
  <2> DEFINE phy(p) == IF p \in 0 .. 4 THEN <<To(PhyLoopback(p), Of(e, 0, 1))>> ELSE <<>>
  <2>1. \A p \in Port : Good(To(AsicPortLoopback(p), Of(e, 0, 1)))
    BY <1>3, In1, IndexAssumption, Zenon DEF Takes
  <2>2. \A p \in 0 .. 4 : Good(To(PhyLoopback(p), Of(e, 0, 1)))
    BY <1>4, In1, Zenon DEF Takes
  <2>3. GoodPuts(<<>>)
    BY PutsNone
  <2>4. \A p \in Port : GoodPuts(phy(p))
    BY <2>2, <2>3, Puts1, Zenon
  <2>5. PortMacLocalLoopbackEnable(e) = {Does(<<To(AsicPortLoopback(p), Of(e, 0, 1))>> \o phy(p)) : p \in Port}
    BY Zenon DEF PortMacLocalLoopbackEnable
  <2> HIDE DEF phy
  <2>6. \A p \in Port : GoodPuts(<<To(AsicPortLoopback(p), Of(e, 0, 1))>> \o phy(p))
    BY <2>1, <2>4, Puts1, PutsJoin, Zenon
  <2> QED
    BY <2>5, <2>6, CallGood, Zenon
<1>32. \A k \in PortBackpressureEnable(e) : GoodCall(k)
  <2>1. Good(To(AsicPortJamMode, 1 - Of(e, 0, 1)))
    BY <1>6, In1, NotGood, Zenon DEF Takes
  <2> QED
    BY <2>1, Puts1, CallGood, Zenon DEF PortBackpressureEnable
<1>33. \A k \in PortIsolation(e) : GoodCall(k)
  <2>1. \A p \in Port : Good(ToBits(AsicPortIsolationPermittedPortmask(p), OfBits(e, 8)))
    BY <1>8, MaskGood, IndexAssumption, Zenon
  <2> QED
    BY <2>1, Puts1, CallGood, Zenon DEF PortIsolation
<1>34. \A k \in PortRgmiiDelayExt(e) : GoodCall(k)
  <2>1. \A id \in Ext : Good(To(RgmiiDelay(id), Of(e, 0, 15)))
    BY <1>12, In4, ZenonT(60) DEF Takes, Ext
  <2> QED
    BY <2>1, Puts1, CallGood, Zenon DEF PortRgmiiDelayExt
<1>35. \A k \in PortPhyEnableAll(e) : GoodCall(k)
  <2>1. Good(To(AsicPortEnableAll, 1 - Of(e, 0, 1)))
    BY <1>14, In1, NotGood, Zenon DEF Takes
  <2> QED
    BY <2>1, Puts1, CallGood, Zenon DEF PortPhyEnableAll
<1>36. \A k \in PortEfid(e) : GoodCall(k)
  <2>1. \A p \in Port : Good(To(AsicPortIsolationEfid(p), Of(e, 0, 7)))
    BY <1>16, In3, IndexAssumption, Zenon DEF Takes
  <2> QED
    BY <2>1, Puts1, CallGood, Zenon DEF PortEfid
<1> QED
  BY <1>29, <1>30, <1>31, <1>32, <1>33, <1>34, <1>35, <1>36

(* Media, cable test and frame checks of ports.                            *)
LEMMA PortMediaCallsGood ==
  ASSUME NEW e \in Nat
  PROVE  /\ \A k \in PortPhyComboPortMedia(e) : GoodCall(k)
         /\ \A k \in PortRtctEnable(e) : GoodCall(k)
         /\ \A k \in PortSmallIpg(e) : GoodCall(k)
         /\ \A k \in PortDos(e) : GoodCall(k)
<1>1. {FIBER_CFG_2, UTP_FIB_DET, RTCT_ENABLE, SEL_RTCT_PARA, PORT0_MISC_CFG, DOS_CFG} \subseteq RegBlocks
  BY SMT DEF RegBlocks
<1>2. FIBER_CFG_2.count = 1
  BY DEF FIBER_CFG_2, One, Block
<1>3. UTP_FIB_DET.count = 1
  BY DEF UTP_FIB_DET, One, Block
<1>4. Sound(ComboMedia, 32)
  <2>1. Cell(Word(Reg(FIBER_CFG_2, 0)), 0, 15)
    BY <1>1, <1>2, WordCell
  <2>2. Cell(From(16, Word(Reg(UTP_FIB_DET, 0))), 16, 16 + 15)
    BY <1>1, <1>3, WordFrom
  <2>3. 0 .. 32 - 1 \subseteq (0 .. 15) \cup (16 .. 16 + 15)
    BY SMT
  <2> QED
    BY <2>1, <2>2, <2>3, TwoCells, Zenon DEF ComboMedia
<1>5. RTCT_ENABLE.count = 1
  BY DEF RTCT_ENABLE, One, Block
<1>6. Nested(RTCT_ENABLE, 0, 5)
  BY SMT DEF RTCT_ENABLE, One, Block, Low, Nested
<1>7. Sound(RtctEnable, 5)
  BY <1>1, <1>5, <1>6, FieldSound DEF RtctEnable
<1>8. SEL_RTCT_PARA.count = 1
  BY DEF SEL_RTCT_PARA, One, Block
<1>9. \A bit \in 0 .. 15 : Sound(RtctPara(bit), 1)
  BY <1>1, <1>8, FlagSound DEF RtctPara
<1>10. PORT0_MISC_CFG.count = 8
  BY DEF PORT0_MISC_CFG, Block
<1>11. \A port \in 0 .. 7 : Sound(AsicPortSmallIpg(port), 1)
  BY <1>1, <1>10, FlagSound DEF AsicPortSmallIpg
<1>12. DOS_CFG.count = 1
  BY DEF DOS_CFG, One, Block
<1>13. \A type \in 0 .. 9 : Sound(AsicPortDos(type), 1)
  BY <1>1, <1>12, FlagSound DEF AsicPortDos
<1>14. \A k \in PortPhyComboPortMedia(e) : GoodCall(k)
  <2> DEFINE low == Code(MediaConfig(e))
             high == Code(MediaDetect(e))
  <2>1. /\ MediaConfig(e) \in Nat /\ MediaConfig(e) < Weight(16)
        /\ MediaDetect(e) \in Nat /\ MediaDetect(e) < Weight(16) /\ 16 \in 0 .. 30
    BY Weights, SMT DEF MediaConfig, MediaDetect, Either
  <2>2. low \subseteq 0 .. 16 - 1 /\ high \subseteq 0 .. 16 - 1
    BY <2>1, CodeBelow, Zenon
  <2> HIDE DEF low, high
  <2>3. low \cup {16 + b : b \in high} \subseteq 0 .. 32 - 1
    <3>1. \A b \in 0 .. 16 - 1 : b \in 0 .. 32 - 1 /\ 16 + b \in 0 .. 32 - 1
      BY SMT
    <3> QED
      BY <2>2, <3>1, Zenon
  <2>4. Good(ToBits(ComboMedia, low \cup {16 + b : b \in high}))
    BY <2>3, <1>4, BitsGood, Zenon
  <2> QED
    BY <2>4, Puts1, CallGood, Zenon DEF PortPhyComboPortMedia, low, high
<1>15. \A k \in PortRtctEnable(e) : GoodCall(k)
  <2>1. 6 \in 0 .. 15 /\ 5 \in 0 .. 15 /\ 15 \in 0 .. 15
    BY SMT
  <2>2. /\ Good(ToBits(RtctEnable, OfBits(e, 5)))
      /\ Good(To(RtctPara(6), 1))
      /\ Good(To(RtctPara(5), 0))
      /\ Good(To(RtctPara(15), 0))
      /\ Good(To(RtctPara(15), 1))
    BY <1>7, <1>9, <2>1, In1, In5, OfBitsGood, Zenon DEF Takes
  <2> QED
    BY <2>2, Puts5, CallGood, Zenon DEF PortRtctEnable
<1>16. \A k \in PortSmallIpg(e) : GoodCall(k)
  <2>1. \A p \in Port : Good(To(AsicPortSmallIpg(p), Of(e, 0, 1)))
    BY <1>11, In1, IndexAssumption, Zenon DEF Takes
  <2> QED
    BY <2>1, Puts1, CallGood, Zenon DEF PortSmallIpg
<1>17. \A k \in PortDos(e) : GoodCall(k)
  <2>1. \A type \in 0 .. 9 : Good(To(AsicPortDos(type), Of(e, 0, 1)))
    BY <1>13, In1, Zenon DEF Takes
  <2> QED
    BY <2>1, Puts1, CallGood, Zenon DEF PortDos
<1> QED
  BY <1>14, <1>15, <1>16, <1>17

(* What a PHY negotiates.                                                  *)
LEMMA PhyNegotiationCallsGood ==
  ASSUME NEW e \in Nat
  PROVE  /\ \A k \in PortPhyAutoNegoAbility(e) : GoodCall(k)
<1>1. {SDS_CFG4} \subseteq RegBlocks
  BY SMT DEF RegBlocks
<1>2. \A phy \in 0 .. 4 : Sound(PhyGigabit(phy), 1)
  <2>1. 0 \in Nat /\ 9 \in Nat /\ 9 \in Int /\ (\A phy \in 0 .. 4 : phy \in Nat)
    BY SMT
  <2> QED
    BY <2>1, PhyFlagSound, Zenon DEF PhyGigabit
<1>3. \A phy \in 0 .. 4 : Holds(PhyAdvertised(phy), {5, 6, 7, 8, 10, 11})
  <2> DEFINE of == [b \in {5, 6, 7, 8, 10, 11} |-> b]
  <2>1. DOMAIN of \subseteq Int /\ 8 \in DOMAIN of /\ 10 \in DOMAIN of /\ 9 \notin DOMAIN of
        /\ 8 < 9 /\ 9 < 10 /\ 9 \in Int
    BY SMT
  <2>2. {5, 6, 7, 8, 10, 11} \subseteq {of[b] : b \in DOMAIN of}
    BY Zenon
  <2> HIDE DEF of
  <2>3. \A phy : Mapped(<<Spread(PhyRegister(phy, 0, 4), of)>>)
    BY <2>1, GapHolds, Zenon
  <2>4. \A phy : {5, 6, 7, 8, 10, 11} \subseteq Room(<<Spread(PhyRegister(phy, 0, 4), of)>>)
    BY <2>2, SpreadRoom, Zenon
  <2> QED
    BY <2>3, <2>4, Zenon DEF Holds, PhyAdvertised, of
<1>4. \A phy \in 0 .. 4 : Holds(PhyMode(phy), {6, 8, 12, 13})
  <2> DEFINE of == [b \in {6, 8, 12, 13} |-> b]
  <2>1. DOMAIN of \subseteq Int /\ 6 \in DOMAIN of /\ 8 \in DOMAIN of /\ 7 \notin DOMAIN of
        /\ 6 < 7 /\ 7 < 8 /\ 7 \in Int
    BY SMT
  <2>2. {6, 8, 12, 13} \subseteq {of[b] : b \in DOMAIN of}
    BY Zenon
  <2> HIDE DEF of
  <2>3. \A phy : Mapped(<<Spread(PhyRegister(phy, 0, 0), of)>>)
    BY <2>1, GapHolds, Zenon
  <2>4. \A phy : {6, 8, 12, 13} \subseteq Room(<<Spread(PhyRegister(phy, 0, 0), of)>>)
    BY <2>2, SpreadRoom, Zenon
  <2> QED
    BY <2>3, <2>4, Zenon DEF Holds, PhyMode, of
<1>5. SDS_CFG4.count = 1
  BY DEF SDS_CFG4, One, Block
<1>6. Nested(SDS_CFG4, 13, 3)
  BY SMT DEF SDS_CFG4, One, Block, Nested
<1>7. Sound(FiberMode, 3)
  BY <1>1, <1>5, <1>6, FieldSound DEF FiberMode
<1>8. Sound(FiberModeEnable, 1)
  BY <1>1, <1>5, FlagSound DEF FiberModeEnable
<1>9. \A phy \in 0 .. 4 : Sound(PhyPage(phy), 16)
  <2>1. 0 \in Nat /\ 31 \in Nat /\ (\A phy \in 0 .. 4 : phy \in Nat)
    BY SMT
  <2> QED
    BY <2>1, PhyWordSound, Zenon DEF PhyPage
<1>10. \A p \in 0 .. 4 : Good(Page0(p))
  BY <1>9, In16, Zenon DEF Takes, Page0
<1>11. \A p \in 0 .. 4 : Good(ToBits(PhyAdvertised(p), Either(e, {}, {5, 6, 7, 8, 10, 11})))
  <2>1. Either(e, {}, {5, 6, 7, 8, 10, 11}) \subseteq {5, 6, 7, 8, 10, 11}
    BY Zenon DEF Either
  <2> QED
    BY <2>1, <1>3, HoldsGood, Zenon
<1>12. \A p \in 0 .. 4 : Good(ToBits(PhyMode(p), Either(e, {12}, {6, 8, 12})))
  <2>1. Either(e, {12}, {6, 8, 12}) \subseteq {6, 8, 12, 13}
    BY SMT DEF Either
  <2> QED
    BY <2>1, <1>4, HoldsGood, Zenon
<1>13. \A k \in PortPhyAutoNegoAbility(e) : GoodCall(k)
  <2>1. \A p \in Phy : /\ Good(Page0(p)) /\ Good(To(PhyGigabit(p), Of(e, 0, 1)))
                     /\ Good(ToBits(PhyAdvertised(p), Either(e, {}, {5, 6, 7, 8, 10, 11})))
                     /\ Good(ToBits(PhyMode(p), Either(e, {12}, {6, 8, 12})))
    BY <1>10, <1>11, <1>12, <1>2, In1, PortIndexAssumption, Zenon DEF Takes
  <2>2. Either(e, 5, 7) \in 0 .. 7
    BY SMT DEF Either
  <2>3. Good(To(FiberMode, Either(e, 5, 7)))
    BY <2>2, <1>7, In3, Zenon DEF Takes
  <2>4. Good(To(FiberModeEnable, Of(e, 0, 1)))
    BY <1>8, In1, Zenon DEF Takes
  <2>5. \A p \in Phy : GoodPuts(<<Page0(p), To(PhyGigabit(p), Of(e, 0, 1)),
                                 ToBits(PhyAdvertised(p), Either(e, {}, {5, 6, 7, 8, 10, 11})),
                                 ToBits(PhyMode(p), Either(e, {12}, {6, 8, 12}))>>)
    BY <2>1, Puts4, ZenonT(60)
  <2> QED
    BY <2>3, <2>4, <2>5, Puts2, CallGood, Zenon DEF PortPhyAutoNegoAbility
<1> QED
  BY <1>13

(* What a PHY is forced to.                                                *)
LEMMA PhyForcedCallsGood ==
  ASSUME NEW e \in Nat
  PROVE  /\ \A k \in PortPhyForceModeAbility(e) : GoodCall(k)
<1>1. {SDS_CFG4} \subseteq RegBlocks
  BY SMT DEF RegBlocks
<1>2. \A phy \in 0 .. 4 : Sound(PhyGigabit(phy), 1)
  <2>1. 0 \in Nat /\ 9 \in Nat /\ 9 \in Int /\ (\A phy \in 0 .. 4 : phy \in Nat)
    BY SMT
  <2> QED
    BY <2>1, PhyFlagSound, Zenon DEF PhyGigabit
<1>3. \A phy \in 0 .. 4 : Holds(PhyAdvertised(phy), {5, 6, 7, 8, 10, 11})
  <2> DEFINE of == [b \in {5, 6, 7, 8, 10, 11} |-> b]
  <2>1. DOMAIN of \subseteq Int /\ 8 \in DOMAIN of /\ 10 \in DOMAIN of /\ 9 \notin DOMAIN of
        /\ 8 < 9 /\ 9 < 10 /\ 9 \in Int
    BY SMT
  <2>2. {5, 6, 7, 8, 10, 11} \subseteq {of[b] : b \in DOMAIN of}
    BY Zenon
  <2> HIDE DEF of
  <2>3. \A phy : Mapped(<<Spread(PhyRegister(phy, 0, 4), of)>>)
    BY <2>1, GapHolds, Zenon
  <2>4. \A phy : {5, 6, 7, 8, 10, 11} \subseteq Room(<<Spread(PhyRegister(phy, 0, 4), of)>>)
    BY <2>2, SpreadRoom, Zenon
  <2> QED
    BY <2>3, <2>4, Zenon DEF Holds, PhyAdvertised, of
<1>4. \A phy \in 0 .. 4 : Sound(PhyPowerDown(phy), 1)
  <2>1. 0 \in Nat /\ 11 \in Int /\ (\A phy \in 0 .. 4 : phy \in Nat)
    BY SMTT(40)
  <2> QED
    BY <2>1, PhyFlagSound, Zenon DEF PhyPowerDown
<1>5. \A phy \in 0 .. 4 : Sound(PhyLoopback(phy), 1)
  <2>1. 0 \in Nat /\ 14 \in Int /\ (\A phy \in 0 .. 4 : phy \in Nat)
    BY SMT
  <2> QED
    BY <2>1, PhyFlagSound, Zenon DEF PhyLoopback
<1>6. \A phy \in 0 .. 4 : Holds(PhyMode(phy), {6, 8, 12, 13})
  <2> DEFINE of == [b \in {6, 8, 12, 13} |-> b]
  <2>1. DOMAIN of \subseteq Int /\ 6 \in DOMAIN of /\ 8 \in DOMAIN of /\ 7 \notin DOMAIN of
        /\ 6 < 7 /\ 7 < 8 /\ 7 \in Int
    BY SMT
  <2>2. {6, 8, 12, 13} \subseteq {of[b] : b \in DOMAIN of}
    BY Zenon
  <2> HIDE DEF of
  <2>3. \A phy : Mapped(<<Spread(PhyRegister(phy, 0, 0), of)>>)
    BY <2>1, GapHolds, Zenon
  <2>4. \A phy : {6, 8, 12, 13} \subseteq Room(<<Spread(PhyRegister(phy, 0, 0), of)>>)
    BY <2>2, SpreadRoom, Zenon
  <2> QED
    BY <2>3, <2>4, Zenon DEF Holds, PhyMode, of
<1>7. SDS_CFG4.count = 1
  BY DEF SDS_CFG4, One, Block
<1>8. Nested(SDS_CFG4, 13, 3)
  BY SMT DEF SDS_CFG4, One, Block, Nested
<1>9. Sound(FiberMode, 3)
  BY <1>1, <1>7, <1>8, FieldSound DEF FiberMode
<1>10. Sound(FiberModeEnable, 1)
  BY <1>1, <1>7, FlagSound DEF FiberModeEnable
<1>11. \A phy \in 0 .. 4 : Sound(PhyPage(phy), 16)
  <2>1. 0 \in Nat /\ 31 \in Nat /\ (\A phy \in 0 .. 4 : phy \in Nat)
    BY SMT
  <2> QED
    BY <2>1, PhyWordSound, Zenon DEF PhyPage
<1>12. \A p \in 0 .. 4 : Good(Page0(p))
  BY <1>11, In16, Zenon DEF Takes, Page0
<1>13. \A p \in 0 .. 4 : Good(ToBits(PhyAdvertised(p), Either(e, {}, {5, 6, 7, 8, 10, 11})))
  <2>1. Either(e, {}, {5, 6, 7, 8, 10, 11}) \subseteq {5, 6, 7, 8, 10, 11}
    BY Zenon DEF Either
  <2> QED
    BY <2>1, <1>3, HoldsGood, Zenon
<1>14. \A p \in 0 .. 4 : Good(ToBits(PhyMode(p), Either(e, {}, {8, 13})))
  <2>1. Either(e, {}, {8, 13}) \subseteq {6, 8, 12, 13}
    BY SMT DEF Either
  <2> QED
    BY <2>1, <1>6, HoldsGood, Zenon
<1>15. \A k \in PortPhyForceModeAbility(e) : GoodCall(k)
  <2>1. \A p \in Phy : /\ Good(Page0(p)) /\ Good(To(PhyGigabit(p), 0))
                     /\ Good(ToBits(PhyAdvertised(p), Either(e, {}, {5, 6, 7, 8, 10, 11})))
                     /\ Good(To(PhyPowerDown(p), 1)) /\ Good(To(PhyPowerDown(p), 0)) /\ Good(To(PhyLoopback(p), 0))
                     /\ Good(ToBits(PhyMode(p), Either(e, {}, {8, 13})))
    BY <1>12, <1>13, <1>14, <1>2, <1>4, <1>5, In1, PortIndexAssumption, Zenon DEF Takes
  <2>2. 5 \in 0 .. 7
    BY SMT
  <2>3. Good(To(FiberMode, 5)) /\ Good(To(FiberModeEnable, 0))
    BY <2>2, <1>9, <1>10, In1, In3, Zenon DEF Takes
  <2> DEFINE all(p) == <<Page0(p), To(PhyGigabit(p), 0),
                         ToBits(PhyAdvertised(p), Either(e, {}, {5, 6, 7, 8, 10, 11})),
                         To(PhyPowerDown(p), 1), To(PhyLoopback(p), 0),
                         ToBits(PhyMode(p), Either(e, {}, {8, 13})), To(PhyPowerDown(p), 0)>>
  <2>4. \A p \in Phy : GoodPuts(all(p))
    BY <2>1, Puts7, Zenon
  <2>5. PortPhyForceModeAbility(e) = {Does(all(p)) : p \in Phy} \cup {Does(<<To(FiberMode, 5), To(FiberModeEnable, 0)>>)}
    BY Zenon DEF PortPhyForceModeAbility
  <2> HIDE DEF all
  <2> QED
    BY <2>3, <2>4, <2>5, Puts2, CallGood, Zenon
<1> QED
  BY <1>15

(* Test modes, clock and power of a PHY.                                   *)
LEMMA PhyTestCallsGood ==
  ASSUME NEW e \in Nat
  PROVE  /\ \A k \in PortPhyTestMode(e) : GoodCall(k)
         /\ \A k \in PortPhy1000BaseTMasterSlave(e) : GoodCall(k)
         /\ \A k \in PortAdminEnable(e) : GoodCall(k)
<1>1. \A phy \in 0 .. 4, number \in 0 .. 31 : Sound(PhyTune(phy, number), 16)
  <2>1. 2 \in Nat /\ (\A phy \in 0 .. 4 : phy \in Nat) /\ \A number \in 0 .. 31 : number \in Nat
    BY SMT
  <2> QED
    BY <2>1, PhyWordSound, Zenon DEF PhyTune
<1>2. \A phy \in 0 .. 4 : Sound(PhyTestMode(phy), 3)
  <2>1. 0 \in Nat /\ 9 \in Nat /\ 13 \in Int /\ 3 \in Nat /\ (\A phy \in 0 .. 4 : phy \in Nat)
    BY SMT
  <2> QED
    BY <2>1, PhyFieldSound, Zenon DEF PhyTestMode
<1>3. \A phy \in 0 .. 4 : Sound(PhyPage(phy), 16)
  <2>1. 0 \in Nat /\ 31 \in Nat /\ (\A phy \in 0 .. 4 : phy \in Nat)
    BY SMT
  <2> QED
    BY <2>1, PhyWordSound, Zenon DEF PhyPage
<1>4. \A phy \in 0 .. 4 : Sound(PhyMaster(phy), 2)
  <2>1. 0 \in Nat /\ 9 \in Nat /\ 11 \in Int /\ 2 \in Nat /\ (\A phy \in 0 .. 4 : phy \in Nat)
    BY SMT
  <2> QED
    BY <2>1, PhyFieldSound, Zenon DEF PhyMaster
<1>5. \A phy \in 0 .. 4 : Sound(PhyPowerDown(phy), 1)
  <2>1. 0 \in Nat /\ 11 \in Int /\ (\A phy \in 0 .. 4 : phy \in Nat)
    BY SMT
  <2> QED
    BY <2>1, PhyFlagSound, Zenon DEF PhyPowerDown
<1>6. \A p \in 0 .. 4 : Good(Page0(p))
  BY <1>3, In16, Zenon DEF Takes, Page0
<1>7. \A k \in PortPhyTestMode(e) : GoodCall(k)
  <2> DEFINE Test(p, mode) == <<Page0(p), To(PhyTestMode(p), mode)>>
             Others(p) == ForEach(4, LAMBDA i : Page0(IF i < p THEN i ELSE i + 1))
             tuned == ForEach(5, LAMBDA i : To(PhyTune(2, 19 + i), Tuning))
             page2 == <<To(PhyPage(2), 2)>>
             Tune == page2 \o tuned \o page2
  <2>1. \A p \in 0 .. 4, mode \in 0 .. 7 : GoodPuts(Test(p, mode))
    BY <1>6, <1>2, In3, Puts2, Zenon DEF Takes
  <2>2. ASSUME NEW p \in 0 .. 4
        PROVE  GoodPuts(Others(p)) /\ \A i \in 1 .. 4 : GoodPuts(SubSeq(Others(p), 1, i))
    <3> DEFINE made == Others(p)
               Other(i) == Page0(IF i - 1 < p THEN i - 1 ELSE i - 1 + 1)
    <3>1. made = [i \in 1 .. 4 |-> Other(i)]
      BY Zenon DEF ForEach
    <3>2. 4 \in Nat /\ \A i \in 1 .. 4 : (IF i - 1 < p THEN i - 1 ELSE i - 1 + 1) \in 0 .. 4
      BY SMT
    <3>3. \A i \in 1 .. 4 : Good(Other(i))
      BY <3>2, <1>6, Zenon
    <3> HIDE DEF made, Other
    <3>4. made = [i \in 1 .. 4 |-> made[i]] /\ \A i \in 1 .. 4 : made[i] = Other(i)
      BY <3>1, Zenon
    <3>5. GoodPuts(made)
      BY <3>2, <3>3, <3>4, PutsEach, Zenon
    <3>6. Len(made) = 4
      BY <3>1, SMT
    <3>7. \A i \in 1 .. 4 : GoodPuts(SubSeq(made, 1, i))
      BY <3>5, <3>6, PutsBegin, Zenon
    <3> QED
      BY <3>5, <3>7, Zenon DEF made
  <2>3. GoodPuts(Tune)
    <3>1. tuned = [i \in 1 .. 5 |-> To(PhyTune(2, 19 + (i - 1)), Tuning)]
      BY Zenon DEF ForEach
    <3>2. /\ 5 \in Nat /\ \A i \in 1 .. 5 : 19 + (i - 1) \in 0 .. 31
          /\ 2 \in 0 .. 4
      BY SMT
    <3>3. Tuning \in 0 .. RegDataMax /\ 2 \in 0 .. RegDataMax
      BY SMT DEF Tuning, RegDataMax
    <3>4. \A i \in 1 .. 5 : Good(To(PhyTune(2, 19 + (i - 1)), Tuning))
      BY <3>2, <3>3, <1>1, In16, Zenon DEF Takes
    <3> HIDE DEF tuned
    <3>5. tuned = [i \in 1 .. 5 |-> tuned[i]] /\ \A i \in 1 .. 5 : tuned[i] = To(PhyTune(2, 19 + (i - 1)), Tuning)
      BY <3>1, Zenon
    <3>6. GoodPuts(tuned)
      BY <3>2, <3>4, <3>5, PutsEach, Zenon
    <3>7. GoodPuts(page2)
      BY <3>2, <3>3, <1>3, In16, Puts1, Zenon DEF Takes
    <3> HIDE DEF page2
    <3> QED
      BY <3>6, <3>7, PutsJoin, Zenon
  <2> HIDE DEF Tune
  <2>4. \A p \in Phy : p \in 0 .. 4
    BY PortIndexAssumption, Zenon
  <2>5. 0 \in 0 .. 7 /\ 1 \in 0 .. 7 /\ 4 \in 0 .. 7
    BY SMT
  <2>9. PortPhyTestMode(e) =
          {Does(Test(p, 0)) : p \in Phy}
          \cup {Does(Others(p) \o Tune \o Test(p, 1)) : p \in Phy}
          \cup {Does(Others(p) \o Test(p, 4)) : p \in Phy}
          \cup {GivesUp(SubSeq(Others(p), 1, i)) : p \in Phy, i \in 1 .. 4}
    BY SMT DEF PortPhyTestMode, Tune
  <2> HIDE DEF Others, Test
  <2>6. \A k \in PortPhyTestMode(e) :
          \/ \E p \in Phy : k = Does(Test(p, 0))
          \/ \E p \in Phy : k = Does(Others(p) \o Tune \o Test(p, 1))
          \/ \E p \in Phy : k = Does(Others(p) \o Test(p, 4))
          \/ \E p \in Phy, i \in 1 .. 4 : k = GivesUp(SubSeq(Others(p), 1, i))
    BY <2>9, SMT
  <2>7. \A p \in Phy : /\ GoodPuts(Test(p, 0)) /\ GoodPuts(Others(p) \o Tune \o Test(p, 1))
                     /\ GoodPuts(Others(p) \o Test(p, 4))
                     /\ \A i \in 1 .. 4 : GoodPuts(SubSeq(Others(p), 1, i))
    BY <2>1, <2>2, <2>3, <2>4, <2>5, PutsJoin, Zenon
  <2> QED
    BY <2>6, <2>7, CallGood, Zenon
<1>8. \A k \in PortPhy1000BaseTMasterSlave(e) : GoodCall(k)
  <2>1. \A p \in Phy : Good(Page0(p)) /\ Good(To(PhyMaster(p), Of(e, 0, 3)))
    BY <1>6, <1>4, In2, PortIndexAssumption, Zenon DEF Takes
  <2> QED
    BY <2>1, Puts3, CallGood, Zenon DEF PortPhy1000BaseTMasterSlave
<1>9. \A k \in PortAdminEnable(e) : GoodCall(k)
  <2>1. \A p \in Phy : Good(Page0(p)) /\ Good(To(PhyPowerDown(p), 1 - Of(e, 0, 1)))
    BY <1>6, <1>5, NotGood, PortIndexAssumption, Zenon
  <2> QED
    BY <2>1, Puts3, CallGood, Zenon DEF PortAdminEnable
<1> QED
  BY <1>7, <1>8, <1>9

(* Power saving and energy efficient Ethernet.                             *)
LEMMA PhyPowerCallsGood ==
  ASSUME NEW e \in Nat
  PROVE  /\ \A k \in SwitchGreenEthernet(e) : GoodCall(k)
         /\ \A k \in EeePortEnable(e) : GoodCall(k)
         /\ \A k \in EeeInit(e) : GoodCall(k)
<1>1. {PHY_AD, PORT0_EEECFG} \subseteq RegBlocks
  BY SMT DEF RegBlocks
<1>2. \A phy \in 0 .. 4 : Sound(AsicPowerSaving(phy), 1)
  <2>1. 0 \in Nat /\ 21 \in Nat /\ 12 \in Int /\ (\A phy \in 0 .. 4 : phy \in Nat)
    BY SMT
  <2> QED
    BY <2>1, PhyFlagSound, Zenon DEF AsicPowerSaving
<1>3. PHY_AD.count = 1
  BY DEF PHY_AD, One, Block
<1>4. Sound(AsicGreenEthernet, 1)
  BY <1>1, <1>3, FlagSound DEF AsicGreenEthernet
<1>5. PORT0_EEECFG.count = 8
  BY DEF PORT0_EEECFG, Block
<1>6. \A port \in 0 .. 7 : Sound(AsicEee100M(port), 1)
  BY <1>1, <1>5, FlagSound DEF AsicEee100M
<1>7. \A port \in 0 .. 7 : Sound(AsicEeeGiga(port), 1)
  BY <1>1, <1>5, FlagSound DEF AsicEeeGiga
<1>8. \A port \in 0 .. 7 : Sound(EeeTx(port), 1)
  BY <1>1, <1>5, FlagSound DEF EeeTx
<1>9. \A port \in 0 .. 7 : Sound(EeeRx(port), 1)
  BY <1>1, <1>5, FlagSound DEF EeeRx
<1>10. \A phy \in 0 .. 4 : Sound(PhyExtPage(phy), 16)
  <2>1. 7 \in Nat /\ 30 \in Nat /\ (\A phy \in 0 .. 4 : phy \in Nat)
    BY SMT
  <2> QED
    BY <2>1, PhyWordSound, Zenon DEF PhyExtPage
<1>11. \A phy \in 0 .. 4 : Sound(PhyEee(phy), 16)
  <2>1. 7 \in Nat /\ 21 \in Nat /\ (\A phy \in 0 .. 4 : phy \in Nat)
    BY SMT
  <2> QED
    BY <2>1, PhyWordSound, Zenon DEF PhyEee
<1>12. \A phy \in 0 .. 4 : Sound(PhyPage(phy), 16)
  <2>1. 0 \in Nat /\ 31 \in Nat /\ (\A phy \in 0 .. 4 : phy \in Nat)
    BY SMT
  <2> QED
    BY <2>1, PhyWordSound, Zenon DEF PhyPage
<1>13. \A p \in 0 .. 4 : Good(Page0(p))
  BY <1>12, In16, Zenon DEF Takes, Page0
<1>14. \A k \in SwitchGreenEthernet(e) : GoodCall(k)
  <2> DEFINE made == ForEach(10, LAMBDA i : IF i % 2 = 0 THEN Page0(i \div 2) ELSE To(AsicPowerSaving(i \div 2), Of(e, 0, 1)))
             Pg(i) == Page0((i - 1) \div 2)
             Save(i) == To(AsicPowerSaving((i - 1) \div 2), Of(e, 0, 1))
  <2>1. made = [i \in 1 .. 10 |-> IF (i - 1) % 2 = 0 THEN Pg(i) ELSE Save(i)]
    BY Zenon DEF ForEach
  <2>2. 10 \in Nat /\ \A i \in 1 .. 10 : (i - 1) \div 2 \in 0 .. 4
    BY SMT
  <2>3. \A i \in 1 .. 10 : Good(Pg(i)) /\ Good(Save(i))
    BY <2>2, <1>13, <1>2, In1, Zenon DEF Takes
  <2>4. Good(To(AsicGreenEthernet, Of(e, 0, 1)))
    BY <1>4, In1, Zenon DEF Takes
  <2>5. SwitchGreenEthernet(e) = {Does(<<To(AsicGreenEthernet, Of(e, 0, 1))>> \o made)}
    BY Zenon DEF SwitchGreenEthernet
  <2> HIDE DEF made, Pg, Save
  <2>6. made = [i \in 1 .. 10 |-> made[i]] /\ \A i \in 1 .. 10 : made[i] \in {Pg(i), Save(i)}
    BY <2>1, SMT
  <2>7. \A i \in 1 .. 10 : Good(made[i])
    BY <2>3, <2>6, Zenon
  <2>8. GoodPuts(made)
    BY <2>2, <2>6, <2>7, PutsEach, Zenon
  <2> QED
    BY <2>4, <2>5, <2>8, Puts1, PutsJoin, CallGood, Zenon
<1>15. \A k \in EeePortEnable(e) : GoodCall(k)
  <2> DEFINE Mac(p) == <<To(AsicEee100M(p), Of(e, 0, 1)), To(AsicEeeGiga(p), Of(e, 0, 1)),
                        To(EeeTx(p), Of(e, 0, 1)), To(EeeRx(p), Of(e, 0, 1))>>
             OfPhy(p) == <<To(PhyPage(p), 7), To(PhyExtPage(p), 32), To(PhyEee(p), Either(e, 0, 256)), Page0(p)>>
  <2>1. \A p \in 0 .. 7 : /\ Good(To(AsicEee100M(p), Of(e, 0, 1))) /\ Good(To(AsicEeeGiga(p), Of(e, 0, 1)))
                         /\ Good(To(EeeTx(p), Of(e, 0, 1))) /\ Good(To(EeeRx(p), Of(e, 0, 1)))
    BY <1>6, <1>7, <1>8, <1>9, In1, Zenon DEF Takes
  <2>2. \A p \in 0 .. 7 : GoodPuts(Mac(p))
    BY <2>1, Puts4, ZenonT(60)
  <2>3. 7 \in 0 .. RegDataMax /\ 32 \in 0 .. RegDataMax /\ Either(e, 0, 256) \in 0 .. RegDataMax
    BY SMT DEF RegDataMax, Either
  <2>4. \A p \in 0 .. 4 : /\ Good(To(PhyPage(p), 7)) /\ Good(To(PhyExtPage(p), 32))
                         /\ Good(To(PhyEee(p), Either(e, 0, 256))) /\ Good(Page0(p))
    BY <2>3, <1>13, <1>12, <1>10, <1>11, In16, ZenonT(60) DEF Takes
  <2>5. \A p \in 0 .. 4 : GoodPuts(OfPhy(p))
    BY <2>4, Puts4, ZenonT(60)
  <2>6. EeePortEnable(e) = {Does(Mac(p) \o OfPhy(p)) : p \in Phy} \cup {GivesUp(Mac(p)) : p \in {5, 7}}
    BY Zenon DEF EeePortEnable
  <2>7. 5 \in 0 .. 7 /\ 7 \in 0 .. 7 /\ \A p \in Phy : p \in 0 .. 4 /\ p \in 0 .. 7
    BY PortIndexAssumption, SMT
  <2> HIDE DEF Mac, OfPhy
  <2>8. \A p \in Phy : GoodPuts(Mac(p) \o OfPhy(p))
    BY <2>2, <2>5, <2>7, PutsJoin, Zenon
  <2>9. \A p \in {5, 7} : GoodPuts(Mac(p))
    BY <2>2, <2>7, Zenon
  <2> QED
    BY <2>6, <2>8, <2>9, CallGood, Zenon
<1>16. \A k \in EeeInit(e) : GoodCall(k)
  <2>1. 0 \in 0 .. 7
    BY SMT
  <2>2. Good(To(AsicEeeGiga(0), 1)) /\ Good(To(AsicEee100M(0), 1))
    BY <1>7, <1>6, <2>1, In1, Zenon DEF Takes
  <2> QED
    BY <2>2, Puts2, CallGood, Zenon DEF EeeInit
<1> QED
  BY <1>14, <1>15, <1>16

(* Flooding, learning and ageing.                                          *)
LEMMA AddressCallsGood ==
  ASSUME NEW e \in Nat
  PROVE  /\ \A k \in L2Init(e) : GoodCall(k)
         /\ \A k \in L2FloodPortMask(e) : GoodCall(k)
         /\ \A k \in L2LocalPktPermit(e) : GoodCall(k)
         /\ \A k \in L2LimitLearningCnt(e) : GoodCall(k)
         /\ \A k \in L2LimitLearningCntAction(e) : GoodCall(k)
         /\ \A k \in L2AgingEnable(e) : GoodCall(k)
         /\ \A k \in L2FlushLinkDownPortAddrEnable(e) : GoodCall(k)
         /\ \A k \in L2Aging(e) : GoodCall(k)
         /\ \A k \in L2IpMcastAddrLookup(e) : GoodCall(k)
         /\ \A k \in L2Driver(e) : GoodCall(k)
         /\ \A k \in TrapUnknownUnicastPktAction(e) : GoodCall(k)
<1>1. {LUT_CFG, LUT_PORT0_LEARN_LIMITNO, UNDA_FLOODING_PMSK, UNMCAST_FLOADING_PMSK,
   BCAST_FLOADING_PMSK, SOURCE_PORT_PERMIT, PORT_SECURITY_CTRL, LUT_AGEOUT_CTRL, L2_FLUSH_CTRL2,
   L2_FLUSH_CTRL1, IPMC_GROUP_ENTRY0_H, IPMC_GROUP_ENTRY0_L} \subseteq RegBlocks
  BY SMT DEF RegBlocks
<1>2. LUT_CFG.count = 1
  BY DEF LUT_CFG, One, Block
<1>3. Sound(AsicLutIpMulticastLookup, 1)
  BY <1>1, <1>2, FlagSound DEF AsicLutIpMulticastLookup
<1>4. Sound(AsicLutCamTbUsage, 1)
  BY <1>1, <1>2, FlagSound DEF AsicLutCamTbUsage
<1>5. \A v \in Nat : Code(v) \subseteq {0, 1, 2, 8, 9} => Good(To(AsicLutAgeTimerSpeed, v))
  <2> DEFINE of == [b \in {0, 1, 2, 8, 9} |-> b]
  <2>1. DOMAIN of \subseteq Int /\ 2 \in DOMAIN of /\ 8 \in DOMAIN of /\ 3 \notin DOMAIN of
        /\ 2 < 3 /\ 3 < 8 /\ 3 \in Int
    BY SMT
  <2>2. {0, 1, 2, 8, 9} \subseteq {of[b] : b \in DOMAIN of}
    BY Zenon
  <2> HIDE DEF of
  <2>3. Holds(<<Spread(Reg(LUT_CFG, 0), of)>>, {0, 1, 2, 8, 9})
    BY <2>1, <2>2, GapHolds, SpreadRoom, Zenon DEF Holds
  <2> QED
    BY <2>3, HoldsGood, Zenon DEF AsicLutAgeTimerSpeed, of, To
<1>6. LUT_PORT0_LEARN_LIMITNO.count = 8
  BY DEF LUT_PORT0_LEARN_LIMITNO, Block
<1>7. \A port \in 0 .. 7 : Sound(AsicLutLearnLimitNo(port), 16)
  BY <1>1, <1>6, WordSound DEF AsicLutLearnLimitNo
<1>8. UNDA_FLOODING_PMSK.count = 1
  BY DEF UNDA_FLOODING_PMSK, One, Block
<1>9. Sound(AsicPortUnknownDaFloodingPortmask, 16)
  BY <1>1, <1>8, WordSound DEF AsicPortUnknownDaFloodingPortmask
<1>10. UNMCAST_FLOADING_PMSK.count = 1
  BY DEF UNMCAST_FLOADING_PMSK, One, Block
<1>11. Sound(AsicPortUnknownMulticastFloodingPortmask, 16)
  BY <1>1, <1>10, WordSound DEF AsicPortUnknownMulticastFloodingPortmask
<1>12. BCAST_FLOADING_PMSK.count = 1
  BY DEF BCAST_FLOADING_PMSK, One, Block
<1>13. Sound(AsicPortBcastFloodingPortmask, 16)
  BY <1>1, <1>12, WordSound DEF AsicPortBcastFloodingPortmask
<1>14. SOURCE_PORT_PERMIT.count = 1
  BY DEF SOURCE_PORT_PERMIT, One, Block
<1>15. \A port \in 0 .. 7 : Sound(AsicPortBlockSpa(port), 1)
  BY <1>1, <1>14, FlagSound DEF AsicPortBlockSpa
<1>16. PORT_SECURITY_CTRL.count = 1
  BY DEF PORT_SECURITY_CTRL, One, Block
<1>17. Nested(PORT_SECURITY_CTRL, 4, 2)
  BY SMT DEF PORT_SECURITY_CTRL, One, Block, Each, Nested
<1>18. Sound(AsicLutLearnOverAct, 2)
  BY <1>1, <1>16, <1>17, FieldSound DEF AsicLutLearnOverAct
<1>19. LUT_AGEOUT_CTRL.count = 1
  BY DEF LUT_AGEOUT_CTRL, One, Block
<1>20. \A port \in 0 .. 7 : Sound(AsicLutDisableAging(port), 1)
  BY <1>1, <1>19, FlagSound DEF AsicLutDisableAging
<1>21. Sound(AsicLutLinkDownForceAging, 1)
  BY <1>1, <1>2, FlagSound DEF AsicLutLinkDownForceAging
<1>22. Sound(AsicLutIpLookupMethod, 1)
  BY <1>1, <1>2, FlagSound DEF AsicLutIpLookupMethod
<1>23. L2_FLUSH_CTRL2.count = 1
  BY DEF L2_FLUSH_CTRL2, One, Block
<1>24. Nested(L2_FLUSH_CTRL2, 0, 2)
  BY SMT DEF L2_FLUSH_CTRL2, One, Block, Nested
<1>25. Sound(AsicLutFlushMode, 2)
  BY <1>1, <1>23, <1>24, FieldSound DEF AsicLutFlushMode
<1>26. Sound(AsicLutFlushType, 1)
  BY <1>1, <1>23, FlagSound DEF AsicLutFlushType
<1>27. L2_FLUSH_CTRL1.count = 1
  BY DEF L2_FLUSH_CTRL1, One, Block
<1>28. Nested(L2_FLUSH_CTRL1, 0, 12)
  BY SMT DEF L2_FLUSH_CTRL1, One, Block, Nested
<1>29. Sound(AsicLutFlushVid, 12)
  BY <1>1, <1>27, <1>28, FieldSound DEF AsicLutFlushVid
<1>30. Nested(L2_FLUSH_CTRL1, 12, 4)
  BY SMT DEF L2_FLUSH_CTRL1, One, Block, Nested
<1>31. Sound(AsicLutFlushFid, 4)
  BY <1>1, <1>27, <1>30, FieldSound DEF AsicLutFlushFid
<1>32. IPMC_GROUP_ENTRY0_H.count = 64
  BY DEF IPMC_GROUP_ENTRY0_H, Block
<1>33. IPMC_GROUP_ENTRY0_L.count = 64
  BY DEF IPMC_GROUP_ENTRY0_L, Block
<1>34. \A index \in 0 .. 63 : Sound(AsicLutIPMCGroup(index), 28)
  <2>1. \A index \in 0 .. 63 : Cell(From(16, Word(Reg(IPMC_GROUP_ENTRY0_H, index))), 16, 16 + 15)
    BY <1>1, <1>32, WordFrom
  <2>2. \A index \in 0 .. 63 : Cell(Word(Reg(IPMC_GROUP_ENTRY0_L, index)), 0, 15)
    BY <1>1, <1>33, WordCell
  <2>3. 0 .. 28 - 1 \subseteq (16 .. 16 + 15) \cup (0 .. 15)
    BY SMT
  <2> QED
    BY <2>1, <2>2, <2>3, TwoCells, ZenonT(60) DEF AsicLutIPMCGroup
<1>35. Nested(PORT_SECURITY_CTRL, 6, 2)
  BY SMT DEF PORT_SECURITY_CTRL, One, Block, Each, Nested
<1>36. Sound(AsicPortUnknownDaBehavior, 2)
  BY <1>1, <1>16, <1>35, FieldSound DEF AsicPortUnknownDaBehavior
<1>37. Nested(PORT_SECURITY_CTRL, 0, 2)
  BY SMT DEF PORT_SECURITY_CTRL, One, Block, Each, Nested
<1>38. Sound(AsicPortUnknownSaBehavior, 2)
  BY <1>1, <1>16, <1>37, FieldSound DEF AsicPortUnknownSaBehavior
<1>39. Nested(PORT_SECURITY_CTRL, 2, 2)
  BY SMT DEF PORT_SECURITY_CTRL, One, Block, Each, Nested
<1>40. Sound(AsicPortUnmatchedSaBehavior, 2)
  BY <1>1, <1>16, <1>39, FieldSound DEF AsicPortUnmatchedSaBehavior
<1>41. \A t \in 0 .. 7, s \in 0 .. 3 : t + 256 * s \in Nat /\ Code(t + 256 * s) \subseteq {0, 1, 2, 8, 9}
  <2> SUFFICES ASSUME NEW t \in 0 .. 7, NEW s \in 0 .. 3
               PROVE  t + 256 * s \in Nat /\ Code(t + 256 * s) \subseteq {0, 1, 2, 8, 9}
    OBVIOUS
  <2> DEFINE v == t + 256 * s
  <2>1. v \in Nat /\ v < 1024
    BY SMT
  <2>2. /\ v \div 8 = 32 * s /\ v \div 16 = 16 * s /\ v \div 32 = 8 * s
        /\ v \div 64 = 4 * s /\ v \div 128 = 2 * s
    BY SMT
  <2>3. /\ (32 * s) % 2 = 0 /\ (16 * s) % 2 = 0 /\ (8 * s) % 2 = 0 /\ (4 * s) % 2 = 0 /\ (2 * s) % 2 = 0
    BY SMT
  <2> HIDE DEF v
  <2>4. \A b \in 3 .. 7 : ~HasBit(v, b)
    <3>1. \A b : HasBit(v, b) <=> (v \div Weight(b)) % 2 = 1
      BY Zenon DEF HasBit, Weight
    <3>2. /\ Weight(3) = 8 /\ Weight(4) = 16 /\ Weight(5) = 32 /\ Weight(6) = 64 /\ Weight(7) = 128
      BY Weights, SMT
    <3>3. /\ (v \div Weight(3)) % 2 = 0 /\ (v \div Weight(4)) % 2 = 0 /\ (v \div Weight(5)) % 2 = 0
          /\ (v \div Weight(6)) % 2 = 0 /\ (v \div Weight(7)) % 2 = 0
      BY <2>2, <2>3, <3>2, Zenon
    <3>4. \A b \in 3 .. 7 : b = 3 \/ b = 4 \/ b = 5 \/ b = 6 \/ b = 7
      BY SMT
    <3>5. ~HasBit(v, 3) /\ ~HasBit(v, 4) /\ ~HasBit(v, 5) /\ ~HasBit(v, 6) /\ ~HasBit(v, 7)
      BY <3>1, <3>3, SMT
    <3> QED
      BY <3>4, <3>5, Zenon
  <2>5. Code(v) \subseteq 0 .. 10 - 1
    <3>1. 10 \in 0 .. 30 /\ v < Weight(10)
      BY <2>1, Weights, SMT
    <3> QED
      BY <2>1, <3>1, CodeBelow, ZenonT(60)
  <2>6. Code(v) \subseteq {b \in 0 .. 30 : HasBit(v, b)}
    BY Zenon DEF Code, HasBit
  <2>7. \A b \in Code(v) : b \in 0 .. 9 /\ b \notin 3 .. 7
    <3>1. 0 .. 10 - 1 = 0 .. 9
      BY SMT
    <3> QED
      BY <2>4, <2>5, <2>6, <3>1, Zenon
  <2>8. Code(v) \subseteq {0, 1, 2, 8, 9}
    BY <2>7, SMT
  <2> QED
    BY <2>1, <2>8, ZenonT(60) DEF v
<1>42. \A k \in L2Init(e) : GoodCall(k)
  <2> DEFINE Limits == ForEach(8, LAMBDA p : To(AsicLutLearnLimitNo(p), LearnLimitMax))
  <2>1. GoodPuts(Limits)
    <3>1. Limits = [i \in 1 .. 8 |-> To(AsicLutLearnLimitNo(i - 1), LearnLimitMax)]
      BY Zenon DEF ForEach
    <3>2. 8 \in Nat /\ \A i \in 1 .. 8 : i - 1 \in 0 .. 7
      BY SMT
    <3>3. \A i \in 1 .. 8 : Good(To(AsicLutLearnLimitNo(i - 1), LearnLimitMax))
      BY <3>2, <1>7, InLimit, Zenon DEF Takes
    <3> HIDE DEF Limits
    <3>4. /\ Limits = [i \in 1 .. 8 |-> Limits[i]]
          /\ \A i \in 1 .. 8 : Limits[i] = To(AsicLutLearnLimitNo(i - 1), LearnLimitMax)
      BY <3>1, Zenon
    <3> QED
      BY <3>2, <3>3, <3>4, PutsEach, Zenon
  <2>2. 6 \in 0 .. 7 /\ 2 \in 0 .. 3
    BY SMT
  <2>3. Good(To(AsicLutAgeTimerSpeed, 6 + 256 * 2))
    BY <2>2, <1>41, <1>5, ZenonT(60)
  <2>4. Good(To(AsicLutIpMulticastLookup, 0)) /\ Good(To(AsicLutCamTbUsage, 0))
    BY <1>3, <1>4, In1, Zenon DEF Takes
  <2> DEFINE three == <<To(AsicLutIpMulticastLookup, 0), To(AsicLutCamTbUsage, 0), To(AsicLutAgeTimerSpeed, 6 + 256 * 2)>>
  <2>5. L2Init(e) = {Does(three \o Limits)}
    BY Zenon DEF L2Init
  <2>6. GoodPuts(three)
    BY <2>3, <2>4, Puts3, ZenonT(60)
  <2> HIDE DEF three, Limits
  <2> QED
    BY <2>1, <2>5, <2>6, PutsJoin, CallGood, Zenon
<1>43. \A k \in L2FloodPortMask(e) : GoodCall(k)
  <2>1. \A mask \in {AsicPortUnknownDaFloodingPortmask, AsicPortUnknownMulticastFloodingPortmask,
          AsicPortBcastFloodingPortmask} :
        /\ Good(ToBits(mask, OfBits(e, 8)))
    BY <1>9, <1>11, <1>13, MaskGood, Zenon
  <2> QED
    BY <2>1, Puts1, CallGood, Zenon DEF L2FloodPortMask
<1>44. \A k \in L2LocalPktPermit(e) : GoodCall(k)
  <2>1. \A p \in Port : Good(To(AsicPortBlockSpa(p), Of(e, 0, 1)))
    BY <1>15, In1, IndexAssumption, Zenon DEF Takes
  <2> QED
    BY <2>1, Puts1, CallGood, Zenon DEF L2LocalPktPermit
<1>45. \A k \in L2LimitLearningCnt(e) : GoodCall(k)
  <2>1. \A p \in Port : Good(To(AsicLutLearnLimitNo(p), Of(e, 0, LearnLimitMax)))
    BY <1>7, InLimit, IndexAssumption, Zenon DEF Takes
  <2> QED
    BY <2>1, Puts1, CallGood, Zenon DEF L2LimitLearningCnt
<1>46. \A k \in L2LimitLearningCntAction(e) : GoodCall(k)
  <2>1. Good(To(AsicLutLearnOverAct, Of(e, 0, 2)))
    BY <1>18, In2, ThreeGood, Zenon DEF Takes
  <2> QED
    BY <2>1, Puts1, CallGood, Zenon DEF L2LimitLearningCntAction
<1>47. \A k \in L2AgingEnable(e) : GoodCall(k)
  <2>1. \A p \in Port : Good(To(AsicLutDisableAging(p), 1 - Of(e, 0, 1)))
    BY <1>20, In1, NotGood, IndexAssumption, Zenon DEF Takes
  <2> QED
    BY <2>1, Puts1, CallGood, Zenon DEF L2AgingEnable
<1>48. \A k \in L2FlushLinkDownPortAddrEnable(e) : GoodCall(k)
  <2>1. Good(To(AsicLutLinkDownForceAging, 1 - Of(e, 0, 1)))
    BY <1>21, In1, NotGood, Zenon DEF Takes
  <2> QED
    BY <2>1, Puts1, CallGood, Zenon DEF L2FlushLinkDownPortAddrEnable
<1>49. \A k \in L2Aging(e) : GoodCall(k)
  <2>1. Of(e, 1, 7) \in 0 .. 7 /\ Of(e, 0, 3) \in 0 .. 3
    BY SMT DEF Of
  <2>2. Good(To(AsicLutAgeTimerSpeed, Of(e, 1, 7) + 256 * Of(e, 0, 3)))
    BY <2>1, <1>41, <1>5, ZenonT(60)
  <2> QED
    BY <2>2, Puts1, CallGood, ZenonT(60) DEF L2Aging
<1>50. \A k \in L2IpMcastAddrLookup(e) : GoodCall(k)
  <2>1. Good(To(AsicLutIpMulticastLookup, 0))
    BY <1>3, In1, Zenon DEF Takes
  <2>2. Good(To(AsicLutIpMulticastLookup, 1)) /\ Good(To(AsicLutIpLookupMethod, Of(e, 0, 1)))
    BY <1>3, <1>22, In1, Zenon DEF Takes
  <2> QED
    BY <2>1, <2>2, Puts1, Puts2, CallGood, Zenon DEF L2IpMcastAddrLookup
<1>51. \A k \in L2Driver(e) : GoodCall(k)
  <2>1. Good(To(AsicLutFlushMode, Of(e, 0, 2)))
    BY <1>25, In2, ThreeGood, Zenon DEF Takes
  <2>2. Good(To(AsicLutFlushType, Of(e, 0, 1)))
    BY <1>26, In1, Zenon DEF Takes
  <2>3. Good(To(AsicLutFlushVid, Of(e, 0, VidMax)))
    BY <1>29, In12, Zenon DEF Takes
  <2>4. Good(To(AsicLutFlushFid, Of(e, 0, 15)))
    BY <1>31, In4, Zenon DEF Takes
  <2>5. \A i \in IpmcGroup : Good(ToBits(AsicLutIPMCGroup(i), OfBits(e, 28)))
    BY <1>34, OfBitsGood, PortIndexAssumption, Zenon
  <2> QED
    BY <2>1, <2>2, <2>3, <2>4, <2>5, Puts1, CallGood, Zenon DEF L2Driver
<1>52. \A k \in TrapUnknownUnicastPktAction(e) : GoodCall(k)
  <2>1. \A b \in {AsicPortUnknownDaBehavior, AsicPortUnknownSaBehavior, AsicPortUnmatchedSaBehavior} :
        /\ Good(To(b, Of(e, 0, 2)))
    BY <1>36, <1>38, <1>40, In2, ThreeGood, Zenon DEF Takes
  <2> QED
    BY <2>1, Puts1, CallGood, Zenon DEF TrapUnknownUnicastPktAction
<1> QED
  BY <1>42, <1>43, <1>44, <1>45, <1>46, <1>47, <1>48, <1>49, <1>50, <1>51, <1>52

(* The CPU port and mirrors.                                               *)
LEMMA MirrorCallsGood ==
  ASSUME NEW e \in Nat
  PROVE  /\ \A k \in CpuEnable(e) : GoodCall(k)
         /\ \A k \in CpuTagPort(e) : GoodCall(k)
         /\ \A k \in CpuDriver(e) : GoodCall(k)
         /\ \A k \in MirrorPortBased(e) : GoodCall(k)
         /\ \A k \in MirrorPortIso(e) : GoodCall(k)
<1>1. {MIRROR_SRC_PMSK, MIRROR_CTRL, CPU_CTRL, CPU_PORT_MASK, QOS_PRIORITY_REMAPPING_IN_CPU_CTRL0} \subseteq RegBlocks
  BY SMT DEF RegBlocks
<1>2. MIRROR_SRC_PMSK.count = 1
  BY DEF MIRROR_SRC_PMSK, One, Block
<1>3. Nested(MIRROR_SRC_PMSK, 0, 8)
  BY SMT DEF MIRROR_SRC_PMSK, One, Block, Low, Nested
<1>4. Sound(AsicPortMirrorMask, 8)
  BY <1>1, <1>2, <1>3, FieldSound DEF AsicPortMirrorMask
<1>5. MIRROR_CTRL.count = 1
  BY DEF MIRROR_CTRL, One, Block
<1>6. Nested(MIRROR_CTRL, 0, 3)
  BY SMT DEF MIRROR_CTRL, One, Block, Nested
<1>7. Sound(AsicPortMirrorSource, 3)
  BY <1>1, <1>5, <1>6, FieldSound DEF AsicPortMirrorSource
<1>8. Nested(MIRROR_CTRL, 4, 3)
  BY SMT DEF MIRROR_CTRL, One, Block, Nested
<1>9. Sound(AsicPortMirrorMonitor, 3)
  BY <1>1, <1>5, <1>8, FieldSound DEF AsicPortMirrorMonitor
<1>10. Sound(AsicPortMirrorRxFunction, 1)
  BY <1>1, <1>5, FlagSound DEF AsicPortMirrorRxFunction
<1>11. Sound(AsicPortMirrorTxFunction, 1)
  BY <1>1, <1>5, FlagSound DEF AsicPortMirrorTxFunction
<1>12. CPU_CTRL.count = 1
  BY DEF CPU_CTRL, One, Block
<1>13. Sound(AsicCputagEnable, 1)
  BY <1>1, <1>12, FlagSound DEF AsicCputagEnable
<1>14. CPU_PORT_MASK.count = 1
  BY DEF CPU_PORT_MASK, One, Block
<1>15. Sound(AsicCputagPortmask, 16)
  BY <1>1, <1>14, WordSound DEF AsicCputagPortmask
<1>16. Nested(CPU_CTRL, 3, 3)
  BY SMT DEF CPU_CTRL, One, Block, Nested
<1>17. Sound(AsicCputagTrapPort, 3)
  BY <1>1, <1>12, <1>16, FieldSound DEF AsicCputagTrapPort
<1>18. Nested(CPU_CTRL, 1, 2)
  BY SMT DEF CPU_CTRL, One, Block, Nested
<1>19. Sound(AsicCputagInsertMode, 2)
  BY <1>1, <1>12, <1>18, FieldSound DEF AsicCputagInsertMode
<1>20. Sound(AsicCputagPosition, 1)
  BY <1>1, <1>12, FlagSound DEF AsicCputagPosition
<1>21. Sound(AsicCputagMode, 1)
  BY <1>1, <1>12, FlagSound DEF AsicCputagMode
<1>22. Sound(AsicCputagRxMinLength, 1)
  BY <1>1, <1>12, FlagSound DEF AsicCputagRxMinLength
<1>23. Packs(QOS_PRIORITY_REMAPPING_IN_CPU_CTRL0, 4, 4, 3, 7)
  BY <1>1, SMT DEF Packs, QOS_PRIORITY_REMAPPING_IN_CPU_CTRL0, Block, Each, Nested
<1>24. \A pri \in 0 .. 7 : Sound(AsicCputagPriorityRemapping(pri), 3)
  BY <1>23, PackedSound, Zenon DEF AsicCputagPriorityRemapping
<1>25. Sound(AsicPortMirrorIsolation, 1)
  BY <1>1, <1>5, FlagSound DEF AsicPortMirrorIsolation
<1>26. \A k \in CpuEnable(e) : GoodCall(k)
  <2>1. Good(To(AsicCputagEnable, 0)) /\ Good(To(AsicCputagPortmask, 0)) /\ Good(To(AsicCputagEnable, 1))
    BY <1>13, <1>15, In1, In16, Zenon DEF Takes
  <2>2. \A k \in CpuEnable(e) : k = Does(<<To(AsicCputagEnable, 0), To(AsicCputagPortmask, 0)>>) \/ k = Does(<<To(AsicCputagEnable, 1)>>)
    BY Zenon DEF CpuEnable, Either
  <2> QED
    BY <2>1, <2>2, Puts1, Puts2, CallGood, Zenon
<1>27. \A k \in CpuTagPort(e) : GoodCall(k)
  <2>1. \A p \in Port : {p} \subseteq 0 .. 16 - 1 /\ p \in 0 .. 7
    BY IndexAssumption, SMT
  <2>2. \A p \in Port : Good(ToBits(AsicCputagPortmask, {p}))
    BY <2>1, <1>15, BitsGood, Zenon
  <2>3. \A p \in Port : Good(To(AsicCputagTrapPort, p))
    BY <2>1, <1>17, In3, Zenon DEF Takes
  <2>4. Good(To(AsicCputagInsertMode, Of(e, 0, 2)))
    BY <1>19, ThreeGood, Zenon
  <2> QED
    BY <2>2, <2>3, <2>4, Puts3, CallGood, Zenon DEF CpuTagPort
<1>28. \A k \in CpuDriver(e) : GoodCall(k)
  <2>1. \A s \in {AsicCputagPosition, AsicCputagMode, AsicCputagRxMinLength} : Good(To(s, Of(e, 0, 1)))
    BY <1>20, <1>21, <1>22, In1, Zenon DEF Takes
  <2>2. \A pri \in Priority : Good(To(AsicCputagPriorityRemapping(pri), Of(e, 0, 7)))
    BY <1>24, In3, IndexAssumption, Zenon DEF Takes
  <2> QED
    BY <2>1, <2>2, Puts1, CallGood, Zenon DEF CpuDriver
<1>29. \A k \in MirrorPortBased(e) : GoodCall(k)
  <2> DEFINE Lowest(ports) == IF ports = {} THEN 0 ELSE CHOOSE p \in ports : \A o \in ports : p <= o
             IsAny(ports) == IF ports = {} THEN 0 ELSE 1
             Mirror(to, rx, tx) ==
               <<To(AsicPortMirrorSource, Lowest(rx \cup tx)), To(AsicPortMirrorMonitor, to),
                 ToBits(AsicPortMirrorMask, IF rx # {} THEN rx ELSE tx),
                 To(AsicPortMirrorRxFunction, IsAny(rx)), To(AsicPortMirrorTxFunction, IsAny(tx))>>
             Others(p) == (0 .. 7) \ {p}
             some(p) == Either(e, {}, Others(p))
  <2>1. ASSUME NEW to \in 0 .. 7, NEW rx \in SUBSET (0 .. 7), NEW tx \in SUBSET (0 .. 7), Lowest(rx \cup tx) \in 0 .. 7
        PROVE  GoodPuts(Mirror(to, rx, tx))
    <3>1. Good(To(AsicPortMirrorSource, Lowest(rx \cup tx))) /\ Good(To(AsicPortMirrorMonitor, to))
      <4> DEFINE low == Lowest(rx \cup tx)
      <4> HIDE DEF low
      <4>1. low \in 0 .. 7
        BY <2>1 DEF low
      <4>2. Good(To(AsicPortMirrorSource, low)) /\ Good(To(AsicPortMirrorMonitor, to))
        BY <4>1, <1>7, <1>9, In3, Zenon DEF Takes
      <4> QED
        BY <4>2, Zenon DEF low
    <3>2. (IF rx # {} THEN rx ELSE tx) \subseteq 0 .. 8 - 1
      BY SMT
    <3>3. Good(ToBits(AsicPortMirrorMask, IF rx # {} THEN rx ELSE tx))
      BY <3>2, <1>4, BitsGood, Zenon
    <3>4. Good(To(AsicPortMirrorRxFunction, 0)) /\ Good(To(AsicPortMirrorRxFunction, 1))
      BY <1>10, In1, Zenon DEF Takes
    <3>5. Good(To(AsicPortMirrorTxFunction, 0)) /\ Good(To(AsicPortMirrorTxFunction, 1))
      BY <1>11, In1, Zenon DEF Takes
    <3>6. Good(To(AsicPortMirrorRxFunction, IsAny(rx))) /\ Good(To(AsicPortMirrorTxFunction, IsAny(tx)))
      BY <3>4, <3>5, Zenon
    <3> HIDE DEF Lowest, IsAny
    <3> QED
      BY <3>1, <3>3, <3>6, Puts5, Zenon
  <2>2. ASSUME NEW p \in 0 .. 7
        PROVE  Lowest(some(p)) \in 0 .. 7 /\ some(p) \in SUBSET (0 .. 7)
    <3>1. some(p) \in SUBSET (0 .. 7)
      BY SMT DEF Either
    <3>2. CASE some(p) = {}
      <4>1. Lowest(some(p)) = 0 /\ 0 \in 0 .. 7
        BY <3>2, SMT
      <4> QED
        BY <3>1, <4>1, Zenon
    <3>3. CASE some(p) # {}
      <4>1. some(p) = Others(p)
        BY <3>3, Zenon DEF Either
      <4> DEFINE low == IF p = 0 THEN 1 ELSE 0
      <4>2. low \in Others(p) /\ \A o \in Others(p) : low <= o
        BY SMT
      <4>3. \E q \in some(p) : \A o \in some(p) : q <= o
        BY <4>1, <4>2, Zenon
      <4> HIDE DEF some
      <4>4. (CHOOSE q \in some(p) : \A o \in some(p) : q <= o) \in some(p)
        BY <4>3, Zenon
      <4> QED
        BY <3>1, <3>3, <4>4, Zenon
    <3> QED
      BY <3>2, <3>3, Zenon
  <2>3. MirrorPortBased(e) =
          {Does(Mirror(p, {}, some(p))) : p \in Port} \cup {Does(Mirror(p, some(p), some(p))) : p \in Port}
          \cup {Does(Mirror(p, some(p), {})) : p \in Port}
    BY Zenon DEF MirrorPortBased
  <2> HIDE DEF Mirror, some
  <2>4. \A p : {} \cup some(p) = some(p) /\ some(p) \cup {} = some(p) /\ some(p) \cup some(p) = some(p)
    BY SMT
  <2> HIDE DEF Lowest
  <2>5. \A p : Lowest({} \cup some(p)) = Lowest(some(p)) /\ Lowest(some(p) \cup {}) = Lowest(some(p))
             /\ Lowest(some(p) \cup some(p)) = Lowest(some(p))
    BY <2>4, Zenon
  <2>6. \A p \in 0 .. 7 : /\ Lowest({} \cup some(p)) \in 0 .. 7 /\ Lowest(some(p) \cup {}) \in 0 .. 7
                         /\ Lowest(some(p) \cup some(p)) \in 0 .. 7
    BY <2>2, <2>5, Zenon
  <2>7. {} \in SUBSET (0 .. 7)
    BY Zenon
  <2>8. \A p \in 0 .. 7 : /\ GoodPuts(Mirror(p, {}, some(p))) /\ GoodPuts(Mirror(p, some(p), some(p)))
                         /\ GoodPuts(Mirror(p, some(p), {}))
    BY <2>1, <2>2, <2>6, <2>7, Zenon
  <2> QED
    BY <2>3, <2>8, CallGood, IndexAssumption, Zenon
<1>30. \A k \in MirrorPortIso(e) : GoodCall(k)
  <2>1. Good(To(AsicPortMirrorIsolation, Of(e, 0, 1)))
    BY <1>25, In1, Zenon DEF Takes
  <2> QED
    BY <2>1, Puts1, CallGood, Zenon DEF MirrorPortIso
<1> QED
  BY <1>26, <1>27, <1>28, <1>29, <1>30

(* Trunks.                                                                 *)
LEMMA TrunkCallsGood ==
  ASSUME NEW e \in Nat
  PROVE  /\ \A k \in TrunkPort(e) : GoodCall(k)
         /\ \A k \in TrunkDistributionAlgorithm(e) : GoodCall(k)
         /\ \A k \in TrunkDriver(e) : GoodCall(k)
<1>1. {PORT_TRUNK_GROUP_MASK, PORT_TRUNK_CTRL, PORT_TRUNK_FLOWCTRL, PORT_TRUNK_HASH_MAPPING_CTRL0} \subseteq RegBlocks
  BY SMT DEF RegBlocks
<1>2. PORT_TRUNK_GROUP_MASK.count = 1
  BY DEF PORT_TRUNK_GROUP_MASK, One, Block
<1>3. \A group \in {0, 1} : Nested(PORT_TRUNK_GROUP_MASK, 4 * group, 4)
  BY SMT DEF PORT_TRUNK_GROUP_MASK, One, Block, Each, Nested
<1>4. \A group \in {0, 1} : Sound(AsicTrunkingGroup(group), 4)
  BY <1>1, <1>2, <1>3, FieldSound DEF AsicTrunkingGroup
<1>5. PORT_TRUNK_CTRL.count = 1
  BY DEF PORT_TRUNK_CTRL, One, Block
<1>6. Nested(PORT_TRUNK_CTRL, 0, 7)
  BY SMT DEF PORT_TRUNK_CTRL, One, Block, Each, Nested
<1>7. Sound(AsicTrunkingHashSelect, 7)
  BY <1>1, <1>5, <1>6, FieldSound DEF AsicTrunkingHashSelect
<1>8. Sound(AsicTrunkingMode, 1)
  BY <1>1, <1>5, FlagSound DEF AsicTrunkingMode
<1>9. Sound(AsicTrunkingFlood, 1)
  BY <1>1, <1>5, FlagSound DEF AsicTrunkingFlood
<1>10. PORT_TRUNK_FLOWCTRL.count = 1
  BY DEF PORT_TRUNK_FLOWCTRL, One, Block
<1>11. \A group \in {0, 1} : Sound(AsicTrunkingFc(group), 1)
  BY <1>1, <1>10, FlagSound DEF AsicTrunkingFc
<1>12. Packs(PORT_TRUNK_HASH_MAPPING_CTRL0, 8, 2, 2, 15)
  BY <1>1, SMT DEF Packs, PORT_TRUNK_HASH_MAPPING_CTRL0, Block, Each, Nested
<1>13. \A hash \in 0 .. 15 : Sound(AsicTrunkingHashTable(hash), 2)
  BY <1>12, PackedSound, Zenon DEF AsicTrunkingHashTable
<1>14. \A k \in TrunkPort(e) : GoodCall(k)
  <2>1. \A g \in TrunkGroup : Good(ToBits(AsicTrunkingGroup(g), OfBits(e, 4)))
    BY <1>4, OfBitsGood, Zenon DEF TrunkGroup
  <2> QED
    BY <2>1, Puts1, CallGood, Zenon DEF TrunkPort
<1>15. \A k \in TrunkDistributionAlgorithm(e) : GoodCall(k)
  <2>1. Good(ToBits(AsicTrunkingHashSelect, OfBits(e, 7)))
    BY <1>7, OfBitsGood, Zenon
  <2> QED
    BY <2>1, Puts1, CallGood, Zenon DEF TrunkDistributionAlgorithm
<1>16. \A k \in TrunkDriver(e) : GoodCall(k)
  <2>1. \A s \in {AsicTrunkingMode, AsicTrunkingFlood} \cup {AsicTrunkingFc(g) : g \in TrunkGroup} :
        /\ Good(To(s, Of(e, 0, 1)))
    BY <1>8, <1>9, <1>11, In1, Zenon DEF Takes, TrunkGroup
  <2>2. \A hash \in Hash : Good(To(AsicTrunkingHashTable(hash), Of(e, 0, 3)))
    BY <1>13, In2, PortIndexAssumption, Zenon DEF Takes
  <2> QED
    BY <2>1, <2>2, Puts1, CallGood, Zenon DEF TrunkDriver
<1> QED
  BY <1>14, <1>15, <1>16

(* LEDs.                                                                   *)
LEMMA LedCallsGood ==
  ASSUME NEW e \in Nat
  PROVE  /\ \A k \in LedEnable(e) : GoodCall(k)
         /\ \A k \in LedOperation(e) : GoodCall(k)
         /\ \A k \in LedMode(e) : GoodCall(k)
         /\ \A k \in LedGroupConfig(e) : GoodCall(k)
         /\ \A k \in LedModeForce(e) : GoodCall(k)
         /\ \A k \in LedBlinkRate(e) : GoodCall(k)
         /\ \A k \in LedForceBlinkRate(e) : GoodCall(k)
         /\ \A k \in LedSerialMode(e) : GoodCall(k)
<1>1. {PARA_LED_IO_EN1, LED_SYS_CONFIG, SCAN0_LED_IO_EN, LED_CONFIGURATION, CPU_FORCE_LED0_CFG0,
   LED_MODE} \subseteq RegBlocks
  BY SMT DEF RegBlocks
<1>2. Packs(PARA_LED_IO_EN1, 2, 8, 8, 2)
  BY <1>1, SMT DEF Packs, PARA_LED_IO_EN1, Block, Each, Nested
<1>3. \A group \in 0 .. 2 : Sound(AsicLedGroupEnable(group), 8)
  BY <1>2, PackedSound, Zenon DEF AsicLedGroupEnable
<1>4. LED_SYS_CONFIG.count = 1
  BY DEF LED_SYS_CONFIG, One, Block
<1>5. Sound(LedSelect, 1)
  BY <1>1, <1>4, FlagSound DEF LedSelect
<1>6. SCAN0_LED_IO_EN.count = 1
  BY DEF SCAN0_LED_IO_EN, One, Block
<1>7. \A bit \in 0 .. 1 : Sound(LedSerialOut(bit), 1)
  BY <1>1, <1>6, FlagSound DEF LedSerialOut
<1>8. LED_CONFIGURATION.count = 1
  BY DEF LED_CONFIGURATION, One, Block
<1>9. Sound(LedConfigSel, 1)
  BY <1>1, <1>8, FlagSound DEF LedConfigSel
<1>10. Nested(LED_CONFIGURATION, 12, 2)
  BY SMT DEF LED_CONFIGURATION, One, Block, Nested
<1>11. Sound(AsicLedGroupMode, 2)
  BY <1>1, <1>8, <1>10, FieldSound DEF AsicLedGroupMode
<1>12. \A group \in 0 .. 2 : Nested(LED_CONFIGURATION, 4 * group, 4)
  BY SMT DEF LED_CONFIGURATION, One, Block, Nested
<1>13. \A group \in 0 .. 2 : Sound(AsicLedIndicateInfoConfig(group), 4)
  BY <1>1, <1>8, <1>12, FieldSound DEF AsicLedIndicateInfoConfig
<1>14. CPU_FORCE_LED0_CFG0.count = 6
  BY DEF CPU_FORCE_LED0_CFG0, Block
<1>15. \A port \in 0 .. 7, group \in 0 .. 2 : Nested(CPU_FORCE_LED0_CFG0, 2 * port, 2)
  BY SMT DEF CPU_FORCE_LED0_CFG0, Block, Each, Nested
<1>16. \A port \in 0 .. 7, group \in 0 .. 2 : Sound(AsicForceLed(port, group), 2)
  BY <1>1, <1>14, <1>15, FieldSound DEF AsicForceLed
<1>17. LED_MODE.count = 1
  BY DEF LED_MODE, One, Block
<1>18. Nested(LED_MODE, 1, 3)
  BY SMT DEF LED_MODE, One, Block, Nested
<1>19. Sound(AsicLedBlinkRate, 3)
  BY <1>1, <1>17, <1>18, FieldSound DEF AsicLedBlinkRate
<1>20. Nested(LED_MODE, 4, 2)
  BY SMT DEF LED_MODE, One, Block, Nested
<1>21. Sound(AsicLedForceBlinkRate, 2)
  BY <1>1, <1>17, <1>20, FieldSound DEF AsicLedForceBlinkRate
<1>22. Sound(AsicLedSerialActive, 1)
  BY <1>1, <1>4, FlagSound DEF AsicLedSerialActive
<1>23. Sound(AsicLedSerialMode, 1)
  BY <1>1, <1>17, FlagSound DEF AsicLedSerialMode
<1>24. \A k \in LedEnable(e) : GoodCall(k)
  <2>1. OfBits(e, 5) \subseteq 0 .. 8 - 1
    BY SMT DEF OfBits, Either
  <2>2. \A g \in LedGroup : Good(ToBits(AsicLedGroupEnable(g), OfBits(e, 5)))
    BY <2>1, <1>3, BitsGood, Zenon DEF LedGroup
  <2> QED
    BY <2>2, Puts1, CallGood, Zenon DEF LedEnable
<1>25. \A k \in LedOperation(e) : GoodCall(k)
  <2>1. 0 \in 0 .. 1 /\ 1 \in 0 .. 1
    BY SMT
  <2>2. /\ Good(To(LedSelect, Of(e, 0, 1)))
      /\ Good(To(LedSerialOut(0), Of(e, 0, 1)))
      /\ Good(To(LedSerialOut(1), Of(e, 0, 1)))
    BY <1>5, <1>7, <2>1, In1, Zenon DEF Takes
  <2> QED
    BY <2>2, Puts3, CallGood, Zenon DEF LedOperation
<1>26. \A k \in LedMode(e) : GoodCall(k)
  <2>1. Good(To(LedConfigSel, 1)) /\ Good(To(AsicLedGroupMode, Of(e, 0, 3)))
    BY <1>9, <1>11, In1, In2, Zenon DEF Takes
  <2> QED
    BY <2>1, Puts2, CallGood, Zenon DEF LedMode
<1>27. \A k \in LedGroupConfig(e) : GoodCall(k)
  <2>1. \A g \in LedGroup :
        /\ Good(To(LedConfigSel, 0))
        /\ Good(To(AsicLedIndicateInfoConfig(g), Of(e, 0, 15)))
    BY <1>9, <1>13, In1, In4, Zenon DEF Takes, LedGroup
  <2> QED
    BY <2>1, Puts2, CallGood, Zenon DEF LedGroupConfig
<1>28. \A k \in LedModeForce(e) : GoodCall(k)
  <2> DEFINE Made(g) == ForEach(8, LAMBDA p : To(AsicForceLed(p, g), Of(e, 0, 3)))
  <2>1. ASSUME NEW g \in 0 .. 2
        PROVE  GoodPuts(Made(g))
    <3> DEFINE made == Made(g)
    <3>1. made = [i \in 1 .. 8 |-> To(AsicForceLed(i - 1, g), Of(e, 0, 3))]
      BY Zenon DEF ForEach
    <3>2. 8 \in Nat /\ \A i \in 1 .. 8 : i - 1 \in 0 .. 7
      BY SMT
    <3>3. \A i \in 1 .. 8 : Good(To(AsicForceLed(i - 1, g), Of(e, 0, 3)))
      BY <3>2, <1>16, In2, Zenon DEF Takes
    <3> HIDE DEF made
    <3>4. made = [i \in 1 .. 8 |-> made[i]] /\ \A i \in 1 .. 8 : made[i] = To(AsicForceLed(i - 1, g), Of(e, 0, 3))
      BY <3>1, Zenon
    <3>5. GoodPuts(made)
      BY <3>2, <3>3, <3>4, PutsEach, Zenon
    <3> QED
      BY <3>5, Zenon DEF made
  <2>2. LedModeForce(e) = {Does(Made(g)) : g \in LedGroup}
    BY Zenon DEF LedModeForce
  <2> HIDE DEF Made
  <2> QED
    BY <2>1, <2>2, CallGood, Zenon DEF LedGroup
<1>29. \A k \in LedBlinkRate(e) : GoodCall(k)
  <2>1. Good(To(AsicLedBlinkRate, Of(e, 0, 7)))
    BY <1>19, In3, Zenon DEF Takes
  <2> QED
    BY <2>1, Puts1, CallGood, Zenon DEF LedBlinkRate
<1>30. \A k \in LedForceBlinkRate(e) : GoodCall(k)
  <2>1. Good(To(AsicLedForceBlinkRate, Of(e, 0, 3)))
    BY <1>21, In2, Zenon DEF Takes
  <2> QED
    BY <2>1, Puts1, CallGood, Zenon DEF LedForceBlinkRate
<1>31. \A k \in LedSerialMode(e) : GoodCall(k)
  <2>1. Good(To(AsicLedSerialActive, Of(e, 0, 1))) /\ Good(To(AsicLedSerialMode, 1))
    BY <1>22, <1>23, In1, Zenon DEF Takes
  <2> QED
    BY <2>1, Puts2, CallGood, Zenon DEF LedSerialMode
<1> QED
  BY <1>24, <1>25, <1>26, <1>27, <1>28, <1>29, <1>30, <1>31

(* Counters, interrupts, frame lengths and addresses of the switch.        *)
LEMMA CounterCallsGood ==
  ASSUME NEW e \in Nat
  PROVE  /\ \A k \in StatLoggingCounterCfg(e) : GoodCall(k)
         /\ \A k \in StatDriver(e) : GoodCall(k)
         /\ \A k \in IntPolarity(e) : GoodCall(k)
         /\ \A k \in IntControl(e) : GoodCall(k)
         /\ \A k \in SwitchMaxPktLen(e) : GoodCall(k)
         /\ \A k \in SwitchPortMaxPktLen(e) : GoodCall(k)
         /\ \A k \in SwitchMacAddress(e) : GoodCall(k)
         /\ \A k \in SwitchGreenTrafficType(e) : GoodCall(k)
<1>1. {MIB_CTRL5, MIB_CTRL3, MIB_CTRL4, INTR_CTRL, INTR_IMR, MAX_LENGTH_LIMINT_IPG, MAX_LENGTH_CFG,
   MAX_LEN_RX_TX, SWITCH_MAC2, SWITCH_MAC1, SWITCH_MAC0, HIGHPRI_CFG} \subseteq RegBlocks
  BY SMT DEF RegBlocks
<1>2. MIB_CTRL5.count = 1
  BY DEF MIB_CTRL5, One, Block
<1>3. \A index \in 0 .. 15 : Sound(AsicMIBsLoggingType(index), 1)
  BY <1>1, <1>2, FlagSound DEF AsicMIBsLoggingType
<1>4. MIB_CTRL3.count = 1
  BY DEF MIB_CTRL3, One, Block
<1>5. \A index \in 0 .. 15 : Sound(AsicMIBsLoggingMode(index), 1)
  BY <1>1, <1>4, FlagSound DEF AsicMIBsLoggingMode
<1>6. MIB_CTRL4.count = 1
  BY DEF MIB_CTRL4, One, Block
<1>7. Sound(AsicMIBsUsageMode, 1)
  BY <1>1, <1>6, FlagSound DEF AsicMIBsUsageMode
<1>8. Nested(MIB_CTRL4, 0, 8)
  BY SMT DEF MIB_CTRL4, One, Block, Nested
<1>9. Sound(AsicMIBsTimer, 8)
  BY <1>1, <1>6, <1>8, FieldSound DEF AsicMIBsTimer
<1>10. INTR_CTRL.count = 1
  BY DEF INTR_CTRL, One, Block
<1>11. Sound(AsicInterruptPolarity, 1)
  BY <1>1, <1>10, FlagSound DEF AsicInterruptPolarity
<1>12. INTR_IMR.count = 1
  BY DEF INTR_IMR, One, Block
<1>13. \A type \in 0 .. 11 : Sound(AsicInterruptMask(type), 1)
  BY <1>1, <1>12, FlagSound DEF AsicInterruptMask
<1>14. MAX_LENGTH_LIMINT_IPG.count = 1
  BY DEF MAX_LENGTH_LIMINT_IPG, One, Block
<1>15. Nested(MAX_LENGTH_LIMINT_IPG, 13, 2)
  BY SMT DEF MAX_LENGTH_LIMINT_IPG, One, Block, Nested
<1>16. Sound(AsicMaxLengthInRx, 2)
  BY <1>1, <1>14, <1>15, FieldSound DEF AsicMaxLengthInRx
<1>17. \A port \in 0 .. 7 : Sound(AltLengthPort(port), 1)
  <2> SUFFICES ASSUME NEW p \in 0 .. 7
               PROVE  Sound(AltLengthPort(p), 1)
    OBVIOUS
  <2> DEFINE of == [b \in {p, 8 + p} |-> 0]
             m == p + 1
             b == 8 + p
  <2>1. DOMAIN of \subseteq Int /\ p \in DOMAIN of /\ b \in DOMAIN of /\ m \notin DOMAIN of
        /\ p < m /\ m < b /\ m \in Int
    BY SMT
  <2>2. 0 \in {of[x] : x \in DOMAIN of}
    BY Zenon
  <2> HIDE DEF of, m, b
  <2>3. Mapped(<<Spread(Reg(MAX_LENGTH_CFG, 0), of)>>)
    BY <2>1, GapHolds, Zenon
  <2>4. 0 \in Room(<<Spread(Reg(MAX_LENGTH_CFG, 0), of)>>)
    BY <2>2, SpreadRoom, Zenon
  <2>5. 0 .. 1 - 1 = {0}
    BY SMT
  <2> QED
    BY <2>3, <2>4, <2>5, Zenon DEF Sound, AltLengthPort, of
<1>18. MAX_LEN_RX_TX.count = 1
  BY DEF MAX_LEN_RX_TX, One, Block
<1>19. Nested(MAX_LEN_RX_TX, 0, 2)
  BY SMT DEF MAX_LEN_RX_TX, One, Block, Low, Nested
<1>20. Sound(AltLength, 2)
  BY <1>1, <1>18, <1>19, FieldSound DEF AltLength
<1>21. SWITCH_MAC2.count = 1
  BY DEF SWITCH_MAC2, One, Block
<1>22. SWITCH_MAC1.count = 1
  BY DEF SWITCH_MAC1, One, Block
<1>23. SWITCH_MAC0.count = 1
  BY DEF SWITCH_MAC0, One, Block
<1>24. Sound(AsicMacAddress, 48)
  <2>1. Cell(From(32, Word(Reg(SWITCH_MAC2, 0))), 32, 32 + 15)
    BY <1>1, <1>21, WordFrom
  <2>2. Cell(From(16, Word(Reg(SWITCH_MAC1, 0))), 16, 16 + 15)
    BY <1>1, <1>22, WordFrom
  <2>3. Cell(Word(Reg(SWITCH_MAC0, 0)), 0, 15)
    BY <1>1, <1>23, WordCell
  <2>4. 0 .. 48 - 1 \subseteq (32 .. 32 + 15) \cup (16 .. 16 + 15) \cup (0 .. 15)
    BY SMT
  <2> QED
    BY <2>1, <2>2, <2>3, <2>4, ThreeCells, SMT DEF AsicMacAddress
<1>25. HIGHPRI_CFG.count = 1
  BY DEF HIGHPRI_CFG, One, Block
<1>26. \A pri \in 0 .. 7 : Sound(AsicGreenTrafficType(pri), 1)
  BY <1>1, <1>25, FlagSound DEF AsicGreenTrafficType
<1>27. \A k \in StatLoggingCounterCfg(e) : GoodCall(k)
  <2>1. \A i \in Counter :
        /\ Good(To(AsicMIBsLoggingType(i), Of(e, 0, 1)))
        /\ Good(To(AsicMIBsLoggingMode(i), Of(e, 0, 1)))
    BY <1>3, <1>5, In1, PortIndexAssumption, Zenon DEF Takes
  <2> QED
    BY <2>1, Puts2, CallGood, Zenon DEF StatLoggingCounterCfg
<1>28. \A k \in StatDriver(e) : GoodCall(k)
  <2>1. Good(To(AsicMIBsUsageMode, Of(e, 0, 1)))
    BY <1>7, In1, Zenon DEF Takes
  <2>2. Good(To(AsicMIBsTimer, Of(e, 0, 255)))
    BY <1>9, In8, ZenonT(60) DEF Takes
  <2> QED
    BY <2>1, <2>2, Puts1, CallGood, ZenonT(60) DEF StatDriver
<1>29. \A k \in IntPolarity(e) : GoodCall(k)
  <2>1. Good(To(AsicInterruptPolarity, Of(e, 0, 1)))
    BY <1>11, In1, Zenon DEF Takes
  <2> QED
    BY <2>1, Puts1, CallGood, Zenon DEF IntPolarity
<1>30. \A k \in IntControl(e) : GoodCall(k)
  <2>1. \A type \in Interrupt : Good(To(AsicInterruptMask(type), Of(e, 0, 1)))
    BY <1>13, In1, PortIndexAssumption, Zenon DEF Takes
  <2> QED
    BY <2>1, Puts1, CallGood, Zenon DEF IntControl
<1>31. \A k \in SwitchMaxPktLen(e) : GoodCall(k)
  <2>1. Good(To(AsicMaxLengthInRx, Of(e, 0, 3)))
    BY <1>16, In2, Zenon DEF Takes
  <2> QED
    BY <2>1, Puts1, CallGood, Zenon DEF SwitchMaxPktLen
<1>32. \A k \in SwitchPortMaxPktLen(e) : GoodCall(k)
  <2>1. \A p \in Port : Good(To(AltLengthPort(p), 0)) /\ Good(Keep(AltLength))
    BY <1>17, <1>20, In1, In2, KeepGood, IndexAssumption, Zenon DEF Takes
  <2>2. \A p \in Port : Good(To(AltLengthPort(p), 1)) /\ Good(To(AltLength, Of(e, 0, 3)))
    BY <1>17, <1>20, In1, In2, IndexAssumption, Zenon DEF Takes
  <2>3. \A p \in Port : Good(Over(AltLengthPort(p), 0)) /\ Good(Over(AltLengthPort(p), 1))
    BY <2>1, <2>2, OverGood, Zenon
  <2> QED
    BY <2>1, <2>2, <2>3, Puts2, CallWithGood, Zenon DEF SwitchPortMaxPktLen
<1>33. \A k \in SwitchMacAddress(e) : GoodCall(k)
  <2>1. Good(ToBits(AsicMacAddress, OfBits(e, 48)))
    BY <1>24, OfBitsGood, Zenon
  <2> QED
    BY <2>1, Puts1, CallGood, Zenon DEF SwitchMacAddress
<1>34. \A k \in SwitchGreenTrafficType(e) : GoodCall(k)
  <2>1. \A pri \in Priority : Good(To(AsicGreenTrafficType(pri), Of(e, 0, 1)))
    BY <1>26, In1, IndexAssumption, Zenon DEF Takes
  <2> QED
    BY <2>1, Puts1, CallGood, Zenon DEF SwitchGreenTrafficType
<1> QED
  BY <1>27, <1>28, <1>29, <1>30, <1>31, <1>32, <1>33, <1>34

(* All calls of PortSettings.                                              *)
LEMMA PortCallsGood ==
  ASSUME NEW e \in Nat
  PROVE  \A k \in PortCalls(e) : GoodCall(k)
<1> SUFFICES ASSUME NEW k \in PortCalls(e)
             PROVE  GoodCall(k)
  BY Zenon
<1>1. k \in UNION {
        PortMacForceLink(e), PortMacForceLinkExt(e), PortMacLocalLoopbackEnable(e),
           PortBackpressureEnable(e), PortIsolation(e), PortRgmiiDelayExt(e), PortPhyEnableAll(e),
           PortEfid(e), PortPhyComboPortMedia(e), PortRtctEnable(e), PortSmallIpg(e), PortDos(e),
           PortPhyAutoNegoAbility(e), PortPhyForceModeAbility(e), PortPhyTestMode(e),
           PortPhy1000BaseTMasterSlave(e), PortAdminEnable(e), SwitchGreenEthernet(e),
           EeePortEnable(e), EeeInit(e), L2Init(e), L2FloodPortMask(e), L2LocalPktPermit(e),
           L2LimitLearningCnt(e), L2LimitLearningCntAction(e), L2AgingEnable(e),
           L2FlushLinkDownPortAddrEnable(e), L2Aging(e), L2IpMcastAddrLookup(e), L2Driver(e),
           TrapUnknownUnicastPktAction(e), CpuEnable(e), CpuTagPort(e), CpuDriver(e),
           MirrorPortBased(e), MirrorPortIso(e), TrunkPort(e), TrunkDistributionAlgorithm(e),
           TrunkDriver(e), LedEnable(e), LedOperation(e), LedMode(e), LedGroupConfig(e),
           LedModeForce(e), LedBlinkRate(e), LedForceBlinkRate(e), LedSerialMode(e),
           StatLoggingCounterCfg(e), StatDriver(e), IntPolarity(e), IntControl(e), SwitchMaxPktLen(e),
           SwitchPortMaxPktLen(e), SwitchMacAddress(e), SwitchGreenTrafficType(e)}
  BY Zenon DEF PortCalls
<1>2. \/ k \in PortMacForceLink(e)
      \/ k \in PortMacForceLinkExt(e)
      \/ k \in PortMacLocalLoopbackEnable(e)
      \/ k \in PortBackpressureEnable(e)
      \/ k \in PortIsolation(e)
      \/ k \in PortRgmiiDelayExt(e)
      \/ k \in PortPhyEnableAll(e)
      \/ k \in PortEfid(e)
      \/ k \in PortPhyComboPortMedia(e)
      \/ k \in PortRtctEnable(e)
      \/ k \in PortSmallIpg(e)
      \/ k \in PortDos(e)
      \/ k \in PortPhyAutoNegoAbility(e)
      \/ k \in PortPhyForceModeAbility(e)
      \/ k \in PortPhyTestMode(e)
      \/ k \in PortPhy1000BaseTMasterSlave(e)
      \/ k \in PortAdminEnable(e)
      \/ k \in SwitchGreenEthernet(e)
      \/ k \in EeePortEnable(e)
      \/ k \in EeeInit(e)
      \/ k \in L2Init(e)
      \/ k \in L2FloodPortMask(e)
      \/ k \in L2LocalPktPermit(e)
      \/ k \in L2LimitLearningCnt(e)
      \/ k \in L2LimitLearningCntAction(e)
      \/ k \in L2AgingEnable(e)
      \/ k \in L2FlushLinkDownPortAddrEnable(e)
      \/ k \in L2Aging(e)
      \/ k \in L2IpMcastAddrLookup(e)
      \/ k \in L2Driver(e)
      \/ k \in TrapUnknownUnicastPktAction(e)
      \/ k \in CpuEnable(e)
      \/ k \in CpuTagPort(e)
      \/ k \in CpuDriver(e)
      \/ k \in MirrorPortBased(e)
      \/ k \in MirrorPortIso(e)
      \/ k \in TrunkPort(e)
      \/ k \in TrunkDistributionAlgorithm(e)
      \/ k \in TrunkDriver(e)
      \/ k \in LedEnable(e)
      \/ k \in LedOperation(e)
      \/ k \in LedMode(e)
      \/ k \in LedGroupConfig(e)
      \/ k \in LedModeForce(e)
      \/ k \in LedBlinkRate(e)
      \/ k \in LedForceBlinkRate(e)
      \/ k \in LedSerialMode(e)
      \/ k \in StatLoggingCounterCfg(e)
      \/ k \in StatDriver(e)
      \/ k \in IntPolarity(e)
      \/ k \in IntControl(e)
      \/ k \in SwitchMaxPktLen(e)
      \/ k \in SwitchPortMaxPktLen(e)
      \/ k \in SwitchMacAddress(e)
      \/ k \in SwitchGreenTrafficType(e)
  BY <1>1, SMT
<1> QED
  BY <1>2, PortLinkCallsGood, PortMediaCallsGood, PhyNegotiationCallsGood, PhyForcedCallsGood,
     PhyTestCallsGood, PhyPowerCallsGood, AddressCallsGood, MirrorCallsGood, TrunkCallsGood,
     LedCallsGood, CounterCallsGood, Zenon

-----------------------------------------------------------------------------
(* VLANs, service VLANs and access lists (VlanSettings).                   *)

LEMMA VlanPortCallsGood ==
  ASSUME NEW e \in Nat
  PROVE  /\ \A k \in VlanPortIgrFilterEnable(e) : GoodCall(k)
         /\ \A k \in VlanPortAcceptFrameType(e) : GoodCall(k)
         /\ \A k \in VlanTagMode(e) : GoodCall(k)
         /\ \A k \in VlanTransparent(e) : GoodCall(k)
         /\ \A k \in VlanPortFid(e) : GoodCall(k)
         /\ \A k \in StpMstpState(e) : GoodCall(k)
<1>1. {VLAN_INGRESS, VLAN_ACCEPT_FRAME_TYPE_CTRL0, PORT0_MISC_CFG, VLAN_TRANSPARENT_EN_CFG,
   VLAN_EGRESS_KEEP_CTRL0, PORT_PBFIDEN, PORT0_PBFID, VLAN_MSTI0_CTRL0} \subseteq RegBlocks
  BY SMT DEF RegBlocks
<1>2. VLAN_INGRESS.count = 1
  BY DEF VLAN_INGRESS, One, Block
<1>3. \A port \in 0 .. 7 : Sound(AsicVlanIngressFilter(port), 1)
  BY <1>1, <1>2, FlagSound DEF AsicVlanIngressFilter
<1>4. VLAN_ACCEPT_FRAME_TYPE_CTRL0.count = 1
  BY DEF VLAN_ACCEPT_FRAME_TYPE_CTRL0, One, Block
<1>5. \A port \in 0 .. 7 : Nested(VLAN_ACCEPT_FRAME_TYPE_CTRL0, 2 * port, 2)
  BY SMT DEF VLAN_ACCEPT_FRAME_TYPE_CTRL0, One, Block, Each, Nested
<1>6. \A port \in 0 .. 7 : Sound(AsicVlanAccpetFrameType(port), 2)
  BY <1>1, <1>4, <1>5, FieldSound DEF AsicVlanAccpetFrameType
<1>7. PORT0_MISC_CFG.count = 8
  BY DEF PORT0_MISC_CFG, Block
<1>8. Nested(PORT0_MISC_CFG, 4, 2)
  BY SMT DEF PORT0_MISC_CFG, Block, Nested
<1>9. \A port \in 0 .. 7 : Sound(AsicVlanEgressTagMode(port), 2)
  BY <1>1, <1>7, <1>8, FieldSound DEF AsicVlanEgressTagMode
<1>10. VLAN_TRANSPARENT_EN_CFG.count = 1
  BY DEF VLAN_TRANSPARENT_EN_CFG, One, Block
<1>11. Sound(AsicVlanTransparent, 1)
  BY <1>1, <1>10, FlagSound DEF AsicVlanTransparent
<1>12. Packs(VLAN_EGRESS_KEEP_CTRL0, 2, 8, 8, 7)
  BY <1>1, SMT DEF Packs, VLAN_EGRESS_KEEP_CTRL0, Block, Each, Nested
<1>13. \A port \in 0 .. 7 : Sound(AsicVlanEgressKeep(port), 8)
  BY <1>12, PackedSound, Zenon DEF AsicVlanEgressKeep
<1>14. PORT_PBFIDEN.count = 1
  BY DEF PORT_PBFIDEN, One, Block
<1>15. \A port \in 0 .. 7 : Sound(AsicPortBasedFidEn(port), 1)
  BY <1>1, <1>14, FlagSound DEF AsicPortBasedFidEn
<1>16. PORT0_PBFID.count = 8
  BY DEF PORT0_PBFID, Block
<1>17. \A port \in 0 .. 7 : Sound(AsicPortBasedFid(port), 16)
  BY <1>1, <1>16, WordSound DEF AsicPortBasedFid
<1>18. VLAN_MSTI0_CTRL0.count = 16
  BY DEF VLAN_MSTI0_CTRL0, Block
<1>19. \A port \in 0 .. 7, msti \in 0 .. 15 : Nested(VLAN_MSTI0_CTRL0, 2 * port, 2)
  BY SMT DEF VLAN_MSTI0_CTRL0, Block, Each, Nested
<1>20. \A port \in 0 .. 7, msti \in 0 .. 15 : Sound(AsicSpanningTreeStatus(port, msti), 2)
  BY <1>1, <1>18, <1>19, FieldSound DEF AsicSpanningTreeStatus
<1>21. \A k \in VlanPortIgrFilterEnable(e) : GoodCall(k)
  <2>1. \A p \in Port : Good(To(AsicVlanIngressFilter(p), Of(e, 0, 1)))
    BY <1>3, In1, IndexAssumption, Zenon DEF Takes
  <2> QED
    BY <2>1, Puts1, CallGood, Zenon DEF VlanPortIgrFilterEnable
<1>22. \A k \in VlanPortAcceptFrameType(e) : GoodCall(k)
  <2>1. \A p \in Port : Good(To(AsicVlanAccpetFrameType(p), Of(e, 0, 2)))
    BY <1>6, In2, ThreeGood, IndexAssumption, Zenon DEF Takes
  <2> QED
    BY <2>1, Puts1, CallGood, Zenon DEF VlanPortAcceptFrameType
<1>23. \A k \in VlanTagMode(e) : GoodCall(k)
  <2>1. \A p \in Port : Good(To(AsicVlanEgressTagMode(p), Of(e, 0, 3)))
    BY <1>9, In2, IndexAssumption, Zenon DEF Takes
  <2> QED
    BY <2>1, Puts1, CallGood, Zenon DEF VlanTagMode
<1>24. \A k \in VlanTransparent(e) : GoodCall(k)
  <2>1. \A p \in Port :
        /\ Good(To(AsicVlanTransparent, Of(e, 0, 1)))
        /\ Good(ToBits(AsicVlanEgressKeep(p), OfBits(e, 8)))
    BY <1>11, <1>13, In1, In8, OfBitsGood, IndexAssumption, ZenonT(60) DEF Takes
  <2> QED
    BY <2>1, Puts2, CallGood, Zenon DEF VlanTransparent
<1>25. \A k \in VlanPortFid(e) : GoodCall(k)
  <2>1. Of(e, 0, 15) \in 0 .. RegDataMax
    <3>1. RegDataMax \in Nat /\ 15 <= RegDataMax
      BY SMT DEF RegDataMax
    <3> QED
      BY <3>1, SMT DEF Of
  <2>2. \A p \in Port : Good(To(AsicPortBasedFidEn(p), Of(e, 0, 1)))
    BY <1>15, In1, IndexAssumption, Zenon DEF Takes
  <2>3. \A p \in Port : Good(To(AsicPortBasedFid(p), Of(e, 0, 15)))
    BY <2>1, <1>17, In16, IndexAssumption, Zenon DEF Takes
  <2> QED
    BY <2>2, <2>3, Puts2, CallGood, Zenon DEF VlanPortFid
<1>26. \A k \in StpMstpState(e) : GoodCall(k)
  <2>1. \A p \in Port, m \in Msti : Good(To(AsicSpanningTreeStatus(p, m), Of(e, 0, 3)))
    BY <1>20, In2, IndexAssumption, VlanIndexAssumption, Zenon DEF Takes
  <2>2. \A k \in StpMstpState(e) :
          \E p \in Port, m \in Msti : k = Does(<<To(AsicSpanningTreeStatus(p, m), Of(e, 0, 3))>>)
    BY SMT DEF StpMstpState
  <2> QED
    BY <2>1, <2>2, Puts1, CallGood, Zenon
<1> QED
  BY <1>21, <1>22, <1>23, <1>24, <1>25, <1>26

(* What the calls of CVlan write for one port or one group.                *)
LEMMA VlanDriverCallsGood ==
  ASSUME NEW e \in Nat
  PROVE  /\ \A k \in VlanDriver(e) : GoodCall(k)
<1>1. {VLAN_PVID_CTRL0, VLAN_PORTBASED_PRIORITY_CTRL0, VLAN_PPB0_VALID, VLAN_PPB0_CTRL0,
   VLAN_PPB0_CTRL1, VLAN_PPB0_CTRL2, VLAN_PPB_PRIORITY_ITEM0_CTRL0, VLAN_PPB_PRIORITY_ITEM0_CTRL1,
   VLAN_CTRL, UNTAG_DSCP_PRI_CFG, VLAN_PPB0_CTRL3} \subseteq RegBlocks
  BY SMT DEF RegBlocks
<1>2. Packs(VLAN_PVID_CTRL0, 2, 8, 5, 7)
  BY <1>1, SMT DEF Packs, VLAN_PVID_CTRL0, Block, Each, Nested
<1>3. \A port \in 0 .. 7 : Sound(PvidSlot(port), 5)
  BY <1>2, PackedSound, Zenon DEF PvidSlot
<1>4. Packs(VLAN_PORTBASED_PRIORITY_CTRL0, 4, 4, 3, 7)
  BY <1>1, SMT DEF Packs, VLAN_PORTBASED_PRIORITY_CTRL0, Block, Each, Nested
<1>5. \A port \in 0 .. 7 : Sound(PvidPriority(port), 3)
  BY <1>4, PackedSound, Zenon DEF PvidPriority
<1>6. VLAN_PPB0_VALID.count = 4
  BY DEF VLAN_PPB0_VALID, Block
<1>7. \A port \in 0 .. 7, item \in 0 .. 3 : Sound(PpbValid(port, item), 1)
  BY <1>1, <1>6, FlagSound DEF PpbValid
<1>8. VLAN_PPB0_CTRL0.count = 4
  BY DEF VLAN_PPB0_CTRL0, Block
<1>9. VLAN_PPB0_CTRL1.count = 4
  BY DEF VLAN_PPB0_CTRL1, Block
<1>10. VLAN_PPB0_CTRL2.count = 4
  BY DEF VLAN_PPB0_CTRL2, Block
<1>11. \A port \in 0 .. 7, item \in 0 .. 3 : Sound(PpbSlot(port, item), 5)
  <2> SUFFICES ASSUME NEW port \in 0 .. 7, NEW item \in 0 .. 3
               PROVE  Sound(PpbSlot(port, item), 5)
    BY Zenon
  <2> DEFINE lo == 5 * (port % 3)
             x == <<VLAN_PPB0_CTRL0, VLAN_PPB0_CTRL1, VLAN_PPB0_CTRL2>>[1 + (port \div 3)]
  <2>1. /\ lo \in {0, 5, 10} /\ lo \in Int /\ 5 \in Nat /\ item \in 0 .. 4 - 1
        /\ port \div 3 = 0 \/ port \div 3 = 1 \/ port \div 3 = 2
        /\ port \div 3 = 2 => lo # 10
    BY SMT
  <2>2. \A j \in {0, 5, 10} : Nested(VLAN_PPB0_CTRL0, j, 5) /\ Nested(VLAN_PPB0_CTRL1, j, 5)
    BY SMT DEF VLAN_PPB0_CTRL0, VLAN_PPB0_CTRL1, Block, Each, Nested
  <2>3. \A j \in {0, 5} : Nested(VLAN_PPB0_CTRL2, j, 5)
    BY SMT DEF VLAN_PPB0_CTRL2, Block, Nested
  <2>4. /\ port \div 3 = 0 => x = VLAN_PPB0_CTRL0
        /\ port \div 3 = 1 => x = VLAN_PPB0_CTRL1
        /\ port \div 3 = 2 => x = VLAN_PPB0_CTRL2
    <3> HIDE DEF lo
    <3> QED
      BY SMT
  <2> HIDE DEF lo, x
  <2>5. x \in RegBlocks /\ x.count = 4
    BY <2>1, <2>4, <1>1, <1>1, <1>1, <1>8, <1>9, <1>10, Zenon
  <2>6. Nested(x, lo, 5)
    <3>1. lo # 10 => lo \in {0, 5}
      BY <2>1, Zenon
    <3> QED
      BY <2>1, <2>2, <2>3, <2>4, <3>1, Zenon
  <2>7. item \in 0 .. x.count - 1
    BY <2>1, <2>5, Zenon
  <2>8. Sound(<<Field(Reg(x, item), lo, 5)>>, 5)
    BY <2>1, <2>5, <2>6, <2>7, FieldSound, Zenon
  <2> QED
    BY <2>8, Zenon DEF PpbSlot, x, lo
<1>12. VLAN_PPB_PRIORITY_ITEM0_CTRL0.count = 4
  BY DEF VLAN_PPB_PRIORITY_ITEM0_CTRL0, Block
<1>13. VLAN_PPB_PRIORITY_ITEM0_CTRL1.count = 4
  BY DEF VLAN_PPB_PRIORITY_ITEM0_CTRL1, Block
<1>14. \A port \in 0 .. 7, item \in 0 .. 3 : Sound(PpbPriority(port, item), 3)
  <2> SUFFICES ASSUME NEW port \in 0 .. 7, NEW item \in 0 .. 3
               PROVE  Sound(PpbPriority(port, item), 3)
    BY Zenon
  <2> DEFINE lo == 4 * (port % 4)
             x == <<VLAN_PPB_PRIORITY_ITEM0_CTRL0, VLAN_PPB_PRIORITY_ITEM0_CTRL1>>[1 + (port \div 4)]
  <2>1. /\ lo \in {0, 4, 8, 12} /\ lo \in Int /\ 3 \in Nat /\ item \in 0 .. 4 - 1
        /\ port \div 4 = 0 \/ port \div 4 = 1
    BY SMT
  <2>2. \A j \in {0, 4, 8, 12} : /\ Nested(VLAN_PPB_PRIORITY_ITEM0_CTRL0, j, 3)
                                /\ Nested(VLAN_PPB_PRIORITY_ITEM0_CTRL1, j, 3)
    BY SMT DEF VLAN_PPB_PRIORITY_ITEM0_CTRL0, VLAN_PPB_PRIORITY_ITEM0_CTRL1, Block, Each, Nested
  <2>3. /\ port \div 4 = 0 => x = VLAN_PPB_PRIORITY_ITEM0_CTRL0
        /\ port \div 4 = 1 => x = VLAN_PPB_PRIORITY_ITEM0_CTRL1
    <3> HIDE DEF lo
    <3> QED
      BY SMT
  <2> HIDE DEF lo, x
  <2>4. x \in RegBlocks /\ x.count = 4
    BY <2>1, <2>3, <1>1, <1>1, <1>12, <1>13, Zenon
  <2>5. Nested(x, lo, 3)
    BY <2>1, <2>2, <2>3, Zenon
  <2>6. item \in 0 .. x.count - 1
    BY <2>1, <2>4, Zenon
  <2>7. Sound(<<Field(Reg(x, item), lo, 3)>>, 3)
    BY <2>1, <2>4, <2>5, <2>6, FieldSound, Zenon
  <2> QED
    BY <2>7, Zenon DEF PpbPriority, x, lo
<1>15. VLAN_CTRL.count = 1
  BY DEF VLAN_CTRL, One, Block
<1>16. Sound(AsicVlanFilter, 1)
  BY <1>1, <1>15, FlagSound DEF AsicVlanFilter
<1>17. UNTAG_DSCP_PRI_CFG.count = 1
  BY DEF UNTAG_DSCP_PRI_CFG, One, Block
<1>18. Sound(AsicVlanUntagDscpPriorityEn, 1)
  BY <1>1, <1>17, FlagSound DEF AsicVlanUntagDscpPriorityEn
<1>19. \A item \in 0 .. 3 : Sound(<<Field(Reg(VLAN_PPB0_CTRL2, item), 10, 2)>>, 2)
  <2>1. Nested(VLAN_PPB0_CTRL2, 10, 2)
    BY SMT DEF VLAN_PPB0_CTRL2, Block, Nested
  <2> QED
    BY <2>1, <1>1, <1>10, FieldSound
<1>20. VLAN_PPB0_CTRL3.count = 4
  BY DEF VLAN_PPB0_CTRL3, Block
<1>21. \A item \in 0 .. 3 : Sound(<<Word(Reg(VLAN_PPB0_CTRL3, item))>>, 16)
  BY <1>1, <1>20, WordSound
<1>22. \A k \in VlanDriver(e) : GoodCall(k)
  <2>1. \A p \in Port : Good(To(PvidSlot(p), Of(e, 0, 31)))
    BY <1>3, In5, IndexAssumption, Zenon DEF Takes
  <2>2. \A p \in Port : Good(To(PvidPriority(p), Of(e, 0, 7)))
    BY <1>5, In3, IndexAssumption, Zenon DEF Takes
  <2>3. \A p \in Port : GoodPuts(AsicVlanPortBasedVID(p, Of(e, 0, 31), Of(e, 0, 7)))
    BY <2>1, <2>2, Puts2, Zenon DEF AsicVlanPortBasedVID
  <2>4. \A p \in Port, i \in PpbItem : Good(To(PpbValid(p, i), Of(e, 0, 1)))
    BY <1>7, In1, IndexAssumption, VlanIndexAssumption, Zenon DEF Takes
  <2>5. \A p \in Port, i \in PpbItem : Good(To(PpbSlot(p, i), Of(e, 0, 31)))
    BY <1>11, In5, IndexAssumption, VlanIndexAssumption, Zenon DEF Takes
  <2>6. \A p \in Port, i \in PpbItem : Good(To(PpbPriority(p, i), Of(e, 0, 7)))
    BY <1>14, In3, IndexAssumption, VlanIndexAssumption, Zenon DEF Takes
  <2>7. \A p \in Port, i \in PpbItem :
          GoodPuts(AsicVlanPortAndProtocolBased(p, i, Of(e, 0, 1), Of(e, 0, 31), Of(e, 0, 7)))
    BY <2>4, <2>5, <2>6, Puts3, Zenon DEF AsicVlanPortAndProtocolBased
  <2>8. \A i \in PpbItem : Good(To(<<Field(Reg(VLAN_PPB0_CTRL2, i), 10, 2)>>, Of(e, 0, 2)))
    BY <1>19, ThreeGood, VlanIndexAssumption, Zenon
  <2>9. \A i \in PpbItem : Good(To(<<Word(Reg(VLAN_PPB0_CTRL3, i))>>, Of(e, 0, RegDataMax)))
    BY <1>21, In16, VlanIndexAssumption, Zenon DEF Takes
  <2>10. \A i \in PpbItem : GoodPuts(AsicVlanProtocolBasedGroupData(i, Of(e, 0, 2), Of(e, 0, RegDataMax)))
    BY <2>8, <2>9, Puts2, Zenon DEF AsicVlanProtocolBasedGroupData
  <2>11. \A s \in {AsicVlanFilter, AsicVlanUntagDscpPriorityEn} : Good(To(s, Of(e, 0, 1)))
    BY <1>16, <1>18, In1, Zenon DEF Takes
  <2>12. \A k \in VlanDriver(e) :
           \/ \E p \in Port : k = Does(AsicVlanPortBasedVID(p, Of(e, 0, 31), Of(e, 0, 7)))
           \/ \E p \in Port, i \in PpbItem :
                k = Does(AsicVlanPortAndProtocolBased(p, i, Of(e, 0, 1), Of(e, 0, 31), Of(e, 0, 7)))
           \/ \E i \in PpbItem : k = Does(AsicVlanProtocolBasedGroupData(i, Of(e, 0, 2), Of(e, 0, RegDataMax)))
           \/ \E s \in {AsicVlanFilter, AsicVlanUntagDscpPriorityEn} : k = Does(<<To(s, Of(e, 0, 1))>>)
    BY SMT DEF VlanDriver
  <2>13. \A s \in {AsicVlanFilter, AsicVlanUntagDscpPriorityEn} : GoodPuts(<<To(s, Of(e, 0, 1))>>)
    BY <2>11, Puts1, Zenon
  <2> QED
    BY <2>3, <2>7, <2>10, <2>12, <2>13, CallGood, ZenonT(60)
<1> QED
  BY <1>22

(* Service VLANs.                                                          *)
LEMMA SvlanCallsGood ==
  ASSUME NEW e \in Nat
  PROVE  /\ \A k \in SvlanServicePortAdd(e) : GoodCall(k)
         /\ \A k \in SvlanServicePortDel(e) : GoodCall(k)
         /\ \A k \in SvlanTpidEntry(e) : GoodCall(k)
         /\ \A k \in SvlanPriorityRef(e) : GoodCall(k)
         /\ \A k \in SvlanDmacVidsel(e) : GoodCall(k)
         /\ \A k \in SvlanDriver(e) : GoodCall(k)
<1>1. {SVLAN_UPLINK_PORTMASK, VS_TPID, SVLAN_CFG, SVLAN_PORTBASED_SVIDX_CTRL0, SVLAN_UNTAG_UNMAT_CFG,
   QOS_TRAP_PRIORITY0} \subseteq RegBlocks
  BY SMT DEF RegBlocks
<1>2. SVLAN_UPLINK_PORTMASK.count = 1
  BY DEF SVLAN_UPLINK_PORTMASK, One, Block
<1>3. \A port \in 0 .. 7 : Sound(AsicSvlanUplinkPort(port), 1)
  BY <1>1, <1>2, FlagSound DEF AsicSvlanUplinkPort
<1>4. VS_TPID.count = 1
  BY DEF VS_TPID, One, Block
<1>5. Sound(AsicSvlanTpid, 16)
  BY <1>1, <1>4, WordSound DEF AsicSvlanTpid
<1>6. SVLAN_CFG.count = 1
  BY DEF SVLAN_CFG, One, Block
<1>7. Nested(SVLAN_CFG, 0, 2)
  BY SMT DEF SVLAN_CFG, One, Block, Nested
<1>8. Sound(AsicSvlanPrioritySel, 2)
  BY <1>1, <1>6, <1>7, FieldSound DEF AsicSvlanPrioritySel
<1>9. \A port \in 0 .. 7 : Sound(AsicSvlanDmacCvidSel(port), 1)
  BY <1>1, <1>6, FlagSound DEF AsicSvlanDmacCvidSel
<1>10. Packs(SVLAN_PORTBASED_SVIDX_CTRL0, 2, 8, 6, 7)
  BY <1>1, SMT DEF Packs, SVLAN_PORTBASED_SVIDX_CTRL0, Block, Each, Nested
<1>11. \A port \in 0 .. 7 : Sound(AsicSvlanDefaultVlan(port), 6)
  BY <1>10, PackedSound, Zenon DEF AsicSvlanDefaultVlan
<1>12. SVLAN_UNTAG_UNMAT_CFG.count = 1
  BY DEF SVLAN_UNTAG_UNMAT_CFG, One, Block
<1>13. Nested(SVLAN_UNTAG_UNMAT_CFG, 8, 6)
  BY SMT DEF SVLAN_UNTAG_UNMAT_CFG, One, Block, Each, Nested
<1>14. Sound(AsicSvlanUntagVlan, 6)
  BY <1>1, <1>12, <1>13, FieldSound DEF AsicSvlanUntagVlan
<1>15. Nested(SVLAN_UNTAG_UNMAT_CFG, 0, 6)
  BY SMT DEF SVLAN_UNTAG_UNMAT_CFG, One, Block, Each, Nested
<1>16. Sound(AsicSvlanUnmatchVlan, 6)
  BY <1>1, <1>12, <1>15, FieldSound DEF AsicSvlanUnmatchVlan
<1>17. Nested(SVLAN_CFG, 2, 2)
  BY SMT DEF SVLAN_CFG, One, Block, Nested
<1>18. Sound(AsicSvlanIngressUntag, 2)
  BY <1>1, <1>6, <1>17, FieldSound DEF AsicSvlanIngressUntag
<1>19. Nested(SVLAN_CFG, 4, 2)
  BY SMT DEF SVLAN_CFG, One, Block, Nested
<1>20. Sound(AsicSvlanIngressUnmatch, 2)
  BY <1>1, <1>6, <1>19, FieldSound DEF AsicSvlanIngressUnmatch
<1>21. Sound(AsicSvlanEgressUnassign, 1)
  BY <1>1, <1>6, FlagSound DEF AsicSvlanEgressUnassign
<1>22. QOS_TRAP_PRIORITY0.count = 1
  BY DEF QOS_TRAP_PRIORITY0, One, Block
<1>23. Nested(QOS_TRAP_PRIORITY0, 8, 3)
  BY SMT DEF QOS_TRAP_PRIORITY0, One, Block, Each, Nested
<1>24. Sound(AsicSvlanTrapPriority, 3)
  BY <1>1, <1>22, <1>23, FieldSound DEF AsicSvlanTrapPriority
<1>25. \A k \in SvlanServicePortAdd(e) : GoodCall(k)
  <2>1. \A p \in Port : Good(To(AsicSvlanUplinkPort(p), 1))
    BY <1>3, In1, IndexAssumption, Zenon DEF Takes
  <2> QED
    BY <2>1, Puts1, CallGood, Zenon DEF SvlanServicePortAdd
<1>26. \A k \in SvlanServicePortDel(e) : GoodCall(k)
  <2>1. \A p \in Port : Good(To(AsicSvlanUplinkPort(p), 0))
    BY <1>3, In1, IndexAssumption, Zenon DEF Takes
  <2> QED
    BY <2>1, Puts1, CallGood, Zenon DEF SvlanServicePortDel
<1>27. \A k \in SvlanTpidEntry(e) : GoodCall(k)
  <2>1. Good(To(AsicSvlanTpid, Of(e, 0, RegDataMax)))
    BY <1>5, In16, Zenon DEF Takes
  <2> QED
    BY <2>1, Puts1, CallGood, ZenonT(60) DEF SvlanTpidEntry
<1>28. \A k \in SvlanPriorityRef(e) : GoodCall(k)
  <2>1. Good(To(AsicSvlanPrioritySel, Of(e, 0, 3)))
    BY <1>8, In2, Zenon DEF Takes
  <2> QED
    BY <2>1, Puts1, CallGood, Zenon DEF SvlanPriorityRef
<1>29. \A k \in SvlanDmacVidsel(e) : GoodCall(k)
  <2>1. \A p \in Port : Good(To(AsicSvlanDmacCvidSel(p), Of(e, 0, 1)))
    BY <1>9, In1, IndexAssumption, Zenon DEF Takes
  <2> QED
    BY <2>1, Puts1, CallGood, Zenon DEF SvlanDmacVidsel
<1>30. \A k \in SvlanDriver(e) : GoodCall(k)
  <2>1. \A p \in Port : Good(To(AsicSvlanDefaultVlan(p), Of(e, 0, 63)))
    BY <1>11, In6, IndexAssumption, Zenon DEF Takes
  <2>2. \A s \in {AsicSvlanUntagVlan, AsicSvlanUnmatchVlan} : Good(To(s, Of(e, 0, 63)))
    BY <1>14, <1>16, In6, ZenonT(60) DEF Takes
  <2>3. \A s \in {AsicSvlanIngressUntag, AsicSvlanIngressUnmatch} : Good(To(s, Of(e, 0, 2)))
    BY <1>18, <1>20, In2, ThreeGood, Zenon DEF Takes
  <2>4. Good(To(AsicSvlanEgressUnassign, Of(e, 0, 1)))
    BY <1>21, In1, Zenon DEF Takes
  <2>5. Good(To(AsicSvlanTrapPriority, Of(e, 0, 7)))
    BY <1>24, In3, Zenon DEF Takes
  <2> QED
    BY <2>1, <2>2, <2>3, <2>4, <2>5, Puts1, CallGood, Zenon DEF SvlanDriver
<1> QED
  BY <1>25, <1>26, <1>27, <1>28, <1>29, <1>30

(* Access lists: ports, templates, rules.                                  *)
LEMMA FilterCallsGood ==
  ASSUME NEW e \in Nat
  PROVE  /\ \A k \in FilterIgrAclState(e) : GoodCall(k)
         /\ \A k \in FilterIgrAclUnmatchAction(e) : GoodCall(k)
         /\ \A k \in FilterIgrAclTemplate(e) : GoodCall(k)
         /\ \A k \in FilterIgrAclFieldSel(e) : GoodCall(k)
         /\ \A k \in FilterDriver(e) : GoodCall(k)
<1>1. {ACL_ENABLE, ACL_UNMATCH_PERMIT, ACL_RULE_TEMPLATE0_CTRL0, ACL_RULE_TEMPLATE0_CTRL1,
   ACL_RULE_TEMPLATE0_CTRL2, ACL_RULE_TEMPLATE0_CTRL3, FIELD_SELECTOR0, ACL_ACTION_CTRL0,
   ACL_GPIO_POLARITY} \subseteq RegBlocks
  BY SMT DEF RegBlocks
<1>2. ACL_ENABLE.count = 1
  BY DEF ACL_ENABLE, One, Block
<1>3. \A port \in 0 .. 7 : Sound(AsicAcl(port), 1)
  BY <1>1, <1>2, FlagSound DEF AsicAcl
<1>4. ACL_UNMATCH_PERMIT.count = 1
  BY DEF ACL_UNMATCH_PERMIT, One, Block
<1>5. \A port \in 0 .. 7 : Sound(AsicAclUnmatchedPermit(port), 1)
  BY <1>1, <1>4, FlagSound DEF AsicAclUnmatchedPermit
<1>6. ACL_RULE_TEMPLATE0_CTRL0.count = 5
  BY DEF ACL_RULE_TEMPLATE0_CTRL0, Block
<1>7. ACL_RULE_TEMPLATE0_CTRL1.count = 5
  BY DEF ACL_RULE_TEMPLATE0_CTRL1, Block
<1>8. ACL_RULE_TEMPLATE0_CTRL2.count = 5
  BY DEF ACL_RULE_TEMPLATE0_CTRL2, Block
<1>9. ACL_RULE_TEMPLATE0_CTRL3.count = 5
  BY DEF ACL_RULE_TEMPLATE0_CTRL3, Block
<1>10. \A index \in 0 .. 4 : Sound(AsicAclTemplate(index), 64)
  <2>1. \A index \in 0 .. 4 : Cell(Word(Reg(ACL_RULE_TEMPLATE0_CTRL0, index)), 0, 15)
    BY <1>1, <1>6, WordCell
  <2>2. \A index \in 0 .. 4 : Cell(From(16, Word(Reg(ACL_RULE_TEMPLATE0_CTRL1, index))), 16, 16 + 15)
    BY <1>1, <1>7, WordFrom
  <2>3. \A index \in 0 .. 4 : Cell(From(32, Word(Reg(ACL_RULE_TEMPLATE0_CTRL2, index))), 32, 32 + 15)
    BY <1>1, <1>8, WordFrom
  <2>4. \A index \in 0 .. 4 : Cell(From(48, Word(Reg(ACL_RULE_TEMPLATE0_CTRL3, index))), 48, 48 + 15)
    BY <1>1, <1>9, WordFrom
  <2>5. 0 .. 64 - 1 \subseteq (0 .. 15) \cup (16 .. 16 + 15) \cup (32 .. 32 + 15) \cup (48 .. 48 + 15)
    BY SMT
  <2> QED
    BY <2>1, <2>2, <2>3, <2>4, <2>5, FourCells, SMTT(40) DEF AsicAclTemplate
<1>11. FIELD_SELECTOR0.count = 16
  BY DEF FIELD_SELECTOR0, Block
<1>12. \A index \in 0 .. 15 : Sound(AsicFieldSelector(index), 16)
  BY <1>1, <1>11, WordSound DEF AsicFieldSelector
<1>13. ACL_ACTION_CTRL0.count = 32
  BY DEF ACL_ACTION_CTRL0, Block
<1>14. \A rule \in 0 .. 63 : Sound(AsicAclNot(rule), 1)
  BY <1>1, <1>13, FlagSound DEF AsicAclNot
<1>15. Packs(ACL_ACTION_CTRL0, 2, 8, 6, 63)
  BY <1>1, SMT DEF Packs, ACL_ACTION_CTRL0, Block, Nested
<1>16. \A rule \in 0 .. 63 : Sound(AsicAclActCtrl(rule), 6)
  BY <1>15, PackedSound, Zenon DEF AsicAclActCtrl
<1>17. ACL_GPIO_POLARITY.count = 1
  BY DEF ACL_GPIO_POLARITY, One, Block
<1>18. Sound(AsicAclGpioPolarity, 1)
  BY <1>1, <1>17, FlagSound DEF AsicAclGpioPolarity
<1>19. \A k \in FilterIgrAclState(e) : GoodCall(k)
  <2>1. \A p \in Port : Good(To(AsicAcl(p), Of(e, 0, 1)))
    BY <1>3, In1, IndexAssumption, Zenon DEF Takes
  <2> QED
    BY <2>1, Puts1, CallGood, Zenon DEF FilterIgrAclState
<1>20. \A k \in FilterIgrAclUnmatchAction(e) : GoodCall(k)
  <2>1. \A p \in Port : Good(To(AsicAclUnmatchedPermit(p), Of(e, 0, 1)))
    BY <1>5, In1, IndexAssumption, Zenon DEF Takes
  <2> QED
    BY <2>1, Puts1, CallGood, Zenon DEF FilterIgrAclUnmatchAction
<1>21. \A k \in FilterIgrAclTemplate(e) : GoodCall(k)
  <2> DEFINE type == Code(Of(e, 1, 79))
             all == {8 * n + b : n \in 0 .. 7, b \in type}
  <2>1. Of(e, 1, 79) \in Nat /\ Of(e, 1, 79) < Weight(7) /\ 7 \in 0 .. 30
    BY Weights, SMT DEF Of
  <2>2. type \subseteq 0 .. 7 - 1
    BY <2>1, CodeBelow, Zenon
  <2> HIDE DEF type
  <2>3. all \subseteq 0 .. 64 - 1
    <3>1. \A n \in 0 .. 7, b \in 0 .. 7 - 1 : 8 * n + b \in 0 .. 64 - 1
      BY SMT
    <3>2. \A v \in all : \E n \in 0 .. 7, b \in type : v = 8 * n + b
      BY SMT
    <3> HIDE DEF all
    <3>3. ASSUME NEW v \in all
          PROVE  v \in 0 .. 64 - 1
      <4>1. PICK n \in 0 .. 7, b \in type : v = 8 * n + b
        BY <3>2, Zenon
      <4>2. b \in 0 .. 7 - 1
        BY <2>2, Zenon
      <4> QED
        BY <3>1, <4>1, <4>2, Zenon
    <3> QED
      BY <3>3
  <2>5. FilterIgrAclTemplate(e) = {Does(<<ToBits(AsicAclTemplate(i), all)>>) : i \in Template}
    BY SMT DEF FilterIgrAclTemplate, type
  <2> HIDE DEF all
  <2>4. \A i \in Template : Good(ToBits(AsicAclTemplate(i), all))
    BY <2>3, <1>10, BitsGood, VlanIndexAssumption, Zenon
  <2>6. \A i \in Template : GoodPuts(<<ToBits(AsicAclTemplate(i), all)>>)
    BY <2>4, Puts1, Zenon
  <2> QED
    BY <2>5, <2>6, CallGood, Zenon
<1>22. \A k \in FilterIgrAclFieldSel(e) : GoodCall(k)
  <2>1. Of(e, 0, 255 + 256 * 6) \in 0 .. RegDataMax
    <3>1. 0 \in Nat /\ 255 + 256 * 6 \in Nat /\ 0 <= 255 + 256 * 6
      BY SMT
    <3>2. Of(e, 0, 255 + 256 * 6) \in 0 .. 255 + 256 * 6
      BY <3>1, OfRange, Zenon
    <3>3. \A v \in 0 .. 255 + 256 * 6 : v \in 0 .. RegDataMax
      BY SMT DEF RegDataMax
    <3> QED
      BY <3>2, <3>3, Zenon
  <2>2. \A i \in Range : Good(To(AsicFieldSelector(i), Of(e, 0, 255 + 256 * 6)))
    BY <2>1, <1>12, In16, VlanIndexAssumption, ZenonT(60) DEF Takes
  <2> QED
    BY <2>2, Puts1, CallGood, ZenonT(60) DEF FilterIgrAclFieldSel
<1>23. \A k \in FilterDriver(e) : GoodCall(k)
  <2>1. \A r \in Rule : Good(To(AsicAclNot(r), Of(e, 0, 1))) /\ Good(To(AsicAclActCtrl(r), Of(e, 0, 63)))
    BY <1>14, <1>16, In1, In6, VlanIndexAssumption, Zenon DEF Takes
  <2>2. Good(To(AsicAclGpioPolarity, Of(e, 0, 1)))
    BY <1>18, In1, Zenon DEF Takes
  <2> QED
    BY <2>1, <2>2, Puts1, Puts2, CallGood, Zenon DEF FilterDriver
<1> QED
  BY <1>19, <1>20, <1>21, <1>22, <1>23

(* Access lists: ranges over several registers.                            *)
LEMMA FilterRangeCallsGood ==
  ASSUME NEW e \in Nat
  PROVE  /\ \A k \in FilterIprange(e) : GoodCall(k)
         /\ \A k \in FilterVidrange(e) : GoodCall(k)
         /\ \A k \in FilterPortrange(e) : GoodCall(k)
<1>1. {ACL_IP_RANGE_ENTRY0_CTRL4, ACL_IP_RANGE_ENTRY0_CTRL2, ACL_IP_RANGE_ENTRY0_CTRL3,
   ACL_IP_RANGE_ENTRY0_CTRL0, ACL_IP_RANGE_ENTRY0_CTRL1, ACL_VID_RANGE_ENTRY0_CTRL1,
   ACL_VID_RANGE_ENTRY0_CTRL0, ACL_SDPORT_RANGE_ENTRY0_CTRL2, ACL_SDPORT_RANGE_ENTRY0_CTRL1,
   ACL_SDPORT_RANGE_ENTRY0_CTRL0} \subseteq RegBlocks
  BY SMT DEF RegBlocks
<1>2. ACL_IP_RANGE_ENTRY0_CTRL4.count = 16
  BY DEF ACL_IP_RANGE_ENTRY0_CTRL4, Block
<1>3. ACL_IP_RANGE_ENTRY0_CTRL2.count = 16
  BY DEF ACL_IP_RANGE_ENTRY0_CTRL2, Block
<1>4. ACL_IP_RANGE_ENTRY0_CTRL3.count = 16
  BY DEF ACL_IP_RANGE_ENTRY0_CTRL3, Block
<1>5. ACL_IP_RANGE_ENTRY0_CTRL0.count = 16
  BY DEF ACL_IP_RANGE_ENTRY0_CTRL0, Block
<1>6. ACL_IP_RANGE_ENTRY0_CTRL1.count = 16
  BY DEF ACL_IP_RANGE_ENTRY0_CTRL1, Block
<1>7. \A index \in 0 .. 15 : Sound(AsicAclIpRange(index), 67)
  <2>1. Nested(ACL_IP_RANGE_ENTRY0_CTRL4, 0, 3) /\ 3 \in Nat
    BY SMT DEF ACL_IP_RANGE_ENTRY0_CTRL4, Block, Low, Nested
  <2>2. \A index \in 0 .. 15 : Cell(From(64, Field(Reg(ACL_IP_RANGE_ENTRY0_CTRL4, index), 0, 3)), 64, 64 + 3 - 1)
    BY <2>1, <1>1, <1>2, FieldFrom, SMTT(40)
  <2>3. \A index \in 0 .. 15 : Cell(From(32, Word(Reg(ACL_IP_RANGE_ENTRY0_CTRL2, index))), 32, 32 + 15)
    BY <1>1, <1>3, WordFrom
  <2>4. \A index \in 0 .. 15 : Cell(From(48, Word(Reg(ACL_IP_RANGE_ENTRY0_CTRL3, index))), 48, 48 + 15)
    BY <1>1, <1>4, WordFrom
  <2>5. \A index \in 0 .. 15 : Cell(Word(Reg(ACL_IP_RANGE_ENTRY0_CTRL0, index)), 0, 15)
    BY <1>1, <1>5, WordCell
  <2>6. \A index \in 0 .. 15 : Cell(From(16, Word(Reg(ACL_IP_RANGE_ENTRY0_CTRL1, index))), 16, 16 + 15)
    BY <1>1, <1>6, WordFrom
  <2>7. 0 .. 67 - 1 \subseteq (64 .. 64 + 3 - 1) \cup (32 .. 32 + 15) \cup (48 .. 48 + 15) \cup (0 .. 15) \cup (16 .. 16 + 15)
    BY SMT
  <2> SUFFICES ASSUME NEW index \in 0 .. 15
               PROVE  Sound(AsicAclIpRange(index), 67)
    BY Zenon
  <2> DEFINE c == From(64, Field(Reg(ACL_IP_RANGE_ENTRY0_CTRL4, index), 0, 3))
             p == From(32, Word(Reg(ACL_IP_RANGE_ENTRY0_CTRL2, index)))
             f == From(48, Word(Reg(ACL_IP_RANGE_ENTRY0_CTRL3, index)))
             g == Word(Reg(ACL_IP_RANGE_ENTRY0_CTRL0, index))
             h == From(16, Word(Reg(ACL_IP_RANGE_ENTRY0_CTRL1, index)))
  <2>8. Cell(c, 64, 64 + 3 - 1)
    BY <2>2
  <2>9. Cell(p, 32, 32 + 15)
    BY <2>3
  <2>10. Cell(f, 48, 48 + 15)
    BY <2>4
  <2>11. Cell(g, 0, 15)
    BY <2>5
  <2>12. Cell(h, 16, 16 + 15)
    BY <2>6
  <2> HIDE DEF c, p, f, g, h
  <2>13. Sound(<<c, p, f, g, h>>, 67)
    BY <2>7, <2>8, <2>9, <2>10, <2>11, <2>12, FiveCells, SMT
  <2> QED
    BY <2>13, Zenon DEF AsicAclIpRange, c, p, f, g, h
<1>8. ACL_VID_RANGE_ENTRY0_CTRL1.count = 16
  BY DEF ACL_VID_RANGE_ENTRY0_CTRL1, Block
<1>9. ACL_VID_RANGE_ENTRY0_CTRL0.count = 16
  BY DEF ACL_VID_RANGE_ENTRY0_CTRL0, Block
<1>10. \A index \in 0 .. 15 : Sound(AsicAclVidRange(index), 32)
  <2>1. \A index \in 0 .. 15 : Cell(From(16, Word(Reg(ACL_VID_RANGE_ENTRY0_CTRL1, index))), 16, 16 + 15)
    BY <1>1, <1>8, WordFrom
  <2>2. \A index \in 0 .. 15 : Cell(Word(Reg(ACL_VID_RANGE_ENTRY0_CTRL0, index)), 0, 15)
    BY <1>1, <1>9, WordCell
  <2>3. 0 .. 32 - 1 \subseteq (16 .. 16 + 15) \cup (0 .. 15)
    BY SMT
  <2> QED
    BY <2>1, <2>2, <2>3, TwoCells, SMT DEF AsicAclVidRange
<1>11. ACL_SDPORT_RANGE_ENTRY0_CTRL2.count = 16
  BY DEF ACL_SDPORT_RANGE_ENTRY0_CTRL2, Block
<1>12. ACL_SDPORT_RANGE_ENTRY0_CTRL1.count = 16
  BY DEF ACL_SDPORT_RANGE_ENTRY0_CTRL1, Block
<1>13. ACL_SDPORT_RANGE_ENTRY0_CTRL0.count = 16
  BY DEF ACL_SDPORT_RANGE_ENTRY0_CTRL0, Block
<1>14. \A index \in 0 .. 15 : Sound(AsicAclPortRange(index), 34)
  <2>1. Nested(ACL_SDPORT_RANGE_ENTRY0_CTRL2, 0, 2) /\ 2 \in Nat
    BY SMT DEF ACL_SDPORT_RANGE_ENTRY0_CTRL2, Block, Low, Nested
  <2>2. \A index \in 0 .. 15 : Cell(From(32, Field(Reg(ACL_SDPORT_RANGE_ENTRY0_CTRL2, index), 0, 2)), 32, 32 + 2 - 1)
    BY <2>1, <1>1, <1>11, FieldFrom
  <2>3. \A index \in 0 .. 15 : Cell(From(16, Word(Reg(ACL_SDPORT_RANGE_ENTRY0_CTRL1, index))), 16, 16 + 15)
    BY <1>1, <1>12, WordFrom
  <2>4. \A index \in 0 .. 15 : Cell(Word(Reg(ACL_SDPORT_RANGE_ENTRY0_CTRL0, index)), 0, 15)
    BY <1>1, <1>13, WordCell
  <2>5. 0 .. 34 - 1 \subseteq (32 .. 32 + 2 - 1) \cup (16 .. 16 + 15) \cup (0 .. 15)
    BY SMT
  <2> QED
    BY <2>2, <2>3, <2>4, <2>5, ThreeCells, SMT DEF AsicAclPortRange
<1>15. \A k \in FilterIprange(e) : GoodCall(k)
  <2>1. Either(e, {}, (0 .. 63) \cup {66}) \subseteq 0 .. 67 - 1
    BY SMT DEF Either
  <2>2. \A i \in Range : Good(ToBits(AsicAclIpRange(i), Either(e, {}, (0 .. 63) \cup {66})))
    BY <2>1, <1>7, BitsGood, VlanIndexAssumption, Zenon
  <2> QED
    BY <2>2, Puts1, CallGood, Zenon DEF FilterIprange
<1>16. \A k \in FilterVidrange(e) : GoodCall(k)
  <2>1. Either(e, {}, (0 .. 11) \cup (16 .. 27) \cup {29}) \subseteq 0 .. 32 - 1
    BY SMT DEF Either
  <2>2. \A i \in Range : Good(ToBits(AsicAclVidRange(i), Either(e, {}, (0 .. 11) \cup (16 .. 27) \cup {29})))
    BY <2>1, <1>10, BitsGood, VlanIndexAssumption, Zenon
  <2> QED
    BY <2>2, Puts1, CallGood, Zenon DEF FilterVidrange
<1>17. \A k \in FilterPortrange(e) : GoodCall(k)
  <2>1. Either(e, {}, (0 .. 31) \cup {33}) \subseteq 0 .. 34 - 1
    BY SMT DEF Either
  <2>2. \A i \in Range : Good(ToBits(AsicAclPortRange(i), Either(e, {}, (0 .. 31) \cup {33})))
    BY <2>1, <1>14, BitsGood, VlanIndexAssumption, Zenon
  <2> QED
    BY <2>2, Puts1, CallGood, Zenon DEF FilterPortrange
<1> QED
  BY <1>15, <1>16, <1>17

(* All calls of VlanSettings.                                              *)
LEMMA VlanCallsGood ==
  ASSUME NEW e \in Nat
  PROVE  \A k \in VlanCalls(e) : GoodCall(k)
<1> SUFFICES ASSUME NEW k \in VlanCalls(e)
             PROVE  GoodCall(k)
  BY Zenon
<1>1. k \in UNION {
        VlanPortIgrFilterEnable(e), VlanPortAcceptFrameType(e), VlanTagMode(e), VlanTransparent(e),
           VlanPortFid(e), VlanDriver(e), StpMstpState(e), SvlanServicePortAdd(e),
           SvlanServicePortDel(e), SvlanTpidEntry(e), SvlanPriorityRef(e), SvlanDmacVidsel(e),
           SvlanDriver(e), FilterIgrAclState(e), FilterIgrAclUnmatchAction(e), FilterIgrAclTemplate(e),
           FilterIgrAclFieldSel(e), FilterIprange(e), FilterVidrange(e), FilterPortrange(e),
           FilterDriver(e)}
  BY Zenon DEF VlanCalls
<1>2. \/ k \in VlanPortIgrFilterEnable(e)
      \/ k \in VlanPortAcceptFrameType(e)
      \/ k \in VlanTagMode(e)
      \/ k \in VlanTransparent(e)
      \/ k \in VlanPortFid(e)
      \/ k \in VlanDriver(e)
      \/ k \in StpMstpState(e)
      \/ k \in SvlanServicePortAdd(e)
      \/ k \in SvlanServicePortDel(e)
      \/ k \in SvlanTpidEntry(e)
      \/ k \in SvlanPriorityRef(e)
      \/ k \in SvlanDmacVidsel(e)
      \/ k \in SvlanDriver(e)
      \/ k \in FilterIgrAclState(e)
      \/ k \in FilterIgrAclUnmatchAction(e)
      \/ k \in FilterIgrAclTemplate(e)
      \/ k \in FilterIgrAclFieldSel(e)
      \/ k \in FilterIprange(e)
      \/ k \in FilterVidrange(e)
      \/ k \in FilterPortrange(e)
      \/ k \in FilterDriver(e)
  BY <1>1, SMT
<1> QED
  BY <1>2, VlanPortCallsGood, VlanDriverCallsGood, SvlanCallsGood, FilterCallsGood,
     FilterRangeCallsGood, Zenon

-----------------------------------------------------------------------------
(* The library.                                                            *)

(* Whatever arguments a function of the library accepts. *)
LEMMA LibraryGood ==
  ASSUME NEW k \in UNION {AllCalls(e) : e \in Nat}
  PROVE  GoodCall(k)
<1>1. PICK e \in Nat : k \in AllCalls(e)
  BY Zenon
<1>2. k \in QosCalls(e) \/ k \in PortCalls(e) \/ k \in TrapCalls(e) \/ k \in VlanCalls(e)
  BY <1>1, Zenon DEF AllCalls
<1> QED
  BY <1>2, QosCallsGood, PortCallsGood, TrapCallsGood, VlanCallsGood, Zenon

LEMMA GoodCallPuts ==
  ASSUME NEW k, GoodCall(k), NEW i \in DOMAIN k.puts
  PROVE  Good(k.puts[i])
<1>1. PICK S : k.puts \in Seq(S) /\ \A q \in S : Good(q)
  BY DEF GoodCall, GoodPuts
<1>2. k.puts[i] \in S
  <2> DEFINE puts == k.puts
  <2>1. puts \in Seq(S) /\ i \in DOMAIN puts
    BY <1>1
  <2> HIDE DEF puts
  <2>2. puts[i] \in S
    BY <2>1
  <2> QED
    BY <2>2 DEF puts
<1> QED
  BY <1>1, <1>2

(* What the calls of the library put, in all tables of arguments.          *)
LibraryPut == UNION {{k.puts[i] : i \in DOMAIN k.puts} : k \in UNION {AllCalls(e) : e \in Nat}}

(* The calls are those of the library, or others made of the same puts: a  *)
(* table of AllCalls takes all arguments of a call from one number, while  *)
(* here each put may come from a table of its own, so that every choice of *)
(* several arguments is among them, and every call that is cut short.      *)
OfLibrary == \A k \in Call : \A i \in DOMAIN k.puts : k.puts[i] \in LibraryPut

LEMMA LibraryPutsGood ==
  ASSUME NEW q \in LibraryPut
  PROVE  Good(q)
<1>1. PICK k \in UNION {AllCalls(e) : e \in Nat} : q \in {k.puts[i] : i \in DOMAIN k.puts}
  BY Zenon DEF LibraryPut
<1>2. PICK i \in DOMAIN k.puts : q = k.puts[i]
  BY <1>1, ZenonT(60)
<1> QED
  BY <1>2, LibraryGood, GoodCallPuts, Zenon

LEMMA LibraryFits ==
  ASSUME TypeOK, OfLibrary
  PROVE  AsksFit
<1> SUFFICES ASSUME NEW c \in Busy, NEW i \in DOMAIN at[c].call.puts, Abstract!Asks(at[c].call, i)
             PROVE  at[c].call.puts[i].code \subseteq Room(at[c].call.puts[i].setting)
  BY DEF AsksFit
<1>1. at[c].call \in Call
  BY DEF TypeOK, Busy, Place
<1>2. Good(at[c].call.puts[i])
  BY <1>1, LibraryPutsGood DEF OfLibrary
<1>3. at[c].call.puts[i].how # "keep"
  BY DEF Abstract!Asks
<1> QED
  BY <1>2, <1>3 DEF Good, Fits

LEMMA LibraryMapped ==
  ASSUME TypeOK, OfLibrary
  PROVE  AccessesKeepMap
<1> SUFFICES ASSUME NEW c \in Busy, Working(c)
             PROVE  KeepsMap(NowCell(c))
  BY DEF AccessesKeepMap
<1>1. at[c].call \in Call
  BY DEF TypeOK, Busy, Place
<1>2. at[c].put \in DOMAIN at[c].call.puts
  BY DEF Working
<1>3. Good(NowPut(c))
  BY <1>1, <1>2, LibraryPutsGood DEF OfLibrary, NowPut
<1>4. at[c].cell \in DOMAIN NowPut(c).setting
  BY DEF TypeOK
<1> QED
  BY <1>3, <1>4 DEF Good, Mapped, NowCell

(* The functions of rtk_api.c check what they are given before they come   *)
(* to the registers: whatever arguments they accept, no code they ask a    *)
(* setting to read is too long for the cells the driver has for it.        *)
THEOREM LibraryAsksFit ==
  ASSUME OfLibrary
  PROVE  Spec => []AsksFit
<1>1. TypeOK => AsksFit
  BY LibraryFits
<1> QED
  BY <1>1, TypesRight, PTL

(* The drivers' addresses, shifts and masks select what the register map   *)
(* declares: for every port, queue, meter, rule and so on, and every       *)
(* number a call is given, no access cuts a field of a register in two.    *)
THEOREM LibraryKeepsMap ==
  ASSUME OfLibrary
  PROVE  Spec => []AccessesKeepMap
<1>1. TypeOK => AccessesKeepMap
  BY LibraryMapped
<1> QED
  BY <1>1, TypesRight, PTL

(* The calls of the library are those of SettingsMap: SettingsImplemented  *)
(* with nothing left to suppose about the codes.                           *)
THEOREM LibraryImplemented ==
  ASSUME OfLibrary
  PROVE  Spec => ImplementsSettings
<1>1. Spec => []AsksFit
  BY LibraryAsksFit
<1> QED
  BY <1>1, SettingsImplemented, PTL

(* In particular the calls of any set of tables are the library's.          *)
LEMMA TablesOfLibrary ==
  ASSUME Call \subseteq UNION {AllCalls(e) : e \in Nat}
  PROVE  OfLibrary
<1> SUFFICES ASSUME NEW k \in Call, NEW i \in DOMAIN k.puts
             PROVE  k.puts[i] \in LibraryPut
  BY DEF OfLibrary
<1>1. k \in UNION {AllCalls(e) : e \in Nat}
  OBVIOUS
<1>2. k.puts[i] \in {k.puts[j] : j \in DOMAIN k.puts}
  OBVIOUS
<1> QED
  BY <1>1, <1>2, SMT DEF LibraryPut
=============================================================================
