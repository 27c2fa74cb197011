----------------------------- MODULE McfgProofs -----------------------------
(***************************************************************************)
(* Proofs about the configuration dictionary of ts_test/vns_config.c, for  *)
(* every set of keys, every hash of them and every length of keys, values  *)
(* and sections.                                                           *)
(*                                                                         *)
(* The inductive invariant is MInv: every chain holds entries of its own   *)
(* hash and no key twice (Sound), entry_num counts them, and the totals    *)
(* are at least the space of all keys and of all values (KeySum, ValSum).  *)
(* Each call is then a change of the set of entries: one is replaced by    *)
(* another of the same key, one is added whose key had none, or one goes.  *)
(* The search for a key without a '-' finds the entry of that key in that  *)
(* set (SearchFinds), wherever in its chain it is; from that the theorems  *)
(* on what plain keys resolve to and on the map follow from the sets.      *)
(*                                                                         *)
(* Chains that are moved, sums over sets and the order of the dump are     *)
(* defined by recursion.  What holds of them for every length and size is  *)
(* proved by induction said of a set of numbers (SetInduction), from the   *)
(* theorem that every non-empty set of naturals has a least element.       *)
(*                                                                         *)
(* The second part is about McfgText, the same dictionary as lines: a line *)
(* belongs to the key it names under the header in effect (InSection,      *)
(* Written), and TextInv says which lines are there and what was read.     *)
(***************************************************************************)
EXTENDS Mcfg, McfgText, TLAPS, FiniteSetTheorems, SequenceTheorems, WellFoundedInduction

(***************************************************************************)
(* Induction over the naturals, said of a set, and functions defined by    *)
(* recursion: a chain that is moved, a sum over a set.                     *)
(***************************************************************************)
LEMMA LeastOf ==
  ASSUME NEW T \in SUBSET Nat, T # {}
  PROVE  \E x \in T : \A y \in T : x <= y
<1> DEFINE R == OpToRel(<, Nat)
<1>1. IsWellFoundedOn(R, Nat)
  BY NatLessThanWellFounded
<1>2. \A x, y \in Nat : <<x, y>> \in R <=> x < y
  BY DEF OpToRel
<1> HIDE DEF R
<1>3. PICK x \in T : \A y \in T : ~(<<y, x>> \in R)
  BY <1>1, WFMin
<1>4. \A y \in T : x <= y
  <2> TAKE y \in T
  <2>1. x \in Nat /\ y \in Nat /\ ~(y < x)
    BY <1>2, <1>3
  <2> QED
    BY <2>1
<1> QED
  BY <1>4

LEMMA SetInduction ==
  ASSUME NEW S, 0 \in S, \A n \in Nat : n \in S => n + 1 \in S
  PROVE  Nat \subseteq S
<1> SUFFICES ASSUME Nat \ S # {} PROVE FALSE
  OBVIOUS
<1>1. PICK x \in Nat \ S : \A y \in Nat \ S : x <= y
  BY LeastOf
<1>2. x # 0
  BY <1>1
<1>3. x - 1 \in Nat
  BY <1>1, <1>2
<1>4. x - 1 \in S
  BY <1>1, <1>3
<1> QED
  BY <1>1, <1>3, <1>4

\* A step for each place, repeated: there is a function of all the results.
Steps(N, V) == [(1 .. N) \X V -> V]

LEMMA Iterates ==
  ASSUME NEW V, NEW v0 \in V, NEW N \in Nat, NEW step \in Steps(N, V)
  PROVE  \E g \in [0 .. N -> V] :
            g[0] = v0 /\ \A i \in 1 .. N : g[i] = step[<<i, g[i - 1]>>]
<1> DEFINE Good(n, g) ==
             /\ g \in [0 .. n -> V] /\ g[0] = v0
             /\ \A i \in 1 .. n : g[i] = step[<<i, g[i - 1]>>]
           T == {n \in Nat : n <= N => \E g : Good(n, g)}
<1>1. 0 \in T
  <2>1. Good(0, [i \in 0 .. 0 |-> v0])
    OBVIOUS
  <2> QED
    BY <2>1
<1>2. ASSUME NEW n \in Nat, n \in T PROVE n + 1 \in T
  <2> SUFFICES ASSUME n + 1 <= N PROVE \E g : Good(n + 1, g)
    OBVIOUS
  <2>1. PICK g : Good(n, g)
    BY <1>2
  <2> DEFINE h == [i \in 0 .. n + 1 |-> IF i = n + 1 THEN step[<<n + 1, g[n]>>] ELSE g[i]]
  <2>2. \A i \in 0 .. n : h[i] = g[i] /\ g[i] \in V
    BY <2>1
  <2>3. h[n + 1] = step[<<n + 1, h[n]>>] /\ h[n + 1] \in V
    <3>1. n \in 0 .. n /\ n + 1 \in 1 .. N
      OBVIOUS
    <3>2. <<n + 1, g[n]>> \in (1 .. N) \X V
      BY <3>1, <2>2
    <3>3. step[<<n + 1, g[n]>>] \in V
      BY <3>2 DEF Steps
    <3>4. h[n + 1] = step[<<n + 1, g[n]>>] /\ h[n] = g[n]
      BY <3>1, <2>2
    <3> QED
      BY <3>3, <3>4
  <2>4. h \in [0 .. n + 1 -> V]
    <3>1. \A i \in 0 .. n + 1 : h[i] \in V
      <4> HIDE DEF h
      <4> TAKE i \in 0 .. n + 1
      <4>1. i = n + 1 \/ i \in 0 .. n
        OBVIOUS
      <4> QED
        BY <4>1, <2>2, <2>3
    <3> QED
      BY <3>1
  <2> HIDE DEF h
  <2>5. \A i \in 1 .. n + 1 : h[i] = step[<<i, h[i - 1]>>]
    <3> TAKE i \in 1 .. n + 1
    <3>1. CASE i = n + 1
      BY <3>1, <2>3
    <3>2. CASE i # n + 1
      <4>1. i \in 1 .. n /\ i \in 0 .. n /\ i - 1 \in 0 .. n
        BY <3>2
      <4> QED
        BY <4>1, <2>1, <2>2
    <3> QED
      BY <3>1, <3>2
  <2>6. h[0] = v0
    BY <2>1, <2>2
  <2> QED
    BY <2>4, <2>5, <2>6
<1>3. N \in T
  <2> HIDE DEF T
  <2> QED
    BY <1>1, <1>2, SetInduction
<1> QED
  BY <1>3

(***************************************************************************)
(* Sums: SumFunctionOnSet chooses the elements of the set one by one; the  *)
(* sum does not depend on the order.                                       *)
(***************************************************************************)
Some(s) == CHOOSE x \in s : TRUE
IsSum(g, f, S) ==
    g = [s \in SUBSET S |-> IF s = {} THEN 0 ELSE f[Some(s)] + g[s \ {Some(s)}]]

LEMMA SumDef ==
  ASSUME NEW f, NEW S
  PROVE  SumFunctionOnSet(f, S) = (CHOOSE g : IsSum(g, f, S))[S]
  BY Zenon DEF SumFunctionOnSet, FoldFunctionOnSet, MapThenFoldSet, IsSum, Some

LEMMA SumExists ==
  ASSUME NEW D, NEW f \in [D -> Int], NEW S \in SUBSET D, IsFiniteSet(S)
  PROVE  \E g \in [SUBSET S -> Int] : IsSum(g, f, S)
<1> DEFINE Sub(n) == {s \in SUBSET S : Cardinality(s) <= n}
           Next1(g, s) == IF s = {} THEN 0 ELSE f[Some(s)] + g[s \ {Some(s)}]
           Good(n, g) == g \in [Sub(n) -> Int] /\ \A s \in Sub(n) : g[s] = Next1(g, s)
           T == {n \in Nat : \E g : Good(n, g)}
<1>1. \A s \in SUBSET S : IsFiniteSet(s) /\ Cardinality(s) \in Nat
  BY FS_Subset, FS_CardinalityType
<1>2. \A s \in SUBSET S : s # {} =>
        /\ Some(s) \in s /\ f[Some(s)] \in Int
        /\ s \ {Some(s)} \in SUBSET S
        /\ Cardinality(s \ {Some(s)}) = Cardinality(s) - 1
  BY <1>1, FS_RemoveElement DEF Some
<1>3. \A s \in SUBSET S : Cardinality(s) = 0 <=> s = {}
  BY <1>1, FS_EmptySet
<1>4. 0 \in T
  <2>1. Sub(0) = {{}}
    BY <1>1, <1>3
  <2>2. Good(0, [s \in Sub(0) |-> 0])
    BY <2>1
  <2> QED
    BY <2>2
<1>5. ASSUME NEW n \in Nat, n \in T PROVE n + 1 \in T
  <2>1. PICK g : Good(n, g)
    BY <1>5
  <2> DEFINE h == [s \in Sub(n + 1) |-> Next1(g, s)]
  <2>2. \A s \in Sub(n) : s \in Sub(n + 1) /\ h[s] = g[s] /\ g[s] \in Int
    <3> TAKE s \in Sub(n)
    <3>1. s \in Sub(n + 1)
      BY <1>1
    <3> QED
      BY <3>1, <2>1
  <2>3. \A s \in Sub(n + 1) : s # {} => s \ {Some(s)} \in Sub(n)
    BY <1>1, <1>2
  <2>4. \A s \in Sub(n + 1) : h[s] = Next1(g, s)
    OBVIOUS
  <2>5. h \in [Sub(n + 1) -> Int]
    <3> SUFFICES ASSUME NEW s \in Sub(n + 1) PROVE Next1(g, s) \in Int
      OBVIOUS
    <3>1. CASE s = {}
      BY <3>1
    <3>2. CASE s # {}
      <4>1. f[Some(s)] \in Int /\ g[s \ {Some(s)}] \in Int
        BY <3>2, <1>2, <2>2, <2>3
      <4> QED
        BY <3>2, <4>1
    <3> QED
      BY <3>1, <3>2
  <2> HIDE DEF h
  <2>6. \A s \in Sub(n + 1) : h[s] = Next1(h, s)
    BY <2>2, <2>3, <2>4
  <2>7. Good(n + 1, h)
    BY <2>5, <2>6
  <2> HIDE DEF Good
  <2> QED
    BY <2>7
<1>6. Cardinality(S) \in T
  <2> HIDE DEF T
  <2>1. Nat \subseteq T
    BY <1>4, <1>5, SetInduction
  <2> QED
    BY <2>1, <1>1
<1>7. Sub(Cardinality(S)) = SUBSET S
  BY <1>1, FS_Subset
<1>8. PICK g : Good(Cardinality(S), g)
  BY <1>6
<1> QED
  BY <1>7, <1>8 DEF IsSum

LEMMA SumUnique ==
  ASSUME NEW f, NEW S, IsFiniteSet(S), NEW T \in SUBSET S,
         NEW g, NEW h, IsSum(g, f, S), IsSum(h, f, T)
  PROVE  g[T] = h[T]
<1> DEFINE Bad == {Cardinality(s) : s \in {t \in SUBSET T : g[t] # h[t]}}
<1>1. \A s \in SUBSET T : IsFiniteSet(s) /\ Cardinality(s) \in Nat /\ s \in SUBSET S
  BY FS_Subset, FS_CardinalityType
<1> SUFFICES ASSUME Bad # {} PROVE FALSE
  OBVIOUS
<1>2. Bad \in SUBSET Nat
  BY <1>1
<1>3. PICK n \in Bad : \A m \in Bad : n <= m
  <2> HIDE DEF Bad
  <2> QED
    BY <1>2, LeastOf
<1>4. PICK s \in SUBSET T : g[s] # h[s] /\ Cardinality(s) = n
  BY <1>3
<1>5. /\ g[s] = IF s = {} THEN 0 ELSE f[Some(s)] + g[s \ {Some(s)}]
      /\ h[s] = IF s = {} THEN 0 ELSE f[Some(s)] + h[s \ {Some(s)}]
  BY <1>1, Zenon DEF IsSum
<1>6. s # {}
  BY <1>4, <1>5
<1>7. /\ s \ {Some(s)} \in SUBSET T
      /\ Cardinality(s \ {Some(s)}) \in Nat /\ Cardinality(s \ {Some(s)}) < n
  <2>1. Some(s) \in s
    BY <1>6 DEF Some
  <2> QED
    BY <2>1, <1>1, <1>4, FS_RemoveElement
<1>8. g[s \ {Some(s)}] = h[s \ {Some(s)}]
  <2>1. ~(n <= Cardinality(s \ {Some(s)}))
    BY <1>2, <1>3, <1>7
  <2> QED
    BY <1>3, <1>7, <2>1
<1> QED
  BY <1>4, <1>5, <1>8

LEMMA SumRec ==
  ASSUME NEW D, NEW f \in [D -> Int], NEW S \in SUBSET D, IsFiniteSet(S)
  PROVE  /\ SumFunctionOnSet(f, S) \in Int
         /\ S = {} => SumFunctionOnSet(f, S) = 0
         /\ S # {} => /\ Some(S) \in S
                      /\ SumFunctionOnSet(f, S)
                           = f[Some(S)] + SumFunctionOnSet(f, S \ {Some(S)})
<1> DEFINE R == S \ {Some(S)}
           g == CHOOSE p : IsSum(p, f, S)
           h == CHOOSE p : IsSum(p, f, R)
<1>1. R \in SUBSET D /\ R \in SUBSET S /\ IsFiniteSet(R)
  BY FS_Subset
<1>2. IsSum(g, f, S)
  BY SumExists
<1>3. IsSum(h, f, R)
  BY <1>1, SumExists
<1>4. SumFunctionOnSet(f, S) = g[S] /\ SumFunctionOnSet(f, R) = h[R]
  BY SumDef
<1>5. g[S] \in Int
  <2>1. PICK p \in [SUBSET S -> Int] : IsSum(p, f, S)
    BY SumExists
  <2>2. p[S] = g[S]
    BY <1>2, <2>1, SumUnique
  <2> QED
    BY <2>1, <2>2
<1>6. g[S] = IF S = {} THEN 0 ELSE f[Some(S)] + g[R]
  BY <1>2, Zenon DEF IsSum
<1>7. g[R] = h[R]
  <2> HIDE DEF g, h, R
  <2> QED
    BY <1>1, <1>2, <1>3, SumUnique
<1>8. S # {} => Some(S) \in S
  BY DEF Some
<1> QED
  BY <1>4, <1>5, <1>6, <1>7, <1>8

\* The sum with one element more.
LEMMA SumAdd ==
  ASSUME NEW D, NEW f \in [D -> Int], NEW S \in SUBSET D, IsFiniteSet(S), NEW x \in D \ S
  PROVE  SumFunctionOnSet(f, S \cup {x}) = f[x] + SumFunctionOnSet(f, S)
<1> DEFINE Sum(s) == SumFunctionOnSet(f, s)
           T == {n \in Nat : \A s \in SUBSET S : Cardinality(s) = n =>
                   \A y \in D \ s : Sum(s \cup {y}) = f[y] + Sum(s)}
<1>0. \A s \in SUBSET S : IsFiniteSet(s) /\ Cardinality(s) \in Nat /\ s \in SUBSET D
  BY FS_Subset, FS_CardinalityType
<1>1. ASSUME NEW s \in SUBSET S, NEW y \in D \ s
      PROVE  /\ s \cup {y} \in SUBSET D /\ IsFiniteSet(s \cup {y})
             /\ Some(s \cup {y}) \in s \cup {y}
             /\ Sum(s \cup {y}) = f[Some(s \cup {y})] + Sum((s \cup {y}) \ {Some(s \cup {y})})
             /\ Sum(s) \in Int /\ f[y] \in Int
  <2>1. s \cup {y} \in SUBSET D /\ IsFiniteSet(s \cup {y}) /\ s \cup {y} # {}
    BY <1>0, FS_AddElement
  <2>2. Sum(s) \in Int /\ f[y] \in Int
    BY <1>0, SumRec
  <2> DEFINE u == s \cup {y}
  <2>3. u \in SUBSET D /\ IsFiniteSet(u) /\ u # {}
    BY <2>1
  <2> HIDE DEF u
  <2>4. Some(u) \in u /\ Sum(u) = f[Some(u)] + Sum(u \ {Some(u)})
    BY <2>3, SumRec
  <2> QED
    BY <2>1, <2>2, <2>4 DEF u
<1>2. ASSUME NEW s \in SUBSET S, NEW y \in D \ s, Some(s \cup {y}) = y
      PROVE  Sum(s \cup {y}) = f[y] + Sum(s)
  <2>1. (s \cup {y}) \ {y} = s
    OBVIOUS
  <2> QED
    BY <1>1, <1>2, <2>1
<1> HIDE DEF Sum
<1>3. 0 \in T
  <2> SUFFICES ASSUME NEW s \in SUBSET S, Cardinality(s) = 0, NEW y \in D \ s
               PROVE  Sum(s \cup {y}) = f[y] + Sum(s)
    OBVIOUS
  <2>1. s = {}
    BY <1>0, FS_EmptySet
  <2>2. Some(s \cup {y}) = y
    BY <2>1, <1>1
  <2> QED
    BY <1>2, <2>2
<1>4. ASSUME NEW n \in Nat, n \in T PROVE n + 1 \in T
  <2> SUFFICES ASSUME NEW s \in SUBSET S, Cardinality(s) = n + 1, NEW y \in D \ s
               PROVE  Sum(s \cup {y}) = f[y] + Sum(s)
    OBVIOUS
  <2>1. CASE Some(s \cup {y}) = y
    BY <1>2, <2>1
  <2>2. CASE Some(s \cup {y}) # y
    <3>1. PICK z \in s : z = Some(s \cup {y})
      BY <2>2, <1>1
    <3> DEFINE t == s \ {z}
    <3>2. /\ t \in SUBSET S /\ Cardinality(t) = n
          /\ z \in D \ t /\ y \in D \ t
      <4>1. IsFiniteSet(s) /\ z \in s
        BY <1>0
      <4>2. Cardinality(t) = Cardinality(s) - 1
        BY <4>1, FS_RemoveElement
      <4> QED
        BY <4>2
    <3>3. t \cup {z} = s /\ (s \cup {y}) \ {z} = t \cup {y}
      BY <2>2, <3>1
    <3>4. Sum(t \cup {z}) = f[z] + Sum(t) /\ Sum(t \cup {y}) = f[y] + Sum(t)
      BY <3>2, <1>4
    <3>5. Sum(s \cup {y}) = f[z] + Sum(t \cup {y})
      BY <3>1, <3>3, <1>1
    <3>6. f[z] \in Int /\ f[y] \in Int /\ Sum(t) \in Int
      BY <3>2, <1>1
    <3> HIDE DEF t
    <3>7. Sum(s) = f[z] + Sum(t) /\ Sum(s \cup {y}) = f[z] + (f[y] + Sum(t))
      BY <3>3, <3>4, <3>5
    <3> QED
      BY <3>6, <3>7
  <2> QED
    BY <2>1, <2>2
<1>5. Nat \subseteq T
  <2> HIDE DEF T
  <2> QED
    BY <1>3, <1>4, SetInduction
<1> QED
  BY <1>0, <1>5, FS_CardinalityType DEF Sum

LEMMA SumLess ==
  ASSUME NEW D, NEW f \in [D -> Int], NEW S \in SUBSET D, IsFiniteSet(S), NEW x \in S
  PROVE  SumFunctionOnSet(f, S \ {x}) = SumFunctionOnSet(f, S) - f[x]
<1> DEFINE R == S \ {x}
<1>1. R \in SUBSET D /\ IsFiniteSet(R) /\ x \in D \ R /\ R \cup {x} = S
  BY FS_Subset
<1> HIDE DEF R
<1>2. SumFunctionOnSet(f, S) = f[x] + SumFunctionOnSet(f, R)
  BY <1>1, SumAdd
<1>3. SumFunctionOnSet(f, R) \in Int /\ f[x] \in Int
  BY <1>1, SumRec
<1> QED
  BY <1>2, <1>3 DEF R

\* A sum of larger numbers is larger.
LEMMA SumLeq ==
  ASSUME NEW S, IsFiniteSet(S), NEW D, S \in SUBSET D, NEW f \in [D -> Int],
         NEW E, S \in SUBSET E, NEW g \in [E -> Int], \A x \in S : f[x] <= g[x]
  PROVE  SumFunctionOnSet(f, S) <= SumFunctionOnSet(g, S)
<1> DEFINE Sf(s) == SumFunctionOnSet(f, s)
           Sg(s) == SumFunctionOnSet(g, s)
           T == {n \in Nat : \A s \in SUBSET S : Cardinality(s) = n => Sf(s) <= Sg(s)}
<1>1. ASSUME NEW s \in SUBSET S
      PROVE  /\ IsFiniteSet(s) /\ Cardinality(s) \in Nat /\ s \in SUBSET D /\ s \in SUBSET E
             /\ Sf(s) \in Int /\ Sg(s) \in Int
             /\ s = {} => Sf(s) = 0 /\ Sg(s) = 0
             /\ s # {} => /\ Some(s) \in s
                          /\ Sf(s) = f[Some(s)] + Sf(s \ {Some(s)})
                          /\ Sg(s) = g[Some(s)] + Sg(s \ {Some(s)})
  <2>1. IsFiniteSet(s) /\ Cardinality(s) \in Nat /\ s \in SUBSET D /\ s \in SUBSET E
    BY FS_Subset, FS_CardinalityType
  <2>4. s \in SUBSET D /\ s \in SUBSET E /\ IsFiniteSet(s)
    BY <2>1
  <2>2. /\ Sf(s) \in Int
        /\ s = {} => Sf(s) = 0
        /\ s # {} => Some(s) \in s /\ Sf(s) = f[Some(s)] + Sf(s \ {Some(s)})
    BY <2>4, SumRec
  <2>3. /\ Sg(s) \in Int
        /\ s = {} => Sg(s) = 0
        /\ s # {} => Some(s) \in s /\ Sg(s) = g[Some(s)] + Sg(s \ {Some(s)})
    BY <2>4, SumRec
  <2> HIDE DEF Sf, Sg
  <2> QED
    BY <2>1, <2>2, <2>3
<1> HIDE DEF Sf, Sg
<1>2. 0 \in T
  <2>1. \A s \in SUBSET S : Cardinality(s) = 0 => s = {}
    BY <1>1, FS_EmptySet
  <2> SUFFICES ASSUME NEW s \in SUBSET S, Cardinality(s) = 0 PROVE Sf(s) <= Sg(s)
    OBVIOUS
  <2>2. Sf(s) = 0 /\ Sg(s) = 0
    BY <2>1, <1>1
  <2> QED
    BY <2>2
<1>3. ASSUME NEW n \in Nat, n \in T PROVE n + 1 \in T
  <2> SUFFICES ASSUME NEW s \in SUBSET S, Cardinality(s) = n + 1 PROVE Sf(s) <= Sg(s)
    OBVIOUS
  <2>1. s # {}
    BY FS_EmptySet
  <2>6. PICK z \in s : z = Some(s)
    BY <2>1, <1>1
  <2> DEFINE t == s \ {z}
  <2>2. Sf(s) = f[z] + Sf(t) /\ Sg(s) = g[z] + Sg(t)
    BY <2>1, <2>6, <1>1
  <2>3. t \in SUBSET S /\ Cardinality(t) = n
    <3>1. IsFiniteSet(s)
      BY <1>1
    <3>2. Cardinality(t) = Cardinality(s) - 1
      BY <3>1, FS_RemoveElement
    <3> QED
      BY <3>2
  <2> HIDE DEF t
  <2>4. Sf(t) <= Sg(t) /\ Sf(t) \in Int /\ Sg(t) \in Int
    BY <2>3, <1>1, <1>3
  <2>5. f[z] <= g[z] /\ f[z] \in Int /\ g[z] \in Int
    OBVIOUS
  <2> QED
    BY <2>2, <2>4, <2>5
<1>4. Nat \subseteq T
  <2> HIDE DEF T
  <2> QED
    BY <1>2, <1>3, SetInduction
<1> QED
  BY <1>1, <1>4 DEF Sf, Sg

LEMMA SumNat ==
  ASSUME NEW D, NEW f \in [D -> Nat], NEW S \in SUBSET D, IsFiniteSet(S)
  PROVE  SumFunctionOnSet(f, S) \in Nat
<1> DEFINE Sum(s) == SumFunctionOnSet(f, s)
           T == {n \in Nat : \A s \in SUBSET S : Cardinality(s) = n => Sum(s) \in Nat}
<1>1. ASSUME NEW s \in SUBSET S
      PROVE  /\ IsFiniteSet(s) /\ Cardinality(s) \in Nat
             /\ s = {} => Sum(s) = 0
             /\ s # {} => \E z \in s : Sum(s) = f[z] + Sum(s \ {z})
  <2>1. IsFiniteSet(s) /\ s \in SUBSET D /\ f \in [D -> Int]
    BY FS_Subset
  <2>2. /\ s = {} => Sum(s) = 0
        /\ s # {} => Some(s) \in s /\ Sum(s) = f[Some(s)] + Sum(s \ {Some(s)})
    <3>1. s \in SUBSET D /\ IsFiniteSet(s)
      BY <2>1
    <3>2. PICK h \in [D -> Int] : h = f
      BY <2>1
    <3>3. /\ s = {} => SumFunctionOnSet(h, s) = 0
          /\ s # {} => /\ Some(s) \in s
                       /\ SumFunctionOnSet(h, s)
                            = h[Some(s)] + SumFunctionOnSet(h, s \ {Some(s)})
      BY <3>1, SumRec
    <3> QED
      BY <3>2, <3>3
  <2>3. Cardinality(s) \in Nat
    BY <2>1, FS_CardinalityType
  <2> HIDE DEF Sum
  <2> QED
    BY <2>1, <2>2, <2>3
<1> HIDE DEF Sum
<1>2. 0 \in T
  <2>1. \A s \in SUBSET S : Cardinality(s) = 0 => s = {}
    BY <1>1, FS_EmptySet
  <2> SUFFICES ASSUME NEW s \in SUBSET S, Cardinality(s) = 0 PROVE Sum(s) \in Nat
    OBVIOUS
  <2>2. Sum(s) = 0
    BY <2>1, <1>1
  <2> QED
    BY <2>2
<1>3. ASSUME NEW n \in Nat, n \in T PROVE n + 1 \in T
  <2> SUFFICES ASSUME NEW s \in SUBSET S, Cardinality(s) = n + 1 PROVE Sum(s) \in Nat
    OBVIOUS
  <2>1. s # {}
    BY FS_EmptySet
  <2>2. PICK z \in s : Sum(s) = f[z] + Sum(s \ {z})
    BY <2>1, <1>1
  <2> DEFINE t == s \ {z}
  <2>3. t \in SUBSET S /\ Cardinality(t) = n
    <3>1. IsFiniteSet(s)
      BY <1>1
    <3>2. Cardinality(t) = Cardinality(s) - 1
      BY <3>1, FS_RemoveElement
    <3> QED
      BY <3>2
  <2>4. Sum(t) \in Nat /\ f[z] \in Nat
    BY <2>3, <1>3
  <2> HIDE DEF t
  <2>5. Sum(s) = f[z] + Sum(t)
    BY <2>2 DEF t
  <2> QED
    BY <2>4, <2>5
<1>4. Nat \subseteq T
  <2> HIDE DEF T
  <2> QED
    BY <1>2, <1>3, SetInduction
<1> QED
  BY <1>1, <1>4 DEF Sum

(***************************************************************************)
(* The chain of a hash in a table of twice the size lies over its chain.   *)
(***************************************************************************)
LEMMA ModRest ==
  ASSUME NEW h \in Nat, NEW n \in Nat \ {0}, NEW q \in Nat, NEW r \in 0 .. n - 1, h = n * q + r
  PROVE  h % n = r
  OBVIOUS

LEMMA DivMod == ASSUME NEW h \in Nat, NEW n \in Nat \ {0}
  PROVE  \E q \in Nat : h = n * q + (h % n)
<1>1. h % n = h - n * (h \div n)
  OBVIOUS
<1>2. h \div n \in Nat
  OBVIOUS
<1>3. PICK q \in Nat : q = h \div n
  BY <1>2
<1>4. h % n = h - n * q
  BY <1>1, <1>3
<1>5. n * q \in Int
  OBVIOUS
<1>6. PICK r \in Int : r = h - n * q
  BY <1>5
<1>7. h = n * q + r
  BY <1>5, <1>6
<1> QED
  BY <1>4, <1>6, <1>7

LEMMA ModDouble ==
  ASSUME NEW h \in Nat, NEW n \in Nat \ {0}
  PROVE  /\ h % n \in 0 .. n - 1 /\ h % (2 * n) \in 0 .. 2 * n - 1
         /\ (h % (2 * n)) % n = h % n
<1>1. PICK N \in Nat \ {0} : N = 2 * n
  OBVIOUS
<1>2. h % N \in 0 .. N - 1 /\ h % n \in 0 .. n - 1
  OBVIOUS
<1>3. PICK r \in 0 .. N - 1 : r = h % N
  BY <1>2
<1>4. PICK q \in Nat : h = N * q + r
  BY <1>3, DivMod
<1>5. r \in Nat /\ r % n \in 0 .. n - 1
  OBVIOUS
<1>6. PICK t \in 0 .. n - 1 : t = r % n
  BY <1>5
<1>7. PICK s \in Nat : r = n * s + t
  BY <1>5, <1>6, DivMod
<1>8. PICK m \in Nat : m = 2 * q + s
  OBVIOUS
<1>9. h = n * m + t
  <2>1. N * q = n * (2 * q) /\ n * (2 * q) \in Int /\ n * s \in Int
    BY <1>1
  <2>2. n * m = n * (2 * q) + n * s
    BY <1>8
  <2> QED
    BY <1>4, <1>7, <2>1, <2>2
<1>10. h % n = t
  BY <1>9, ModRest
<1> QED
  BY <1>1, <1>2, <1>3, <1>6, <1>10

-----------------------------------------------------------------------------
(***************************************************************************)
(* One chain: its entries belong to it, and their keys differ.             *)
(***************************************************************************)
ChainOK(q, c, n) ==
    /\ q \in Seq(Entry)
    /\ \A i \in 1 .. Len(q) : Hash[q[i].key] % n = c
    /\ \A i, j \in 1 .. Len(q) : q[i].key = q[j].key => i = j

Elems(q) == {q[i] : i \in 1 .. Len(q)}

LEMMA EmptyChain ==
  ASSUME NEW c, NEW n
  PROVE  ChainOK(<<>>, c, n) /\ Elems(<<>>) = {}
  BY DEF ChainOK, Elems

LEMMA PushFacts ==
  ASSUME NEW S, NEW q \in Seq(S), NEW e \in S
  PROVE  /\ <<e>> \o q \in Seq(S) /\ Len(<<e>> \o q) = Len(q) + 1
         /\ (<<e>> \o q)[1] = e
         /\ \A i \in 2 .. Len(q) + 1 : (<<e>> \o q)[i] = q[i - 1]
  OBVIOUS

LEMMA PushChain ==
  ASSUME NEW c, NEW n, NEW q, ChainOK(q, c, n), NEW e \in Entry, Hash[e.key] % n = c,
         \A i \in 1 .. Len(q) : q[i].key # e.key
  PROVE  ChainOK(<<e>> \o q, c, n) /\ Elems(<<e>> \o q) = Elems(q) \cup {e}
<1> DEFINE m == <<e>> \o q
<1>1. q \in Seq(Entry) /\ Len(q) \in Nat
  BY DEF ChainOK
<1>2. /\ m \in Seq(Entry) /\ Len(m) = Len(q) + 1
      /\ m[1] = e /\ \A i \in 2 .. Len(q) + 1 : m[i] = q[i - 1]
  BY <1>1, PushFacts
<1> HIDE DEF m
<1>3. \A i \in 1 .. Len(m) :
        \/ i = 1 /\ m[i] = e
        \/ i - 1 \in 1 .. Len(q) /\ m[i] = q[i - 1] /\ i = (i - 1) + 1
  <2> TAKE i \in 1 .. Len(m)
  <2>1. CASE i = 1
    BY <2>1, <1>2
  <2>2. CASE i # 1
    <3>1. i \in 2 .. Len(q) + 1 /\ i - 1 \in 1 .. Len(q) /\ i = (i - 1) + 1
      BY <2>2, <1>1, <1>2
    <3> QED
      BY <3>1, <1>2
  <2> QED
    BY <2>1, <2>2
<1>4. \A i \in 1 .. Len(m) : Hash[m[i].key] % n = c
  <2> TAKE i \in 1 .. Len(m)
  <2>1. m[i] = e \/ \E j \in 1 .. Len(q) : m[i] = q[j]
    BY <1>3
  <2> QED
    BY <2>1 DEF ChainOK
<1>5. ASSUME NEW i \in 1 .. Len(m), NEW j \in 1 .. Len(m), m[i].key = m[j].key
      PROVE  i = j
  <2>3. \A a \in 1 .. Len(m) : a # 1 => m[a].key # m[1].key
    <3> TAKE a \in 1 .. Len(m)
    <3>1. a # 1 => a - 1 \in 1 .. Len(q) /\ m[a] = q[a - 1]
      BY <1>3
    <3> QED
      BY <1>2, <3>1
  <2>1. CASE i = 1 \/ j = 1
    BY <2>1, <2>3, <1>5
  <2>2. CASE i # 1 /\ j # 1
    <3>1. /\ i - 1 \in 1 .. Len(q) /\ m[i] = q[i - 1]
          /\ j - 1 \in 1 .. Len(q) /\ m[j] = q[j - 1]
      BY <2>2, <1>3
    <3>2. i - 1 = j - 1
      BY <3>1, <1>5 DEF ChainOK
    <3> QED
      BY <3>2
  <2> QED
    BY <2>1, <2>2
<1>6. Elems(m) = Elems(q) \cup {e}
  <2>1. \A x \in Elems(m) : x \in Elems(q) \cup {e}
    BY <1>3 DEF Elems
  <2>2. e \in Elems(m)
    <3>1. 1 \in 1 .. Len(m)
      BY <1>1, <1>2
    <3> QED
      BY <3>1, <1>2 DEF Elems
  <2>3. \A i \in 1 .. Len(q) : q[i] \in Elems(m)
    <3> TAKE i \in 1 .. Len(q)
    <3>1. i + 1 \in 2 .. Len(q) + 1 /\ i + 1 \in 1 .. Len(m) /\ (i + 1) - 1 = i
      BY <1>1, <1>2
    <3>2. m[i + 1] = q[i]
      BY <3>1, <1>2
    <3> QED
      BY <3>1, <3>2 DEF Elems
  <2> QED
    BY <2>1, <2>2, <2>3 DEF Elems
<1>7. ChainOK(m, c, n)
  BY <1>2, <1>4, <1>5 DEF ChainOK
<1> QED
  BY <1>6, <1>7 DEF m

LEMMA SetChain ==
  ASSUME NEW c, NEW n, NEW q, ChainOK(q, c, n), NEW i \in 1 .. Len(q), NEW y \in Entry,
         y.key = q[i].key
  PROVE  /\ ChainOK([q EXCEPT ![i] = y], c, n)
         /\ Elems([q EXCEPT ![i] = y]) = (Elems(q) \ {q[i]}) \cup {y}
<1> DEFINE m == [q EXCEPT ![i] = y]
<1>1. q \in Seq(Entry) /\ Len(q) \in Nat /\ DOMAIN q = 1 .. Len(q)
  BY DEF ChainOK
<1>2. /\ m \in Seq(Entry) /\ Len(m) = Len(q)
      /\ \A j \in 1 .. Len(q) : m[j] = IF j = i THEN y ELSE q[j]
  BY <1>1
<1> HIDE DEF m
<1>3. \A j \in 1 .. Len(q) : m[j].key = q[j].key
  BY <1>2
<1>4. ChainOK(m, c, n)
  BY <1>2, <1>3 DEF ChainOK
<1>5. \A j \in 1 .. Len(q) : q[j] = q[i] => j = i
  BY DEF ChainOK
<1>6. Elems(m) = (Elems(q) \ {q[i]}) \cup {y}
  BY <1>2, <1>5 DEF Elems
<1> QED
  BY <1>4, <1>6 DEF m

LEMMA RemoveFacts ==
  ASSUME NEW S, NEW q \in Seq(S), NEW i \in 1 .. Len(q)
  PROVE  /\ RemoveAt(q, i) \in Seq(S) /\ Len(RemoveAt(q, i)) = Len(q) - 1
         /\ \A j \in 1 .. Len(q) - 1 : RemoveAt(q, i)[j] = IF j < i THEN q[j] ELSE q[j + 1]
<1> DEFINE a == SubSeq(q, 1, i - 1)
           b == SubSeq(q, i + 1, Len(q))
<1>1. a \in Seq(S) /\ Len(a) = i - 1 /\ \A j \in 1 .. i - 1 : a[j] = q[j]
  OBVIOUS
<1>2. b \in Seq(S) /\ Len(b) = Len(q) - i /\ \A j \in 1 .. Len(q) - i : b[j] = q[i + j]
  OBVIOUS
<1>3. RemoveAt(q, i) = a \o b
  BY DEF RemoveAt
<1> HIDE DEF a, b
<1>4. /\ a \o b \in Seq(S) /\ Len(a \o b) = Len(a) + Len(b)
      /\ \A j \in 1 .. Len(a) + Len(b) : (a \o b)[j] = IF j <= Len(a) THEN a[j] ELSE b[j - Len(a)]
  <2>1. a \in Seq(S) /\ b \in Seq(S)
    BY <1>1, <1>2
  <2> QED
    BY <2>1, ConcatProperties
<1> DEFINE m == a \o b
<1> HIDE DEF m
<1>5. /\ m \in Seq(S) /\ Len(m) = Len(q) - 1
      /\ \A j \in 1 .. Len(q) - 1 : m[j] = IF j < i THEN a[j] ELSE b[j - (i - 1)]
  BY <1>1, <1>2, <1>4 DEF m
<1>6. \A j \in 1 .. Len(q) - 1 : m[j] = IF j < i THEN q[j] ELSE q[j + 1]
  <2> TAKE j \in 1 .. Len(q) - 1
  <2>1. CASE j < i
    BY <2>1, <1>1, <1>5
  <2>2. CASE ~(j < i)
    <3>1. j - (i - 1) \in 1 .. Len(q) - i /\ i + (j - (i - 1)) = j + 1
      BY <2>2
    <3> QED
      BY <3>1, <2>2, <1>2, <1>5
  <2> QED
    BY <2>1, <2>2
<1> QED
  BY <1>3, <1>5, <1>6 DEF m

LEMMA RemoveChain ==
  ASSUME NEW c, NEW n, NEW q, ChainOK(q, c, n), NEW i \in 1 .. Len(q)
  PROVE  /\ ChainOK(RemoveAt(q, i), c, n)
         /\ Elems(RemoveAt(q, i)) = Elems(q) \ {q[i]}
<1> DEFINE m == RemoveAt(q, i)
<1>1. q \in Seq(Entry) /\ Len(q) \in Nat \ {0}
  BY DEF ChainOK
<1>2. /\ m \in Seq(Entry) /\ Len(m) = Len(q) - 1
      /\ \A j \in 1 .. Len(q) - 1 : m[j] = IF j < i THEN q[j] ELSE q[j + 1]
  BY <1>1, RemoveFacts
<1> HIDE DEF m
<1>3. ASSUME NEW j \in 1 .. Len(m)
      PROVE  \E a \in 1 .. Len(q) : m[j] = q[a] /\ a = IF j < i THEN j ELSE j + 1
  BY <1>1, <1>2
<1>4. \A j \in 1 .. Len(m) : Hash[m[j].key] % n = c
  BY <1>3 DEF ChainOK
<1>5. ASSUME NEW j \in 1 .. Len(m), NEW k \in 1 .. Len(m), m[j].key = m[k].key
      PROVE  j = k
  <2>1. PICK a \in 1 .. Len(q) : m[j] = q[a] /\ a = IF j < i THEN j ELSE j + 1
    BY <1>3
  <2>2. PICK b \in 1 .. Len(q) : m[k] = q[b] /\ b = IF k < i THEN k ELSE k + 1
    BY <1>3
  <2>3. a = b
    BY <2>1, <2>2, <1>5 DEF ChainOK
  <2> QED
    BY <2>1, <2>2, <2>3
<1>6. \A j \in 1 .. Len(q) : q[j] = q[i] => j = i
  BY DEF ChainOK
<1>7. Elems(m) = Elems(q) \ {q[i]}
  <2>1. \A x \in Elems(m) : x \in Elems(q) \ {q[i]}
    <3> SUFFICES ASSUME NEW j \in 1 .. Len(m) PROVE m[j] \in Elems(q) \ {q[i]}
      BY DEF Elems
    <3>1. PICK a \in 1 .. Len(q) : m[j] = q[a] /\ a # i
      BY <1>3
    <3> QED
      BY <3>1, <1>6 DEF Elems
  <2>2. ASSUME NEW j \in 1 .. Len(q), j # i PROVE q[j] \in Elems(m)
    <3>1. CASE j < i
      <4>1. j \in 1 .. Len(m) /\ m[j] = q[j]
        BY <3>1, <1>1, <1>2
      <4> QED
        BY <4>1 DEF Elems
    <3>2. CASE j > i
      <4>1. j - 1 \in 1 .. Len(q) - 1 /\ ~(j - 1 < i) /\ (j - 1) + 1 = j
        BY <3>2, <1>1
      <4>2. j - 1 \in 1 .. Len(m) /\ m[j - 1] = q[j]
        BY <4>1, <1>2
      <4> QED
        BY <4>2 DEF Elems
    <3> QED
      BY <3>1, <3>2, <2>2
  <2> QED
    BY <2>1, <2>2 DEF Elems
<1>8. ChainOK(m, c, n)
  BY <1>2, <1>4, <1>5 DEF ChainOK
<1> QED
  BY <1>7, <1>8 DEF m

\* What is moved to a new chain: the entries that belong there.
IsMoved(g, chain, c, n) ==
    g = [i \in 0 .. Len(chain) |->
            IF i = 0 THEN <<>>
            ELSE IF Hash[chain[i].key] % n = c THEN <<chain[i]>> \o g[i - 1]
            ELSE g[i - 1]]

LEMMA MovedDef ==
  ASSUME NEW chain, NEW c, NEW n
  PROVE  Moved(chain, c, n) = (CHOOSE g : IsMoved(g, chain, c, n))[Len(chain)]
  BY Zenon DEF Moved, IsMoved

LEMMA MovedExists ==
  ASSUME NEW chain \in Seq(Entry), NEW c, NEW n
  PROVE  \E g : IsMoved(g, chain, c, n)
<1> DEFINE N == Len(chain)
           V == Seq(Entry)
           Step(i, q) == IF Hash[chain[i].key] % n = c THEN <<chain[i]>> \o q ELSE q
           step == [p \in (1 .. N) \X V |-> Step(p[1], p[2])]
<1>1. N \in Nat /\ <<>> \in V
  OBVIOUS
<1>2. \A i \in 1 .. N, q \in V : Step(i, q) \in V
  <2> TAKE i \in 1 .. N, q \in V
  <2>1. chain[i] \in Entry
    OBVIOUS
  <2>2. <<chain[i]>> \o q \in V
    BY <2>1, PushFacts
  <2> QED
    BY <2>2
<1> HIDE DEF Step
<1>3. step \in Steps(N, V)
  BY <1>2 DEF Steps
<1>4. \A i \in 1 .. N, q \in V : step[<<i, q>>] = Step(i, q)
  <2> TAKE i \in 1 .. N, q \in V
  <2>1. <<i, q>> \in (1 .. N) \X V /\ <<i, q>>[1] = i /\ <<i, q>>[2] = q
    OBVIOUS
  <2> QED
    BY <2>1, Zenon
<1> HIDE DEF N, V, step
<1>5. PICK g \in [0 .. N -> V] : g[0] = <<>> /\ \A i \in 1 .. N : g[i] = step[<<i, g[i - 1]>>]
  <2>1. PICK v0 \in V : v0 = <<>>
    BY <1>1
  <2>2. N \in Nat
    BY <1>1
  <2>3. \E g \in [0 .. N -> V] : g[0] = v0 /\ \A i \in 1 .. N : g[i] = step[<<i, g[i - 1]>>]
    BY <2>2, <1>3, Iterates
  <2> QED
    BY <2>1, <2>3
<1>6. \A i \in 1 .. N : g[i] = Step(i, g[i - 1])
  <2> TAKE i \in 1 .. N
  <2>1. g[i - 1] \in V
    <3>1. i - 1 \in 0 .. N
      BY <1>1
    <3> QED
      BY <3>1
  <2> QED
    BY <2>1, <1>4, <1>5
<1>7. \A i \in 0 .. N : g[i] = IF i = 0 THEN <<>> ELSE Step(i, g[i - 1])
  <2> TAKE i \in 0 .. N
  <2>1. CASE i = 0
    BY <2>1, <1>5
  <2>2. CASE i # 0
    <3>1. i \in 1 .. N
      BY <2>2, <1>1
    <3> QED
      BY <3>1, <2>2, <1>6
  <2> QED
    BY <2>1, <2>2
<1>8. g = [i \in 0 .. N |-> IF i = 0 THEN <<>> ELSE Step(i, g[i - 1])]
  BY <1>7
<1> QED
  BY <1>8 DEF IsMoved, Step, N

LEMMA MovedChain ==
  ASSUME NEW chain, NEW d, NEW k, ChainOK(chain, d, k), NEW c, NEW n
  PROVE  /\ ChainOK(Moved(chain, c, n), c, n)
         /\ Elems(Moved(chain, c, n)) = {e \in Elems(chain) : Hash[e.key] % n = c}
<1> DEFINE g == CHOOSE g : IsMoved(g, chain, c, n)
           N == Len(chain)
           Upto(i) == {chain[j] : j \in {l \in 1 .. i : Hash[chain[l].key] % n = c}}
           T == {i \in Nat : i <= N => ChainOK(g[i], c, n) /\ Elems(g[i]) = Upto(i)}
<1>1. /\ N \in Nat /\ \A j \in 1 .. N : chain[j] \in Entry
      /\ \A i, j \in 1 .. N : chain[i].key = chain[j].key => i = j
  BY DEF ChainOK
<1>2. IsMoved(g, chain, c, n)
  BY MovedExists DEF ChainOK
<1> HIDE DEF g
<1>3. g[0] = <<>> /\ \A i \in 1 .. N :
        g[i] = IF Hash[chain[i].key] % n = c THEN <<chain[i]>> \o g[i - 1] ELSE g[i - 1]
  <2>1. \A i \in 0 .. N :
          g[i] = IF i = 0 THEN <<>>
                 ELSE IF Hash[chain[i].key] % n = c THEN <<chain[i]>> \o g[i - 1] ELSE g[i - 1]
    BY <1>2, Zenon DEF IsMoved
  <2>2. 0 \in 0 .. N /\ \A i \in 1 .. N : i \in 0 .. N /\ i # 0
    BY <1>1
  <2> QED
    BY <2>1, <2>2
<1>4. 0 \in T
  BY <1>3, EmptyChain
<1>5. ASSUME NEW i \in Nat, i \in T PROVE i + 1 \in T
  <2> SUFFICES ASSUME i + 1 <= N
               PROVE  ChainOK(g[i + 1], c, n) /\ Elems(g[i + 1]) = Upto(i + 1)
    OBVIOUS
  <2>1. ChainOK(g[i], c, n) /\ Elems(g[i]) = Upto(i)
    BY <1>1, <1>5
  <2>2. i + 1 \in 1 .. N /\ (i + 1) - 1 = i
    BY <1>1
  <2> DEFINE e == chain[i + 1]
  <2>3. e \in Entry /\ \A j \in 1 .. i : chain[j].key # e.key
    BY <2>2, <1>1
  <2>4. CASE Hash[e.key] % n = c
    <3>1. g[i + 1] = <<e>> \o g[i]
      BY <2>2, <2>4, <1>3
    <3>2. \A j \in 1 .. Len(g[i]) : g[i][j].key # e.key
      <4> SUFFICES ASSUME NEW j \in 1 .. Len(g[i]) PROVE g[i][j].key # e.key
        OBVIOUS
      <4>1. g[i][j] \in Upto(i)
        BY <2>1 DEF Elems
      <4> QED
        BY <4>1, <2>3
    <3>3. ChainOK(g[i + 1], c, n) /\ Elems(g[i + 1]) = Elems(g[i]) \cup {e}
      BY <3>1, <3>2, <2>1, <2>3, <2>4, PushChain
    <3>4. Upto(i + 1) = Upto(i) \cup {e}
      <4>1. \A j \in 1 .. i + 1 : j \in 1 .. i \/ j = i + 1
        OBVIOUS
      <4>2. i + 1 \in 1 .. i + 1 /\ \A j \in 1 .. i : j \in 1 .. i + 1
        OBVIOUS
      <4> QED
        BY <4>1, <4>2, <2>4
    <3> QED
      BY <3>3, <3>4, <2>1
  <2>5. CASE Hash[e.key] % n # c
    <3>1. g[i + 1] = g[i]
      BY <2>2, <2>5, <1>3
    <3>2. Upto(i + 1) = Upto(i)
      <4>1. \A j \in 1 .. i + 1 : j \in 1 .. i \/ j = i + 1
        OBVIOUS
      <4>2. \A j \in 1 .. i : j \in 1 .. i + 1
        OBVIOUS
      <4> QED
        BY <4>1, <4>2, <2>5
    <3> QED
      BY <3>1, <3>2, <2>1
  <2> QED
    BY <2>4, <2>5
<1>6. N \in T
  <2> HIDE DEF T
  <2>1. Nat \subseteq T
    BY <1>4, <1>5, SetInduction
  <2> QED
    BY <2>1, <1>1
<1>7. Moved(chain, c, n) = g[N]
  BY MovedDef DEF g
<1>8. ChainOK(g[N], c, n) /\ Elems(g[N]) = Upto(N)
  BY <1>1, <1>6
<1> QED
  BY <1>7, <1>8 DEF Elems

-----------------------------------------------------------------------------
(***************************************************************************)
(* The table: what a change of one chain, and its growth, leave in it.     *)
(***************************************************************************)
Sound(t, n) == t = [c \in 0 .. n - 1 |-> t[c]] /\ \A c \in 0 .. n - 1 : ChainOK(t[c], c, n)

In(t, n) == UNION {Elems(t[c]) : c \in 0 .. n - 1}

LEMMA InChain ==
  ASSUME NEW t, NEW n, Sound(t, n)
  PROVE  /\ In(t, n) \subseteq Entry
         /\ \A e \in In(t, n) : Hash[e.key] % n \in 0 .. n - 1 /\ e \in Elems(t[Hash[e.key] % n])
         /\ \A x, y \in In(t, n) : x.key = y.key => x = y
<1>1. ASSUME NEW e \in In(t, n)
      PROVE  /\ e \in Entry /\ Hash[e.key] % n \in 0 .. n - 1
             /\ e \in Elems(t[Hash[e.key] % n])
  <2>1. PICK c \in 0 .. n - 1 : e \in Elems(t[c])
    BY DEF In
  <2>2. PICK i \in 1 .. Len(t[c]) : e = t[c][i]
    BY <2>1 DEF Elems
  <2>3. ChainOK(t[c], c, n)
    BY DEF Sound
  <2>4. e \in Entry /\ Hash[e.key] % n = c
    BY <2>2, <2>3 DEF ChainOK
  <2> QED
    BY <2>1, <2>4
<1>2. ASSUME NEW x \in In(t, n), NEW y \in In(t, n), x.key = y.key
      PROVE  x = y
  <2> DEFINE c == Hash[x.key] % n
  <2>1. c \in 0 .. n - 1 /\ x \in Elems(t[c]) /\ y \in Elems(t[c])
    BY <1>1, <1>2
  <2>2. ChainOK(t[c], c, n)
    BY <2>1 DEF Sound
  <2> HIDE DEF c
  <2> QED
    BY <1>2, <2>1, <2>2 DEF Elems, ChainOK
<1> QED
  BY <1>1, <1>2

\* Chain h gets other entries: some go, some come.
Swap(S, X, Y) == (S \ X) \cup Y

LEMMA ChangeChain ==
  ASSUME NEW t, NEW n, Sound(t, n), NEW h \in 0 .. n - 1, NEW q, ChainOK(q, h, n),
         NEW X, X \subseteq Elems(t[h]), NEW Y, Elems(q) = Swap(Elems(t[h]), X, Y),
         NEW u, u = [t EXCEPT ![h] = q]
  PROVE  Sound(u, n) /\ In(u, n) = Swap(In(t, n), X, Y)
<1>1. DOMAIN t = 0 .. n - 1
  BY DEF Sound
<1>2. u = [c \in 0 .. n - 1 |-> IF c = h THEN q ELSE t[c]]
  BY <1>1, Zenon
<1>3. \A c \in 0 .. n - 1 : u[c] = IF c = h THEN q ELSE t[c]
  BY <1>2
<1>4. Sound(u, n)
  <2>1. u = [c \in 0 .. n - 1 |-> u[c]]
    BY <1>2, <1>3
  <2>2. \A c \in 0 .. n - 1 : ChainOK(u[c], c, n)
    BY <1>3 DEF Sound
  <2> QED
    BY <2>1, <2>2 DEF Sound
<1>5. \A c \in 0 .. n - 1 : c # h => Elems(t[c]) \cap X = {}
  <2> SUFFICES ASSUME NEW c \in 0 .. n - 1, NEW e \in Elems(t[c]), e \in X PROVE c = h
    OBVIOUS
  <2>1. ChainOK(t[c], c, n) /\ ChainOK(t[h], h, n) /\ e \in Elems(t[h])
    BY DEF Sound
  <2>2. PICK i \in 1 .. Len(t[c]), j \in 1 .. Len(t[h]) : e = t[c][i] /\ e = t[h][j]
    BY <2>1 DEF Elems
  <2>3. Hash[e.key] % n = c /\ Hash[e.key] % n = h
    BY <2>1, <2>2 DEF ChainOK
  <2> QED
    BY <2>3
<1>6. In(u, n) = (In(t, n) \ X) \cup Y
  <2>1. \A e \in In(u, n) : e \in (In(t, n) \ X) \cup Y
    <3> SUFFICES ASSUME NEW c \in 0 .. n - 1, NEW e \in Elems(u[c])
                 PROVE  e \in (In(t, n) \ X) \cup Y
      BY DEF In
    <3>1. CASE c = h
      <4>1. e \in (Elems(t[h]) \ X) \cup Y
        BY <3>1, <1>3 DEF Swap
      <4> QED
        BY <4>1 DEF In
    <3>2. CASE c # h
      <4>1. e \in Elems(t[c]) /\ e \notin X
        BY <3>2, <1>3, <1>5
      <4> QED
        BY <4>1 DEF In
    <3> QED
      BY <3>1, <3>2
  <2>2. \A e \in Y : e \in In(u, n)
    <3>1. \A e \in Y : e \in Elems(u[h])
      BY <1>3 DEF Swap
    <3> QED
      BY <3>1 DEF In
  <2>3. \A e \in In(t, n) \ X : e \in In(u, n)
    <3> SUFFICES ASSUME NEW c \in 0 .. n - 1, NEW e \in Elems(t[c]), e \notin X
                 PROVE  e \in In(u, n)
      BY DEF In
    <3>1. e \in Elems(u[c])
      <4>1. CASE c = h
        BY <4>1, <1>3 DEF Swap
      <4>2. CASE c # h
        BY <4>2, <1>3
      <4> QED
        BY <4>1, <4>2
    <3> QED
      BY <3>1 DEF In
  <2> QED
    BY <2>1, <2>2, <2>3
<1> QED
  BY <1>4, <1>6 DEF Swap

Put(q, i, y) == [q EXCEPT ![i] = y]
Holds(u, n, S) == Sound(u, n) /\ In(u, n) = S
Replace(S, x, y) == (S \ {x}) \cup {y}

LEMMA SetTable ==
  ASSUME NEW t, NEW n, Sound(t, n), NEW h \in 0 .. n - 1, NEW i \in 1 .. Len(t[h]),
         NEW y \in Entry, y.key = t[h][i].key
  PROVE  Holds([t EXCEPT ![h] = Put(t[h], i, y)], n, Replace(In(t, n), t[h][i], y))
<1> DEFINE q == Put(t[h], i, y)
           X == {t[h][i]}
           Y == {y}
<1>1. ChainOK(t[h], h, n)
  BY DEF Sound
<1>2. ChainOK(q, h, n) /\ Elems(q) = Swap(Elems(t[h]), X, Y)
  BY <1>1, SetChain DEF Swap, Put
<1>3. X \subseteq Elems(t[h])
  BY DEF Elems
<1> HIDE DEF q, X, Y
<1>4. Sound([t EXCEPT ![h] = q], n) /\ In([t EXCEPT ![h] = q], n) = Swap(In(t, n), X, Y)
  BY <1>2, <1>3, ChangeChain
<1> QED
  BY <1>4, Zenon DEF q, X, Y, Swap, Replace, Holds

LEMMA RemoveTable ==
  ASSUME NEW t, NEW n, Sound(t, n), NEW h \in 0 .. n - 1, NEW i \in 1 .. Len(t[h])
  PROVE  /\ Sound([t EXCEPT ![h] = RemoveAt(t[h], i)], n)
         /\ In([t EXCEPT ![h] = RemoveAt(t[h], i)], n) = Swap(In(t, n), {t[h][i]}, {})
<1> DEFINE q == RemoveAt(t[h], i)
           X == {t[h][i]}
<1>1. ChainOK(t[h], h, n)
  BY DEF Sound
<1>2. ChainOK(q, h, n) /\ Elems(q) = Swap(Elems(t[h]), X, {})
  BY <1>1, RemoveChain DEF Swap
<1>3. X \subseteq Elems(t[h])
  BY DEF Elems
<1> HIDE DEF q, X
<1>4. Sound([t EXCEPT ![h] = q], n) /\ In([t EXCEPT ![h] = q], n) = Swap(In(t, n), X, {})
  BY <1>2, <1>3, ChangeChain
<1> QED
  BY <1>4 DEF q, X

LEMMA GrownTable ==
  ASSUME NEW t, buddy_size \in Nat \ {0}, Sound(t, buddy_size), McfgAssumption
  PROVE  /\ Sound(Rehash(t), 2 * buddy_size)
         /\ In(Rehash(t), 2 * buddy_size) = In(t, buddy_size)
<1> DEFINE n == buddy_size
           u == Rehash(t)
<1> HIDE DEF n, u
<1>0. n \in Nat \ {0} /\ Sound(t, n)
  BY DEF n
<1>1. /\ u = [c \in 0 .. 2 * n - 1 |-> Moved(t[c % n], c, 2 * n)]
      /\ \A c \in 0 .. 2 * n - 1 : u[c] = Moved(t[c % n], c, 2 * n)
  BY DEF u, n, Rehash
<1>2. \A c \in 0 .. 2 * n - 1 : c % n \in 0 .. n - 1
  BY <1>0
<1>3. ASSUME NEW c \in 0 .. 2 * n - 1
      PROVE  /\ ChainOK(u[c], c, 2 * n)
             /\ Elems(u[c]) = {e \in Elems(t[c % n]) : Hash[e.key] % (2 * n) = c}
  <2>1. ChainOK(t[c % n], c % n, n)
    BY <1>0, <1>2 DEF Sound
  <2> QED
    BY <2>1, <1>1, MovedChain
<1>4. Sound(u, 2 * n)
  <2>1. u = [c \in 0 .. 2 * n - 1 |-> u[c]]
    BY <1>1
  <2> QED
    BY <2>1, <1>3 DEF Sound
<1>5. In(u, 2 * n) \subseteq In(t, n)
  <2> SUFFICES ASSUME NEW c \in 0 .. 2 * n - 1, NEW e \in Elems(u[c]) PROVE e \in In(t, n)
    BY DEF In
  <2>1. e \in Elems(t[c % n]) /\ c % n \in 0 .. n - 1
    BY <1>2, <1>3
  <2> QED
    BY <2>1 DEF In
<1>6. ASSUME NEW e \in In(t, n) PROVE e \in In(u, 2 * n)
  <2> DEFINE h == Hash[e.key]
  <2>1. h \in Nat /\ h % n \in 0 .. n - 1 /\ e \in Elems(t[h % n])
    <3>1. e \in Entry /\ h % n \in 0 .. n - 1 /\ e \in Elems(t[h % n])
      BY <1>0, InChain
    <3> QED
      BY <3>1, McfgAssumption DEF Entry
  <2>2. h % (2 * n) \in 0 .. 2 * n - 1 /\ (h % (2 * n)) % n = h % n
    BY <2>1, <1>0, ModDouble
  <2> DEFINE c == h % (2 * n)
  <2>3. e \in Elems(t[c % n]) /\ h % (2 * n) = c
    BY <2>1, <2>2
  <2>4. e \in Elems(u[c])
    BY <2>2, <2>3, <1>3
  <2> QED
    BY <2>2, <2>4 DEF In
<1> QED
  BY <1>4, <1>5, <1>6 DEF n, u

-----------------------------------------------------------------------------
(***************************************************************************)
(* The totals: the space of all keys and values is counted, or more.       *)
(***************************************************************************)
KeyOf == [e \in Entry |-> KeySpace(e.key)]
ValOf == [e \in Entry |-> IF e.val = NoVal THEN 0 ELSE ValSpace(e.val)]

KeySum(E) == SumFunctionOnSet(KeyOf, E)
ValSum(E) == SumFunctionOnSet(ValOf, E)

\* Entries of different keys.
Keyed(E) == E \subseteq Entry /\ \A x, y \in E : x.key = y.key => x = y

MInv ==
    /\ buddy_size \in Nat \ {0} /\ Sound(buddy, buddy_size)
    /\ entry_num = Cardinality(Entries)
    /\ tot_key_len \in Int /\ tot_key_len <= MaxKeyLen /\ KeySum(Entries) <= tot_key_len
    /\ tot_val_len \in Int /\ tot_val_len <= MaxValLen /\ ValSum(Entries) <= tot_val_len
    /\ ret \in {0, -1}

LEMMA EntrySpace ==
  /\ KeyOf \in [Entry -> Nat] /\ ValOf \in [Entry -> Nat]
  /\ KeyOf \in [Entry -> Int] /\ ValOf \in [Entry -> Int]
  /\ \A e \in Entry : KeyOf[e] = KeyLen[e.key] + 6 /\ e.key \in Keys /\ KeyLen[e.key] \in Nat
  /\ \A e \in Entry : /\ e.val # NoVal => ValOf[e] = ValLen[e.val] + 6 /\ ValLen[e.val] \in Nat
                      /\ e.val = NoVal => ValOf[e] = 0
<1>1. \A e \in Entry : e.key \in Keys /\ e.val \in Values \cup {NoVal}
  BY DEF Entry
<1>2. \A e \in Entry : KeyLen[e.key] \in Nat /\ (e.val # NoVal => ValLen[e.val] \in Nat)
  BY <1>1, McfgAssumption
<1>3. \A e \in Entry : KeySpace(e.key) = KeyLen[e.key] + 6
  BY <1>2 DEF KeySpace
<1>4. \A e \in Entry : e.val # NoVal => ValSpace(e.val) = ValLen[e.val] + 6
  BY <1>2 DEF ValSpace
<1> QED
  BY <1>1, <1>2, <1>3, <1>4 DEF KeyOf, ValOf

LEMMA KeyedFinite ==
  ASSUME NEW E, Keyed(E)
  PROVE  /\ IsFiniteSet(E) /\ Cardinality(E) \in Nat /\ Cardinality(E) <= Cardinality(Keys)
         /\ KeySum(E) \in Nat /\ ValSum(E) \in Nat
<1> DEFINE f == [e \in E |-> e.key]
<1>1. f \in Injection(E, Keys)
  BY DEF Keyed, Entry, Injection, IsInjective
<1>2. IsFiniteSet(E) /\ Cardinality(E) <= Cardinality(Keys)
  BY <1>1, FS_Injection, McfgAssumption
<1>3. E \in SUBSET Entry
  BY DEF Keyed
<1> QED
  BY <1>2, <1>3, EntrySpace, SumNat, FS_CardinalityType DEF KeySum, ValSum

LEMMA SumsNew ==
  ASSUME NEW E, Keyed(E), NEW e \in Entry, \A x \in E : x.key # e.key
  PROVE  /\ Keyed(E \cup {e}) /\ Cardinality(E \cup {e}) = Cardinality(E) + 1
         /\ KeySum(E \cup {e}) = KeySum(E) + KeyOf[e]
         /\ ValSum(E \cup {e}) = ValSum(E) + ValOf[e]
<1>1. Keyed(E \cup {e}) /\ E \in SUBSET Entry /\ e \in Entry \ E
  BY DEF Keyed
<1>2. IsFiniteSet(E) /\ KeySum(E) \in Nat /\ ValSum(E) \in Nat
  BY KeyedFinite
<1>3. Cardinality(E \cup {e}) = Cardinality(E) + 1
  BY <1>1, <1>2, FS_AddElement
<1>4. KeySum(E \cup {e}) = KeyOf[e] + KeySum(E) /\ ValSum(E \cup {e}) = ValOf[e] + ValSum(E)
  BY <1>1, <1>2, EntrySpace, SumAdd DEF KeySum, ValSum
<1>5. KeyOf[e] \in Nat /\ ValOf[e] \in Nat
  BY EntrySpace
<1> QED
  BY <1>1, <1>2, <1>3, <1>4, <1>5

LEMMA SumsGone ==
  ASSUME NEW E, Keyed(E), NEW x \in E
  PROVE  /\ Keyed(E \ {x}) /\ Cardinality(E \ {x}) = Cardinality(E) - 1
         /\ KeySum(E \ {x}) = KeySum(E) - KeyOf[x]
         /\ ValSum(E \ {x}) = ValSum(E) - ValOf[x]
<1>1. Keyed(E \ {x}) /\ E \in SUBSET Entry
  BY DEF Keyed
<1>2. IsFiniteSet(E)
  BY KeyedFinite
<1>3. Cardinality(E \ {x}) = Cardinality(E) - 1
  BY <1>2, FS_RemoveElement
<1>4. KeySum(E \ {x}) = KeySum(E) - KeyOf[x] /\ ValSum(E \ {x}) = ValSum(E) - ValOf[x]
  BY <1>1, <1>2, EntrySpace, SumLess DEF KeySum, ValSum
<1> QED
  BY <1>1, <1>3, <1>4

LEMMA SumsPut ==
  ASSUME NEW E, Keyed(E), NEW x \in E, NEW y \in Entry, y.key = x.key
  PROVE  /\ Keyed((E \ {x}) \cup {y}) /\ Cardinality((E \ {x}) \cup {y}) = Cardinality(E)
         /\ KeySum((E \ {x}) \cup {y}) = KeySum(E)
         /\ ValSum((E \ {x}) \cup {y}) = ValSum(E) - ValOf[x] + ValOf[y]
<1> DEFINE R == E \ {x}
<1>1. /\ Keyed(R) /\ Cardinality(R) = Cardinality(E) - 1
      /\ KeySum(R) = KeySum(E) - KeyOf[x]
      /\ ValSum(R) = ValSum(E) - ValOf[x]
  BY SumsGone
<1>2. \A z \in R : z.key # y.key
  BY DEF Keyed
<1>3. x \in Entry /\ KeyOf[y] = KeyOf[x]
  BY DEF Keyed, KeyOf
<1> HIDE DEF R
<1>4. /\ Keyed(R \cup {y}) /\ Cardinality(R \cup {y}) = Cardinality(R) + 1
      /\ KeySum(R \cup {y}) = KeySum(R) + KeyOf[y]
      /\ ValSum(R \cup {y}) = ValSum(R) + ValOf[y]
  BY <1>1, <1>2, SumsNew
<1>5. /\ KeyOf[x] \in Nat /\ ValOf[x] \in Nat /\ ValOf[y] \in Nat
      /\ KeySum(E) \in Nat /\ ValSum(E) \in Nat /\ Cardinality(E) \in Nat
  BY <1>3, EntrySpace, KeyedFinite
<1> DEFINE U == R \cup {y}
<1> HIDE DEF U
<1>6. /\ Keyed(U) /\ Cardinality(U) = Cardinality(E)
      /\ KeySum(U) = KeySum(E) /\ ValSum(U) = ValSum(E) - ValOf[x] + ValOf[y]
  BY <1>1, <1>3, <1>4, <1>5 DEF U
<1> QED
  BY <1>6 DEF U, R

LEMMA EntriesIn ==
  ASSUME NEW t, NEW n, Sound(t, n)
  PROVE  UNION {Range(t[c]) : c \in 0 .. n - 1} = In(t, n) /\ Keyed(In(t, n))
<1>1. \A c \in 0 .. n - 1 : Range(t[c]) = Elems(t[c])
  BY DEF Sound, ChainOK, Range, Elems
<1>2. Keyed(In(t, n))
  BY InChain DEF Keyed
<1> QED
  BY <1>1, <1>2 DEF In

-----------------------------------------------------------------------------
(***************************************************************************)
(* The calls: what the search finds, and what each call makes of it.       *)
(***************************************************************************)
LEMMA Table ==
  ASSUME MInv
  PROVE  /\ buddy_size \in Nat \ {0} /\ Sound(buddy, buddy_size)
         /\ Entries = In(buddy, buddy_size) /\ Keyed(Entries)
<1>1. buddy_size \in Nat \ {0} /\ Sound(buddy, buddy_size)
  BY DEF MInv
<1>2. /\ UNION {Range(buddy[c]) : c \in 0 .. buddy_size - 1} = In(buddy, buddy_size)
      /\ Keyed(In(buddy, buddy_size))
  BY <1>1, EntriesIn, Zenon
<1> QED
  BY <1>1, <1>2, Zenon DEF Entries, Chains

LEMMA NewTable ==
  ASSUME buddy_size' \in Nat \ {0}, Sound(buddy', buddy_size')
  PROVE  Entries' = In(buddy', buddy_size') /\ Keyed(Entries')
<1>1. /\ UNION {Range(buddy'[c]) : c \in 0 .. buddy_size' - 1} = In(buddy', buddy_size')
      /\ Keyed(In(buddy', buddy_size'))
  BY EntriesIn, Zenon
<1> QED
  BY <1>1, Zenon DEF Entries, Chains

LEMMA HomeChain ==
  ASSUME MInv, NEW k \in Keys
  PROVE  /\ Home(k) \in 0 .. buddy_size - 1 /\ Home(k) = Hash[k] % buddy_size
         /\ ChainOK(buddy[Home(k)], Home(k), buddy_size)
         /\ DOMAIN buddy[Home(k)] = 1 .. Len(buddy[Home(k)])
         /\ Elems(buddy[Home(k)]) \subseteq Entries
<1>1. Hash[k] \in Nat /\ buddy_size \in Nat \ {0}
  BY Table, McfgAssumption
<1>2. Home(k) \in 0 .. buddy_size - 1 /\ Home(k) = Hash[k] % buddy_size
  BY <1>1, ModDouble DEF Home
<1>3. ChainOK(buddy[Home(k)], Home(k), buddy_size)
  BY <1>2, Table DEF Sound
<1>4. DOMAIN buddy[Home(k)] = 1 .. Len(buddy[Home(k)])
  BY <1>3 DEF ChainOK
<1> QED
  BY <1>2, <1>3, <1>4, Table DEF In

LEMMA FoundEntry ==
  ASSUME MInv, NEW k \in Keys, NEW i \in DOMAIN buddy[Home(k)], Finds(k, i)
  PROVE  /\ i \in 1 .. Len(buddy[Home(k)])
         /\ buddy[Home(k)][i] \in Entries /\ buddy[Home(k)][i] \in Entry
         /\ Matches(k, buddy[Home(k)][i].key)
<1>1. i \in 1 .. Len(buddy[Home(k)]) /\ buddy[Home(k)][i] \in Entries
  BY HomeChain DEF Elems
<1> QED
  BY <1>1, Table DEF Finds, Keyed

LEMMA NotFound ==
  ASSUME MInv, NEW k \in Keys, Missing(k)
  PROVE  \A e \in Entries : e.key # k
<1> SUFFICES ASSUME NEW e \in Entries, e.key = k PROVE FALSE
  OBVIOUS
<1>1. e \in Elems(buddy[Home(k)])
  <2>1. Sound(buddy, buddy_size) /\ e \in In(buddy, buddy_size)
    BY Table
  <2>2. e \in Elems(buddy[Hash[e.key] % buddy_size])
    BY <2>1, InChain
  <2> QED
    BY <2>2 DEF Home
<1>2. PICK i \in DOMAIN buddy[Home(k)] : e = buddy[Home(k)][i]
  <2>1. PICK i \in 1 .. Len(buddy[Home(k)]) : e = buddy[Home(k)][i]
    BY <1>1 DEF Elems
  <2>2. DOMAIN buddy[Home(k)] = 1 .. Len(buddy[Home(k)])
    BY HomeChain
  <2> QED
    BY <2>1, <2>2
<1>3. Matches(k, k)
  BY McfgAssumption DEF Matches
<1> QED
  BY <1>2, <1>3 DEF Missing

LEMMA PutEntry ==
  ASSUME MInv, NEW k \in Keys, NEW i \in 1 .. Len(buddy[Home(k)]), NEW y \in Entry,
         y.key = buddy[Home(k)][i].key, buddy_size' = buddy_size,
         buddy' = [buddy EXCEPT ![Home(k)] = [buddy[Home(k)] EXCEPT ![i] = y]]
  PROVE  /\ Sound(buddy', buddy_size') /\ buddy_size' \in Nat \ {0}
         /\ Entries' = (Entries \ {buddy[Home(k)][i]}) \cup {y}
<1> DEFINE q == Put(buddy[Home(k)], i, y)
           t == [buddy EXCEPT ![Home(k)] = q]
           E == (Entries \ {buddy[Home(k)][i]}) \cup {y}
<1>1. buddy_size \in Nat \ {0} /\ Sound(buddy, buddy_size) /\ Entries = In(buddy, buddy_size)
  BY Table
<1>2. Sound(t, buddy_size) /\ In(t, buddy_size) = E
  <2>1. Home(k) \in 0 .. buddy_size - 1
    BY HomeChain
  <2>2. Holds(t, buddy_size, Replace(In(buddy, buddy_size), buddy[Home(k)][i], y))
    BY <1>1, <2>1, SetTable, Zenon
  <2> QED
    BY <1>1, <2>2, Zenon DEF Holds, Replace
<1>3. buddy' = t
  BY DEF Put
<1> HIDE DEF t, E
<1>4. Sound(buddy', buddy_size') /\ In(buddy', buddy_size') = E /\ buddy_size' \in Nat \ {0}
  BY <1>1, <1>2, <1>3
<1>5. Entries' = E
  BY <1>4, NewTable
<1> QED
  BY <1>4, <1>5 DEF E

LEMMA DropEntry ==
  ASSUME MInv, NEW k \in Keys, NEW i \in 1 .. Len(buddy[Home(k)]), buddy_size' = buddy_size,
         buddy' = [buddy EXCEPT ![Home(k)] = RemoveAt(buddy[Home(k)], i)]
  PROVE  /\ Sound(buddy', buddy_size') /\ buddy_size' \in Nat \ {0}
         /\ Entries' = Entries \ {buddy[Home(k)][i]}
<1> DEFINE t == [buddy EXCEPT ![Home(k)] = RemoveAt(buddy[Home(k)], i)]
           E == Entries \ {buddy[Home(k)][i]}
<1>1. buddy_size \in Nat \ {0} /\ Sound(buddy, buddy_size) /\ Entries = In(buddy, buddy_size)
  BY Table
<1>2. Sound(t, buddy_size) /\ In(t, buddy_size) = E
  <2>1. Home(k) \in 0 .. buddy_size - 1
    BY HomeChain
  <2>2. /\ Sound(t, buddy_size)
        /\ In(t, buddy_size) = Swap(In(buddy, buddy_size), {buddy[Home(k)][i]}, {})
    BY <1>1, <2>1, RemoveTable, Zenon
  <2> QED
    BY <1>1, <2>2 DEF Swap
<1>3. buddy' = t
  OBVIOUS
<1> HIDE DEF t, E
<1>4. Sound(buddy', buddy_size') /\ In(buddy', buddy_size') = E /\ buddy_size' \in Nat \ {0}
  BY <1>1, <1>2, <1>3
<1>5. Entries' = E
  BY <1>4, NewTable
<1> QED
  BY <1>4, <1>5 DEF E

LEMMA NewEntry ==
  ASSUME MInv, NEW k \in Keys, Missing(k), NEW e \in Entry, e.key = k, NEW grown,
         Insert(k, e, grown)
  PROVE  /\ Sound(buddy', buddy_size') /\ buddy_size' \in Nat \ {0}
         /\ Entries' = Entries \cup {e}
<1> DEFINE h == Home(k)
           q == <<e>> \o buddy[h]
           t == [buddy EXCEPT ![h] = q]
<1>0. buddy_size \in Nat \ {0} /\ Sound(buddy, buddy_size) /\ Entries = In(buddy, buddy_size)
  BY Table
<1>1. h \in 0 .. buddy_size - 1 /\ ChainOK(buddy[h], h, buddy_size) /\ Hash[e.key] % buddy_size = h
  BY HomeChain
<1>2. \A i \in 1 .. Len(buddy[h]) : buddy[h][i].key # e.key
  BY NotFound, HomeChain DEF Elems
<1>3. ChainOK(q, h, buddy_size) /\ Elems(q) = Elems(buddy[h]) \cup {e}
  BY <1>1, <1>2, PushChain
<1>4. {} \subseteq Elems(buddy[h]) /\ Elems(q) = Swap(Elems(buddy[h]), {}, {e})
  BY <1>3 DEF Swap
<1>5. \/ buddy' = t /\ buddy_size' = buddy_size
      \/ buddy' = Rehash(t) /\ buddy_size' = 2 * buddy_size
  BY DEF Insert
<1> HIDE DEF h, q, t
<1>6. Sound(t, buddy_size) /\ In(t, buddy_size) = Swap(In(buddy, buddy_size), {}, {e})
  BY <1>0, <1>1, <1>3, <1>4, ChangeChain DEF t
<1>7. /\ Sound(Rehash(t), 2 * buddy_size)
      /\ In(Rehash(t), 2 * buddy_size) = In(t, buddy_size)
  BY <1>0, <1>6, McfgAssumption, GrownTable
<1>8. /\ Sound(buddy', buddy_size') /\ buddy_size' \in Nat \ {0}
      /\ In(buddy', buddy_size') = In(t, buddy_size)
  <2>1. CASE buddy' = t /\ buddy_size' = buddy_size
    BY <2>1, <1>0, <1>6
  <2>2. CASE buddy' = Rehash(t) /\ buddy_size' = 2 * buddy_size
    BY <2>2, <1>0, <1>7
  <2> QED
    BY <1>5, <2>1, <2>2
<1> QED
  BY <1>0, <1>6, <1>8, NewTable DEF Swap

-----------------------------------------------------------------------------
(***************************************************************************)
(* What each call does to the set of entries; each keeps MInv.             *)
(***************************************************************************)
LEMMA Costs ==
  /\ \A k \in Keys : KeySpace(k) = KeyLen[k] + 6 /\ KeyCredit(k) = KeyLen[k] + 5 /\ KeyLen[k] \in Nat
  /\ \A v \in Values : /\ v # NoVal /\ ValSpace(v) = ValLen[v] + 6
                       /\ ValCredit(v) = ValLen[v] + 5 /\ ValLen[v] \in Nat
  /\ ValCredit(NoVal) = 0
  /\ \A e \in Entry : /\ ValCredit(e.val) \in Nat /\ ValOf[e] \in Nat /\ ValCredit(e.val) <= ValOf[e]
                      /\ KeyCredit(e.key) \in Nat /\ KeyOf[e] \in Nat /\ KeyCredit(e.key) <= KeyOf[e]
<1>1. \A k \in Keys : KeyLen[k] \in Nat
  BY McfgAssumption
<1>2. \A v \in Values : v # NoVal /\ ValLen[v] \in Nat
  BY McfgAssumption
<1>3. \A k \in Keys : KeySpace(k) = KeyLen[k] + 6 /\ KeyCredit(k) = KeyLen[k] + 5
  BY <1>1 DEF KeySpace, KeyCredit
<1>4. \A v \in Values : ValSpace(v) = ValLen[v] + 6 /\ ValCredit(v) = ValLen[v] + 5
  BY <1>2 DEF ValSpace, ValCredit
<1>5. ValCredit(NoVal) = 0
  BY DEF ValCredit
<1>6. ASSUME NEW e \in Entry
      PROVE  /\ ValCredit(e.val) \in Nat /\ ValOf[e] \in Nat /\ ValCredit(e.val) <= ValOf[e]
             /\ KeyCredit(e.key) \in Nat /\ KeyOf[e] \in Nat /\ KeyCredit(e.key) <= KeyOf[e]
  <2>1. e.key \in Keys /\ e.val \in Values \cup {NoVal}
    BY DEF Entry
  <2>2. KeyOf[e] = KeyLen[e.key] + 6 /\ (e.val # NoVal => ValOf[e] = ValLen[e.val] + 6)
        /\ (e.val = NoVal => ValOf[e] = 0)
    BY EntrySpace
  <2>3. KeyCredit(e.key) \in Nat /\ KeyOf[e] \in Nat /\ KeyCredit(e.key) <= KeyOf[e]
    BY <1>1, <1>3, <2>1, <2>2
  <2>4. CASE e.val = NoVal
    BY <1>5, <2>2, <2>3, <2>4
  <2>5. CASE e.val # NoVal
    BY <1>2, <1>4, <2>1, <2>2, <2>3, <2>5
  <2> QED
    BY <2>4, <2>5
<1> QED
  BY <1>1, <1>2, <1>3, <1>4, <1>5, <1>6

\* The entry that a search stops at is changed, but for its key.
LEMMA Changed ==
  ASSUME MInv, NEW k \in Keys, NEW i \in DOMAIN buddy[Home(k)], Finds(k, i),
         NEW y \in Entry, y.key = buddy[Home(k)][i].key,
         buddy' = [buddy EXCEPT ![Home(k)] = [buddy[Home(k)] EXCEPT ![i] = y]],
         UNCHANGED <<buddy_size, entry_num, tot_key_len>>,
         tot_val_len' \in Int, tot_val_len' <= MaxValLen,
         tot_val_len' >= tot_val_len - ValOf[buddy[Home(k)][i]] + ValOf[y],
         ret' \in {0, -1}
  PROVE  MInv' /\ Entries' = Replace(Entries, buddy[Home(k)][i], y)
<1> DEFINE x == buddy[Home(k)][i]
           E == Replace(Entries, x, y)
<1>1. i \in 1 .. Len(buddy[Home(k)]) /\ x \in Entries
  BY FoundEntry
<1>2. buddy_size' = buddy_size /\ entry_num' = entry_num /\ tot_key_len' = tot_key_len
  OBVIOUS
<1>3. Sound(buddy', buddy_size') /\ buddy_size' \in Nat \ {0} /\ Entries' = E
  BY <1>1, <1>2, PutEntry, Zenon DEF Replace
<1>4. /\ Cardinality(E) = Cardinality(Entries) /\ KeySum(E) = KeySum(Entries)
      /\ ValSum(E) = ValSum(Entries) - ValOf[x] + ValOf[y]
  BY <1>1, Table, SumsPut, Zenon DEF Replace
<1>5. ValSum(Entries) \in Nat /\ ValOf[x] \in Nat /\ ValOf[y] \in Nat
  BY <1>1, Table, KeyedFinite, EntrySpace DEF Keyed
<1>6. tot_val_len' >= tot_val_len - ValOf[x] + ValOf[y] /\ tot_val_len' \in Int
  OBVIOUS
<1> HIDE DEF x, E
<1>7. ValSum(E) <= tot_val_len'
  BY <1>4, <1>5, <1>6 DEF MInv
<1> QED
  BY <1>2, <1>3, <1>4, <1>6, <1>7 DEF MInv, x, E

\* A new entry.
LEMMA Added ==
  ASSUME MInv, NEW k \in Keys, Missing(k), NEW e \in Entry, e.key = k, NEW grown,
         Insert(k, e, grown), tot_key_len + KeySpace(k) <= MaxKeyLen,
         tot_val_len' \in Int, tot_val_len' <= MaxValLen,
         tot_val_len' >= tot_val_len + ValOf[e],
         ret' \in {0, -1}
  PROVE  MInv' /\ Entries' = Entries \cup {e} /\ \A x \in Entries : x.key # k
<1> DEFINE E == Entries \cup {e}
<1>1. Sound(buddy', buddy_size') /\ buddy_size' \in Nat \ {0} /\ Entries' = E
  BY NewEntry, Zenon
<1>2. \A x \in Entries : x.key # k
  BY NotFound
<1>3. /\ Cardinality(E) = Cardinality(Entries) + 1 /\ KeySum(E) = KeySum(Entries) + KeyOf[e]
      /\ ValSum(E) = ValSum(Entries) + ValOf[e]
  BY <1>2, Table, SumsNew, Zenon
<1>4. /\ entry_num' = entry_num + 1 /\ tot_key_len' = tot_key_len + KeyOf[e]
      /\ KeyOf[e] = KeySpace(k)
  BY DEF Insert, KeyOf
<1>5. /\ ValSum(Entries) \in Nat /\ KeySum(Entries) \in Nat /\ ValOf[e] \in Nat /\ KeyOf[e] \in Nat
  BY Table, KeyedFinite, EntrySpace
<1> HIDE DEF E
<1>6. KeySum(E) <= tot_key_len' /\ tot_key_len' \in Int /\ tot_key_len' <= MaxKeyLen
  BY <1>3, <1>4, <1>5 DEF MInv
<1>7. ValSum(E) <= tot_val_len'
  BY <1>3, <1>5 DEF MInv
<1>8. entry_num' = Cardinality(E)
  BY <1>3, <1>4 DEF MInv
<1> QED
  BY <1>1, <1>2, <1>6, <1>7, <1>8 DEF MInv, E

\* The entry that a search stops at goes.
LEMMA Removed ==
  ASSUME MInv, NEW k \in Keys, NEW i \in DOMAIN buddy[Home(k)], Finds(k, i),
         buddy' = [buddy EXCEPT ![Home(k)] = RemoveAt(buddy[Home(k)], i)],
         tot_key_len' = tot_key_len - KeyCredit(buddy[Home(k)][i].key),
         tot_val_len' = tot_val_len - ValCredit(buddy[Home(k)][i].val),
         entry_num' = entry_num - 1, buddy_size' = buddy_size, ret' \in {0, -1}
  PROVE  MInv' /\ Entries' = Entries \ {buddy[Home(k)][i]}
<1> DEFINE x == buddy[Home(k)][i]
           E == Entries \ {x}
<1>1. i \in 1 .. Len(buddy[Home(k)]) /\ x \in Entries /\ x \in Entry
  BY FoundEntry
<1>2. Sound(buddy', buddy_size') /\ buddy_size' \in Nat \ {0} /\ Entries' = E
  BY <1>1, DropEntry, Zenon
<1>3. /\ Cardinality(E) = Cardinality(Entries) - 1 /\ KeySum(E) = KeySum(Entries) - KeyOf[x]
      /\ ValSum(E) = ValSum(Entries) - ValOf[x]
  BY <1>1, Table, SumsGone, Zenon
<1>4. /\ tot_key_len' = tot_key_len - KeyCredit(x.key) /\ tot_val_len' = tot_val_len - ValCredit(x.val)
      /\ ValCredit(x.val) \in Nat /\ ValOf[x] \in Nat /\ ValCredit(x.val) <= ValOf[x]
      /\ KeyCredit(x.key) \in Nat /\ KeyOf[x] \in Nat /\ KeyCredit(x.key) <= KeyOf[x]
      /\ KeySum(Entries) \in Nat /\ ValSum(Entries) \in Nat /\ entry_num' = entry_num - 1
      /\ MaxKeyLen \in Nat /\ MaxValLen \in Nat
  BY <1>1, Costs, Table, KeyedFinite, McfgAssumption
<1> HIDE DEF x, E
<1>5. /\ KeySum(E) <= tot_key_len' /\ tot_key_len' \in Int /\ tot_key_len' <= MaxKeyLen
  BY <1>3, <1>4 DEF MInv
<1>6. /\ ValSum(E) <= tot_val_len' /\ tot_val_len' \in Int /\ tot_val_len' <= MaxValLen
  BY <1>3, <1>4 DEF MInv
<1>7. entry_num' = Cardinality(E)
  BY <1>3, <1>4 DEF MInv
<1> QED
  BY <1>2, <1>5, <1>6, <1>7 DEF MInv, x, E

Revalued(x, w) == [key |-> x.key, val |-> w, cb |-> x.cb]
Rehooked(x, cb) == [key |-> x.key, val |-> x.val, cb |-> x.cb \cup {cb}]

\* What a copy of v leaves in the entry.
Copies(v) == {v} \cup (IF MallocFails THEN {NoVal} ELSE {})

LEMMA CopyFacts ==
  ASSUME NEW v \in Values, NEW copied \in Mallocs
  PROVE  /\ (IF copied THEN v ELSE NoVal) \in Copies(v) /\ copied \in BOOLEAN
         /\ (IF copied THEN v ELSE NoVal) \in Values \cup {NoVal}
         /\ v # NoVal
<1>1. MallocFails \in BOOLEAN /\ v # NoVal
  BY McfgAssumption
<1>2. CASE copied
  BY <1>1, <1>2 DEF Copies, Mallocs
<1>3. CASE ~copied
  BY <1>1, <1>3 DEF Copies, Mallocs
<1> QED
  BY <1>2, <1>3

LEMMA MoreHooks ==
  ASSUME NEW x \in Entry, NEW cb
  PROVE  [x EXCEPT !.cb = x.cb \cup {cb}] = Rehooked(x, cb)
<1> DEFINE S == x.cb \cup {cb}
<1>1. PICK a, b, c : x = [key |-> a, val |-> b, cb |-> c]
  BY DEF Entry
<1> HIDE DEF S
<1>2. [x EXCEPT !.cb = S] = [key |-> x.key, val |-> x.val, cb |-> S]
  BY <1>1
<1> QED
  BY <1>2 DEF Rehooked, S

LEMMA SameEntries ==
  ASSUME MInv, UNCHANGED <<buddy_size, buddy, entry_num, tot_key_len, tot_val_len>>, ret' \in {0, -1}
  PROVE  MInv' /\ Entries' = Entries
<1>1. Entries' = Entries
  BY DEF Entries, Chains
<1> QED
  BY <1>1 DEF MInv

LEMMA OverwriteStep ==
  ASSUME MInv, NEW k \in Keys, NEW v \in Values, Overwrite(k, v),
         tot_val_len + ValSpace(v) <= MaxValLen
  PROVE  /\ MInv'
         /\ \E x \in Entries, w \in Copies(v) :
               /\ Matches(k, x.key) /\ Revalued(x, w) \in Entry
               /\ Entries' = Replace(Entries, x, Revalued(x, w))
<1>1. PICK i \in DOMAIN buddy[Home(k)], copied \in Mallocs :
        /\ Finds(k, i)
        /\ buddy' = [buddy EXCEPT ![Home(k)][i].val = IF copied THEN v ELSE NoVal]
        /\ tot_val_len' = tot_val_len - ValCredit(buddy[Home(k)][i].val)
                                      + IF copied THEN ValSpace(v) ELSE 0
        /\ Reply(IF copied THEN 0 ELSE -1)
        /\ UNCHANGED <<buddy_size, entry_num, tot_key_len>>
  BY DEF Overwrite
<1> DEFINE w == IF copied THEN v ELSE NoVal
           x == buddy[Home(k)][i]
           y == Revalued(x, w)
<1>2. i \in 1 .. Len(buddy[Home(k)]) /\ x \in Entries /\ x \in Entry /\ Matches(k, x.key)
  BY <1>1, FoundEntry
<1>3. w \in Copies(v) /\ w \in Values \cup {NoVal} /\ copied \in BOOLEAN
  BY CopyFacts
<1>4. y \in Entry /\ y.key = x.key /\ y.val = w
  BY <1>2, <1>3 DEF Revalued, Entry
<1>5. buddy' = [buddy EXCEPT ![Home(k)] = [buddy[Home(k)] EXCEPT ![i] = y]]
  <2>1. [x EXCEPT !.val = w] = y
    BY <1>2 DEF Entry, Revalued
  <2>2. buddy' = [buddy EXCEPT ![Home(k)] = [buddy[Home(k)] EXCEPT ![i] = [x EXCEPT !.val = w]]]
    BY <1>1
  <2> QED
    BY <2>1, <2>2
<1>6. /\ tot_val_len' \in Int /\ tot_val_len' <= MaxValLen
      /\ tot_val_len' >= tot_val_len - ValOf[x] + ValOf[y]
  <2>1. /\ ValCredit(x.val) \in Nat /\ ValOf[x] \in Nat /\ ValCredit(x.val) <= ValOf[x]
        /\ ValSpace(v) \in Nat /\ tot_val_len \in Int /\ tot_val_len <= MaxValLen /\ MaxValLen \in Nat
    <3>1. ValCredit(x.val) \in Nat /\ ValOf[x] \in Nat /\ ValCredit(x.val) <= ValOf[x]
      BY <1>2, Costs
    <3>2. ValSpace(v) \in Nat /\ tot_val_len \in Int /\ tot_val_len <= MaxValLen /\ MaxValLen \in Nat
      BY Costs, McfgAssumption DEF MInv
    <3> QED
      BY <3>1, <3>2
  <2>2. ValOf[y] = IF copied THEN ValSpace(v) ELSE 0
    <3>1. ValOf[y] = IF y.val = NoVal THEN 0 ELSE ValSpace(y.val)
      BY <1>4 DEF ValOf
    <3>2. y.val = IF copied THEN v ELSE NoVal
      BY <1>4
    <3>3. v # NoVal
      BY CopyFacts
    <3> HIDE DEF y
    <3> QED
      BY <3>1, <3>2, <3>3
  <2>3. tot_val_len' = tot_val_len - ValCredit(x.val) + ValOf[y]
    BY <1>1, <2>2
  <2>4. ValOf[y] \in Nat /\ ValOf[y] <= ValSpace(v)
    BY <2>1, <2>2, <1>3
  <2> HIDE DEF x, y
  <2> QED
    BY <2>1, <2>3, <2>4
<1>7. ret' \in {0, -1} /\ UNCHANGED <<buddy_size, entry_num, tot_key_len>> /\ Finds(k, i)
  BY <1>1 DEF Reply
<1>8. MInv' /\ Entries' = Replace(Entries, x, y)
  <2> HIDE DEF y
  <2> QED
    BY <1>4, <1>5, <1>6, <1>7, Changed
<1> QED
  BY <1>2, <1>3, <1>4, <1>8

LEMMA AddStep ==
  ASSUME MInv, NEW k \in Keys, NEW v \in Values, Add(k, v),
         tot_val_len + ValSpace(v) <= MaxValLen
  PROVE  /\ MInv'
         /\ \A x \in Entries : x.key # k
         /\ \E w \in Copies(v) :
               /\ [key |-> k, val |-> w, cb |-> {}] \in Entry
               /\ Entries' = Entries \cup {[key |-> k, val |-> w, cb |-> {}]}
<1>1. PICK copied \in Mallocs, grown \in Mallocs :
        /\ Missing(k)
        /\ tot_key_len + KeySpace(k) <= MaxKeyLen
        /\ Insert(k, [key |-> k, val |-> IF copied THEN v ELSE NoVal, cb |-> {}], grown)
        /\ tot_val_len' = tot_val_len + IF copied THEN ValSpace(v) ELSE 0
        /\ Reply(IF copied THEN 0 ELSE -1)
  BY DEF Add
<1> DEFINE w == IF copied THEN v ELSE NoVal
           e == [key |-> k, val |-> w, cb |-> {}]
<1>2. w \in Copies(v) /\ w \in Values \cup {NoVal} /\ copied \in BOOLEAN
  BY CopyFacts
<1>3. e \in Entry /\ e.key = k /\ e.val = w
  BY <1>2 DEF Entry
<1>4. ValOf[e] = IF copied THEN ValSpace(v) ELSE 0
  <2>1. ValOf[e] = IF e.val = NoVal THEN 0 ELSE ValSpace(e.val)
    BY <1>3 DEF ValOf
  <2>2. e.val = IF copied THEN v ELSE NoVal
    BY <1>3
  <2>3. v # NoVal
    BY CopyFacts
  <2> HIDE DEF e
  <2> QED
    BY <2>1, <2>2, <2>3
<1>5. ValSpace(v) \in Nat /\ tot_val_len \in Int /\ MaxValLen \in Nat
  BY Costs, McfgAssumption DEF MInv
<1>6. /\ tot_val_len' \in Int /\ tot_val_len' <= MaxValLen
      /\ tot_val_len' >= tot_val_len + ValOf[e]
  <2>1. tot_val_len' = tot_val_len + ValOf[e]
    BY <1>1, <1>4
  <2>2. ValOf[e] \in Nat /\ ValOf[e] <= ValSpace(v)
    BY <1>2, <1>4, <1>5
  <2> HIDE DEF e
  <2> QED
    BY <1>5, <2>1, <2>2
<1>7. ret' \in {0, -1} /\ Insert(k, e, grown) /\ Missing(k) /\ tot_key_len + KeySpace(k) <= MaxKeyLen
  BY <1>1 DEF Reply
<1>8. MInv' /\ Entries' = Entries \cup {e} /\ \A x \in Entries : x.key # k
  <2> HIDE DEF e
  <2> QED
    BY <1>3, <1>6, <1>7, Added
<1> QED
  BY <1>2, <1>3, <1>8

LEMMA RegisterStep ==
  ASSUME MInv, NEW k \in Keys, NEW cb \in Callbacks, Register(k, cb)
  PROVE  /\ MInv'
         /\ \/ \E x \in Entries :
                  /\ Matches(k, x.key) /\ Rehooked(x, cb) \in Entry
                  /\ Entries' = Replace(Entries, x, Rehooked(x, cb))
            \/ /\ \A x \in Entries : x.key # k
               /\ [key |-> k, val |-> NoVal, cb |-> {cb}] \in Entry
               /\ Entries' = Entries \cup {[key |-> k, val |-> NoVal, cb |-> {cb}]}
            \/ Entries' = Entries
<1>0. tot_val_len \in Int /\ tot_val_len <= MaxValLen /\ tot_key_len \in Int
  BY DEF MInv
<1>1. CASE \E i \in DOMAIN buddy[Home(k)] :
             /\ Finds(k, i)
             /\ buddy' = [buddy EXCEPT ![Home(k)][i].cb = @ \cup {cb}]
             /\ Reply(0)
             /\ UNCHANGED <<buddy_size, entry_num, tot_key_len, tot_val_len>>
  <2>1. PICK i \in DOMAIN buddy[Home(k)] :
          /\ Finds(k, i)
          /\ buddy' = [buddy EXCEPT ![Home(k)][i].cb = @ \cup {cb}]
          /\ Reply(0)
          /\ UNCHANGED <<buddy_size, entry_num, tot_key_len, tot_val_len>>
    BY <1>1
  <2> DEFINE x == buddy[Home(k)][i]
             y == Rehooked(x, cb)
  <2>2. i \in 1 .. Len(buddy[Home(k)]) /\ x \in Entries /\ x \in Entry /\ Matches(k, x.key)
    BY <2>1, FoundEntry
  <2>3. y \in Entry /\ y.key = x.key /\ y.val = x.val
    BY <2>2 DEF Rehooked, Entry
  <2>4. buddy' = [buddy EXCEPT ![Home(k)] = [buddy[Home(k)] EXCEPT ![i] = y]]
    <3>1. [x EXCEPT !.cb = x.cb \cup {cb}] = y
      BY <2>2, MoreHooks, Zenon
    <3>2. buddy' = [buddy EXCEPT ![Home(k)] =
                      [buddy[Home(k)] EXCEPT ![i] = [x EXCEPT !.cb = x.cb \cup {cb}]]]
      BY <2>1
    <3> QED
      BY <3>1, <3>2
  <2>5. tot_val_len' \in Int /\ tot_val_len' <= MaxValLen
        /\ tot_val_len' >= tot_val_len - ValOf[x] + ValOf[y]
    <3>1. ValOf[y] = ValOf[x] /\ ValOf[x] \in Nat
      BY <2>2, <2>3, Costs DEF ValOf
    <3>2. tot_val_len' = tot_val_len
      BY <2>1
    <3> HIDE DEF x, y
    <3> QED
      BY <1>0, <3>1, <3>2
  <2>6. ret' \in {0, -1} /\ UNCHANGED <<buddy_size, entry_num, tot_key_len>> /\ Finds(k, i)
    BY <2>1 DEF Reply
  <2>7. MInv' /\ Entries' = Replace(Entries, x, y)
    <3> HIDE DEF y
    <3> QED
      BY <2>3, <2>4, <2>5, <2>6, Changed
  <2> QED
    BY <2>2, <2>3, <2>7
<1>2. CASE \E grown \in Mallocs :
             /\ Missing(k)
             /\ tot_key_len + KeySpace(k) <= MaxKeyLen
             /\ Insert(k, [key |-> k, val |-> NoVal, cb |-> {cb}], grown)
             /\ Reply(0)
             /\ UNCHANGED tot_val_len
  <2>1. PICK grown \in Mallocs :
          /\ Missing(k)
          /\ tot_key_len + KeySpace(k) <= MaxKeyLen
          /\ Insert(k, [key |-> k, val |-> NoVal, cb |-> {cb}], grown)
          /\ Reply(0)
          /\ UNCHANGED tot_val_len
    BY <1>2
  <2> DEFINE e == [key |-> k, val |-> NoVal, cb |-> {cb}]
  <2>2. e \in Entry /\ e.key = k /\ e.val = NoVal
    BY DEF Entry
  <2>3. ValOf[e] = 0
    BY <2>2, EntrySpace
  <2>4. /\ tot_val_len' \in Int /\ tot_val_len' <= MaxValLen
        /\ tot_val_len' >= tot_val_len + ValOf[e]
    <3> HIDE DEF e
    <3> QED
      BY <1>0, <2>1, <2>3
  <2>5. ret' \in {0, -1} /\ Insert(k, e, grown) /\ Missing(k) /\ tot_key_len + KeySpace(k) <= MaxKeyLen
    BY <2>1 DEF Reply
  <2>6. MInv' /\ Entries' = Entries \cup {e} /\ \A x \in Entries : x.key # k
    <3> HIDE DEF e
    <3> QED
      BY <2>2, <2>4, <2>5, Added
  <2> QED
    BY <2>2, <2>6
<1>3. CASE Fail
  <2>1. UNCHANGED <<buddy_size, buddy, entry_num, tot_key_len, tot_val_len>> /\ ret' \in {0, -1}
    BY <1>3 DEF Fail, Reply
  <2> QED
    BY <2>1, SameEntries
<1> QED
  BY <1>1, <1>2, <1>3, Zenon DEF Register

LEMMA UnsetStep ==
  ASSUME MInv, NEW k \in Keys, UnsetKey(k)
  PROVE  /\ MInv'
         /\ \/ \E x \in Entries : Matches(k, x.key) /\ Entries' = Entries \ {x}
            \/ Entries' = Entries
<1>1. CASE \E i \in DOMAIN buddy[Home(k)] :
             /\ Finds(k, i)
             /\ buddy' = [buddy EXCEPT ![Home(k)] = RemoveAt(@, i)]
             /\ tot_key_len' = tot_key_len - KeyCredit(buddy[Home(k)][i].key)
             /\ tot_val_len' = tot_val_len - ValCredit(buddy[Home(k)][i].val)
             /\ entry_num' = entry_num - 1
             /\ Reply(0)
             /\ UNCHANGED buddy_size
  <2>1. PICK i \in DOMAIN buddy[Home(k)] :
          /\ Finds(k, i)
          /\ buddy' = [buddy EXCEPT ![Home(k)] = RemoveAt(@, i)]
          /\ tot_key_len' = tot_key_len - KeyCredit(buddy[Home(k)][i].key)
          /\ tot_val_len' = tot_val_len - ValCredit(buddy[Home(k)][i].val)
          /\ entry_num' = entry_num - 1
          /\ Reply(0)
          /\ UNCHANGED buddy_size
    BY <1>1
  <2>2. buddy[Home(k)][i] \in Entries /\ Matches(k, buddy[Home(k)][i].key)
    BY <2>1, FoundEntry
  <2>3. ret' \in {0, -1} /\ buddy_size' = buddy_size
    BY <2>1 DEF Reply
  <2>4. MInv' /\ Entries' = Entries \ {buddy[Home(k)][i]}
    BY <2>1, <2>3, Removed
  <2> QED
    BY <2>2, <2>4
<1>2. CASE /\ Reply(0)
           /\ UNCHANGED <<buddy_size, buddy, entry_num, tot_key_len, tot_val_len>>
  <2>1. ret' \in {0, -1}
    BY <1>2 DEF Reply
  <2> QED
    BY <1>2, <2>1, SameEntries
<1> QED
  BY <1>1, <1>2, Zenon DEF UnsetKey

LEMMA SetStep ==
  ASSUME MInv, NEW k \in Keys, NEW v \in Values, SetString(k, v) \/ Write(k, v)
  PROVE  /\ MInv'
         /\ \/ \E x \in Entries, w \in Copies(v) :
                  /\ Matches(k, x.key) /\ Revalued(x, w) \in Entry
                  /\ Entries' = Replace(Entries, x, Revalued(x, w))
            \/ /\ \A x \in Entries : x.key # k
               /\ \E w \in Copies(v) :
                     /\ [key |-> k, val |-> w, cb |-> {}] \in Entry
                     /\ Entries' = Entries \cup {[key |-> k, val |-> w, cb |-> {}]}
            \/ Entries' = Entries
<1>1. tot_val_len + ValSpace(v) <= MaxValLen /\ (Overwrite(k, v) \/ Add(k, v) \/ Fail)
  BY DEF SetString, Write
<1>2. CASE Overwrite(k, v)
  BY <1>1, <1>2, OverwriteStep
<1>3. CASE Add(k, v)
  BY <1>1, <1>3, AddStep
<1>4. CASE Fail
  <2>1. UNCHANGED <<buddy_size, buddy, entry_num, tot_key_len, tot_val_len>> /\ ret' \in {0, -1}
    BY <1>4 DEF Fail, Reply
  <2> QED
    BY <2>1, SameEntries
<1> QED
  BY <1>1, <1>2, <1>3, <1>4

-----------------------------------------------------------------------------
(***************************************************************************)
(* MInv is inductive, and implies what the runs check.                     *)
(***************************************************************************)
LEMMA MInvInit == Init => MInv
<1> SUFFICES ASSUME Init PROVE MInv
  OBVIOUS
<1>1. buddy_size \in Nat \ {0} /\ buddy = [c \in 0 .. buddy_size - 1 |-> <<>>]
  BY McfgAssumption DEF Init
<1>2. \A c \in 0 .. buddy_size - 1 : buddy[c] = <<>>
  BY <1>1
<1>3. \A c \in 0 .. buddy_size - 1 : ChainOK(<<>>, c, buddy_size) /\ Elems(<<>>) = {}
  BY DEF ChainOK, Elems
<1>4. Sound(buddy, buddy_size) /\ In(buddy, buddy_size) = {}
  <2>1. buddy = [c \in 0 .. buddy_size - 1 |-> buddy[c]]
    BY <1>1
  <2>2. \A c \in 0 .. buddy_size - 1 : ChainOK(buddy[c], c, buddy_size) /\ Elems(buddy[c]) = {}
    BY <1>2, <1>3
  <2> QED
    BY <2>1, <2>2 DEF Sound, In
<1>5. Entries = {}
  <2>1. UNION {Range(buddy[c]) : c \in 0 .. buddy_size - 1} = In(buddy, buddy_size)
    BY <1>4, EntriesIn, Zenon
  <2> QED
    BY <1>4, <2>1, Zenon DEF Entries, Chains
<1>6. Cardinality({}) = 0 /\ KeySum({}) = 0 /\ ValSum({}) = 0
  <2>1. {} \in SUBSET Entry
    OBVIOUS
  <2>2. KeySum({}) = 0 /\ ValSum({}) = 0
    BY <2>1, FS_EmptySet, EntrySpace, SumRec DEF KeySum, ValSum
  <2> QED
    BY <2>2, FS_EmptySet
<1>7. MaxKeyLen \in Nat /\ MaxValLen \in Nat
  BY McfgAssumption
<1> QED
  BY <1>1, <1>4, <1>5, <1>6, <1>7 DEF MInv, Init

LEMMA MInvNext == MInv /\ [Next]_vars => MInv'
<1> SUFFICES ASSUME MInv, [Next]_vars PROVE MInv'
  OBVIOUS
<1>1. ASSUME NEW k \in Keys, NEW v \in Values, SetString(k, v) \/ Write(k, v) PROVE MInv'
  BY <1>1, SetStep
<1>2. ASSUME NEW k \in Hooked, NEW cb \in Callbacks, Register(k, cb) PROVE MInv'
  BY <1>2, RegisterStep, McfgAssumption
<1>3. ASSUME NEW k \in Keys, UnsetKey(k) PROVE MInv'
  BY <1>3, UnsetStep
<1>4. CASE UNCHANGED vars
  <2>1. UNCHANGED <<buddy_size, buddy, entry_num, tot_key_len, tot_val_len>> /\ ret' \in {0, -1}
    BY <1>4 DEF vars, MInv
  <2> QED
    BY <2>1, SameEntries
<1> QED
  BY <1>1, <1>2, <1>3, <1>4 DEF Next

LEMMA MInvTable == MInv => TableInv
<1> SUFFICES ASSUME MInv PROVE TableInv
  OBVIOUS
<1>1. /\ buddy_size \in Nat \ {0} /\ Sound(buddy, buddy_size)
      /\ Entries = In(buddy, buddy_size) /\ Keyed(Entries)
  BY Table
<1>2. \A c \in Chains : ChainOK(buddy[c], c, buddy_size)
  BY <1>1 DEF Sound, Chains
<1>3. TypeOK
  <2>1. \A c \in Chains : buddy[c] \in Seq(Entry)
    BY <1>2 DEF ChainOK
  <2>2. buddy = [c \in Chains |-> buddy[c]]
    BY <1>1 DEF Sound, Chains
  <2>3. buddy \in [Chains -> Seq(Entry)]
    BY <2>1, <2>2
  <2>4. /\ Cardinality(Entries) \in Nat /\ Cardinality(Entries) <= Cardinality(Keys)
        /\ KeySum(Entries) \in Nat /\ ValSum(Entries) \in Nat /\ Cardinality(Keys) \in Nat
    BY <1>1, KeyedFinite, FS_CardinalityType, McfgAssumption
  <2> QED
    BY <1>1, <2>3, <2>4, McfgAssumption DEF TypeOK, MInv
<1>4. InHomeChain
  BY <1>2 DEF InHomeChain, ChainOK, Home
<1>5. OneEntryPerKey
  <2>1. ASSUME NEW c \in Chains, NEW d \in Chains, NEW i \in DOMAIN buddy[c],
               NEW j \in DOMAIN buddy[d], buddy[c][i].key = buddy[d][j].key
        PROVE  c = d /\ i = j
    <3>1. c = d
      BY <1>4, <2>1 DEF InHomeChain
    <3> QED
      BY <1>2, <2>1, <3>1 DEF ChainOK
  <2> QED
    BY <2>1 DEF OneEntryPerKey, MInv
<1> QED
  BY <1>3, <1>4, <1>5 DEF TableInv

\* Every entry sits in the chain the search for its key looks in, also after
\* the table has doubled, no key has two, and entry_num counts them, for every
\* set of keys, every hash and every number of chains (dict_get_entry,
\* dict_unset_entry).
THEOREM TableRight == Spec => []TableInv
<1>1. MInv /\ [Next]_vars => MInv'
  BY MInvNext
<1> QED
  BY <1>1, MInvInit, MInvTable, PTL DEF Spec

-----------------------------------------------------------------------------
(***************************************************************************)
(* A key without a '-' resolves to the entry of that key, wherever it is.  *)
(***************************************************************************)
OfKey(E, k) == {e \in E : e.key = k}

LEMMA OfKeyFacts ==
  ASSUME NEW E, Keyed(E), NEW k
  PROVE  /\ \A x \in E : OfKey(E, x.key) = {x}
         /\ \A x \in E : \A y : y.key = x.key =>
               OfKey(Replace(E, x, y), k) = IF k = x.key THEN {y} ELSE OfKey(E, k)
         /\ \A y : (\A x \in E : x.key # y.key) =>
               /\ OfKey(E, y.key) = {}
               /\ OfKey(E \cup {y}, k) = IF k = y.key THEN {y} ELSE OfKey(E, k)
         /\ \A x \in E : OfKey(E \ {x}, k) = IF k = x.key THEN {} ELSE OfKey(E, k)
<1>1. \A x \in E : OfKey(E, x.key) = {x}
  BY DEF Keyed, OfKey
<1>2. ASSUME NEW x \in E, NEW y, y.key = x.key
      PROVE  OfKey(Replace(E, x, y), k) = IF k = x.key THEN {y} ELSE OfKey(E, k)
  BY <1>2 DEF Keyed, OfKey, Replace
<1>3. ASSUME NEW y, \A x \in E : x.key # y.key
      PROVE  /\ OfKey(E, y.key) = {}
             /\ OfKey(E \cup {y}, k) = IF k = y.key THEN {y} ELSE OfKey(E, k)
  BY <1>3 DEF OfKey
<1>4. ASSUME NEW x \in E
      PROVE  OfKey(E \ {x}, k) = IF k = x.key THEN {} ELSE OfKey(E, k)
  BY DEF Keyed, OfKey
<1> QED
  BY <1>1, <1>2, <1>3, <1>4

\* What a search for a plain key stops at in table t of n chains.
Search(t, n, k) ==
    {t[Hash[k] % n][i] : i \in {j \in DOMAIN t[Hash[k] % n] :
        /\ t[Hash[k] % n][j].key = k
        /\ \A m \in 1 .. j - 1 : t[Hash[k] % n][m].key # k}}

LEMMA SearchFinds ==
  ASSUME NEW t, NEW n, n \in Nat \ {0}, Sound(t, n), NEW k \in Keys
  PROVE  Search(t, n, k) = OfKey(In(t, n), k)
<1> DEFINE q == t[Hash[k] % n]
<1>1. Hash[k] % n \in 0 .. n - 1
  BY McfgAssumption, ModDouble
<1>2. ChainOK(q, Hash[k] % n, n)
  BY <1>1 DEF Sound
<1>3. DOMAIN q = 1 .. Len(q) /\ Len(q) \in Nat
  BY <1>2 DEF ChainOK
<1> HIDE DEF q
<1>4. \A e \in In(t, n) : e.key = k => \E i \in DOMAIN q : e = q[i]
  BY <1>3, InChain DEF Elems, q
<1>5. \A i \in DOMAIN q : q[i] \in In(t, n)
  <2>1. \A i \in DOMAIN q : q[i] \in Elems(q)
    BY <1>3 DEF Elems
  <2> QED
    BY <1>1, <2>1 DEF In, q
<1>6. \A i \in DOMAIN q, m \in DOMAIN q : q[i].key = q[m].key => i = m
  BY <1>2, <1>3 DEF ChainOK
<1>7. ASSUME NEW i \in DOMAIN q, q[i].key = k
      PROVE  \A m \in 1 .. i - 1 : q[m].key # k
  <2> SUFFICES ASSUME NEW m \in 1 .. i - 1, q[m].key = k PROVE FALSE
    OBVIOUS
  <2>1. m \in DOMAIN q /\ m # i
    BY <1>3
  <2> QED
    BY <1>6, <1>7, <2>1
<1>8. Search(t, n, k) = {q[i] : i \in {j \in DOMAIN q : q[j].key = k}}
  BY <1>7 DEF Search, q
<1> QED
  BY <1>4, <1>5, <1>8 DEF OfKey

LEMMA PlainSearch ==
  ASSUME NEW k \in PlainKeys
  PROVE  /\ Resolve(k) = Search(buddy, buddy_size, k)
         /\ Resolve(k)' = Search(buddy', buddy_size', k)
<1>1. \A key : Matches(k, key) <=> key = k
  BY DEF PlainKeys, Matches
<1>2. Resolve(k) = Search(buddy, buddy_size, k)
  BY <1>1 DEF Resolve, Finds, Home, Search
<1>3. Resolve(k)' = Search(buddy', buddy_size', k)
  BY <1>1 DEF Resolve, Finds, Home, Search
<1> QED
  BY <1>2, <1>3

LEMMA PlainResolve ==
  ASSUME NEW k \in PlainKeys
  PROVE  /\ MInv => Resolve(k) = OfKey(Entries, k)
         /\ MInv' => Resolve(k)' = OfKey(Entries', k)
<1>1. k \in Keys
  BY DEF PlainKeys
<1>2. ASSUME MInv PROVE Resolve(k) = OfKey(Entries, k)
  <2>1. buddy_size \in Nat \ {0} /\ Sound(buddy, buddy_size) /\ Entries = In(buddy, buddy_size)
    BY <1>2, Table
  <2>2. Search(buddy, buddy_size, k) = OfKey(In(buddy, buddy_size), k)
    BY <1>1, <2>1, SearchFinds, Zenon
  <2> QED
    BY <2>1, <2>2, PlainSearch, Zenon
<1>3. ASSUME MInv' PROVE Resolve(k)' = OfKey(Entries', k)
  <2>1. buddy_size' \in Nat \ {0} /\ Sound(buddy', buddy_size')
    BY <1>3 DEF MInv
  <2>2. Entries' = In(buddy', buddy_size')
    BY <2>1, NewTable
  <2>3. Search(buddy', buddy_size', k) = OfKey(In(buddy', buddy_size'), k)
    BY <1>1, <2>1, SearchFinds, Zenon
  <2> QED
    BY <2>2, <2>3, PlainSearch, Zenon
<1> QED
  BY <1>2, <1>3

\* A call with key q disturbs no plain key but q and those of q's stem.
Touches(q, k) == q = k \/ (q \in Ranged /\ k \in Begins[q])

LEMMA MatchTouches ==
  ASSUME NEW q \in Keys, NEW key, Matches(q, key)
  PROVE  Touches(q, key)
BY DEF Matches, Touches

LEMMA ReplaceTouches ==
  ASSUME MInv, MInv', NEW q \in Keys, NEW x \in Entries, Matches(q, x.key), NEW y, y.key = x.key,
         Entries' = Replace(Entries, x, y), NEW k \in PlainKeys, Resolve(k)' # Resolve(k)
  PROVE  Touches(q, k)
<1>1. OfKey(Entries', k) # OfKey(Entries, k)
  BY PlainResolve, Zenon
<1>2. k = x.key
  BY <1>1, Table, OfKeyFacts
<1> QED
  BY <1>2, MatchTouches

LEMMA AddTouches ==
  ASSUME MInv, MInv', NEW y, \A x \in Entries : x.key # y.key,
         Entries' = Entries \cup {y}, NEW k \in PlainKeys, Resolve(k)' # Resolve(k)
  PROVE  Touches(y.key, k)
<1>1. OfKey(Entries', k) # OfKey(Entries, k)
  BY PlainResolve, Zenon
<1>3. k = y.key
  BY <1>1 DEF OfKey
<1> QED
  BY <1>3 DEF Touches

LEMMA RemoveTouches ==
  ASSUME MInv, MInv', NEW q \in Keys, NEW x \in Entries, Matches(q, x.key),
         Entries' = Entries \ {x}, NEW k \in PlainKeys, Resolve(k)' # Resolve(k)
  PROVE  Touches(q, k)
<1>1. OfKey(Entries', k) # OfKey(Entries, k)
  BY PlainResolve, Zenon
<1>3. k = x.key
  BY <1>1 DEF OfKey
<1> QED
  BY <1>3, MatchTouches

LEMMA SameResolve ==
  ASSUME MInv, MInv', Entries' = Entries, NEW k \in PlainKeys
  PROVE  Resolve(k)' = Resolve(k)
BY PlainResolve

LEMMA PlainNext ==
  ASSUME MInv, [Next]_vars, NEW k \in PlainKeys, Resolve(k)' # Resolve(k)
  PROVE  \E q \in {k} \cup {r \in Ranged : k \in Begins[r]} :
            \/ \E v \in Values : SetString(q, v) \/ Write(q, v)
            \/ \E cb \in Callbacks : Register(q, cb)
            \/ UnsetKey(q)
<1>0. MInv'
  BY MInvNext
<1>1. ASSUME NEW q \in Keys, Touches(q, k)
      PROVE  q \in {k} \cup {r \in Ranged : k \in Begins[r]}
  BY <1>1 DEF Touches
<1>2. ASSUME NEW q \in Keys, NEW v \in Values, SetString(q, v) \/ Write(q, v)
      PROVE  Touches(q, k)
  <2>1. CASE \E x \in Entries, w \in Copies(v) :
               /\ Matches(q, x.key) /\ Revalued(x, w) \in Entry
               /\ Entries' = Replace(Entries, x, Revalued(x, w))
    <3>1. PICK x \in Entries, w \in Copies(v) :
            /\ Matches(q, x.key) /\ Revalued(x, w) \in Entry
            /\ Entries' = Replace(Entries, x, Revalued(x, w))
      BY <2>1
    <3>2. Revalued(x, w).key = x.key
      BY DEF Revalued
    <3> QED
      BY <1>0, <3>1, <3>2, ReplaceTouches
  <2>2. CASE /\ \A x \in Entries : x.key # q
             /\ \E w \in Copies(v) :
                   /\ [key |-> q, val |-> w, cb |-> {}] \in Entry
                   /\ Entries' = Entries \cup {[key |-> q, val |-> w, cb |-> {}]}
    <3>1. PICK w \in Copies(v) : Entries' = Entries \cup {[key |-> q, val |-> w, cb |-> {}]}
      BY <2>2
    <3> DEFINE y == [key |-> q, val |-> w, cb |-> {}]
    <3>2. y.key = q
      OBVIOUS
    <3>3. Entries' = Entries \cup {y}
      BY <3>1
    <3> HIDE DEF y
    <3> QED
      BY <1>0, <2>2, <3>2, <3>3, AddTouches
  <2>3. CASE Entries' = Entries
    BY <1>0, <2>3, SameResolve
  <2> QED
    BY <1>2, <2>1, <2>2, <2>3, SetStep
<1>3. ASSUME NEW q \in Keys, NEW cb \in Callbacks, Register(q, cb)
      PROVE  Touches(q, k)
  <2>1. CASE \E x \in Entries :
               /\ Matches(q, x.key) /\ Rehooked(x, cb) \in Entry
               /\ Entries' = Replace(Entries, x, Rehooked(x, cb))
    <3>1. PICK x \in Entries :
            /\ Matches(q, x.key) /\ Rehooked(x, cb) \in Entry
            /\ Entries' = Replace(Entries, x, Rehooked(x, cb))
      BY <2>1
    <3>2. Rehooked(x, cb).key = x.key
      BY DEF Rehooked
    <3> QED
      BY <1>0, <3>1, <3>2, ReplaceTouches
  <2>2. CASE /\ \A x \in Entries : x.key # q
             /\ [key |-> q, val |-> NoVal, cb |-> {cb}] \in Entry
             /\ Entries' = Entries \cup {[key |-> q, val |-> NoVal, cb |-> {cb}]}
    <3> DEFINE y == [key |-> q, val |-> NoVal, cb |-> {cb}]
    <3>2. y.key = q
      OBVIOUS
    <3>3. Entries' = Entries \cup {y}
      BY <2>2
    <3> HIDE DEF y
    <3> QED
      BY <1>0, <2>2, <3>2, <3>3, AddTouches
  <2>3. CASE Entries' = Entries
    BY <1>0, <2>3, SameResolve
  <2> QED
    BY <1>3, <2>1, <2>2, <2>3, RegisterStep
<1>4. ASSUME NEW q \in Keys, UnsetKey(q)
      PROVE  Touches(q, k)
  <2>1. CASE \E x \in Entries : Matches(q, x.key) /\ Entries' = Entries \ {x}
    BY <1>0, <2>1, RemoveTouches
  <2>2. CASE Entries' = Entries
    BY <1>0, <2>2, SameResolve
  <2> QED
    BY <1>4, <2>1, <2>2, UnsetStep
<1>5. CASE \E q \in Keys, v \in Values : SetString(q, v) \/ Write(q, v)
  BY <1>1, <1>2, <1>5
<1>6. CASE \E q \in Hooked, cb \in Callbacks : Register(q, cb)
  BY <1>1, <1>3, <1>6, McfgAssumption
<1>7. CASE \E q \in Keys : UnsetKey(q)
  BY <1>1, <1>4, <1>7
<1>8. CASE UNCHANGED vars
  <2>1. UNCHANGED <<buddy_size, buddy, entry_num, tot_key_len, tot_val_len>> /\ ret' \in {0, -1}
    BY <1>8 DEF vars, MInv
  <2> QED
    BY <1>0, <2>1, SameEntries, SameResolve
<1> QED
  BY <1>5, <1>6, <1>7, <1>8 DEF Next

\* What a key without a '-' resolves to changes only by a call with it, or with
\* a ranged key whose stem it begins with, whatever collides with it in its
\* chain and however often the table grows (dict_get_entry).
THEOREM PlainKept == Spec => PlainStable
<1> DEFINE Kept ==
        \A k \in Keys \ Ranged :
            Resolve(k)' # Resolve(k) =>
                \E q \in {k} \cup {r \in Ranged : k \in Begins[r]} :
                    \/ \E v \in Values : SetString(q, v) \/ Write(q, v)
                    \/ \E cb \in Callbacks : Register(q, cb)
                    \/ UnsetKey(q)
<1>1. MInv /\ [Next]_vars => [Kept]_vars
  BY PlainNext DEF PlainKeys
<1>2. MInv /\ [Next]_vars => MInv'
  BY MInvNext
<1> QED
  BY <1>1, <1>2, MInvInit, PTL DEF Spec, PlainStable

-----------------------------------------------------------------------------
(***************************************************************************)
(* The dictionary implements the map of McfgMap: the map of a set of       *)
(* entries, and what each change of the set makes of it.                   *)
(***************************************************************************)
Pairs(R) == {[val |-> e.val, cb |-> e.cb] : e \in R}
IsPut(b, a, k, R) == b = [a EXCEPT ![k] = R]
MapOf(E) == [k \in PlainKeys |-> Pairs(OfKey(E, k))]
MapOfTable == [k \in PlainKeys |-> {[val |-> e.val, cb |-> e.cb] : e \in Resolve(k)}]

LEMMA TableMap ==
  /\ MInv => MapOfTable = MapOf(Entries)
  /\ MInv' => MapOfTable' = MapOf(Entries')
<1>1. ASSUME MInv PROVE MapOfTable = MapOf(Entries)
  <2>1. \A k \in PlainKeys : Resolve(k) = OfKey(Entries, k)
    BY <1>1, PlainResolve
  <2> QED
    BY <2>1, Zenon DEF MapOfTable, MapOf, Pairs
<1>2. ASSUME MInv' PROVE MapOfTable' = MapOf(Entries')
  <2>1. \A k \in PlainKeys : Resolve(k)' = OfKey(Entries', k)
    BY <1>2, PlainResolve
  <2> QED
    BY <2>1, Zenon DEF MapOfTable, MapOf, Pairs
<1> QED
  BY <1>1, <1>2

LEMMA PairsOfOne ==
  ASSUME NEW e
  PROVE  Pairs({e}) = {[val |-> e.val, cb |-> e.cb]} /\ Pairs({}) = {}
BY DEF Pairs

\* F has the entries R of the plain key "key", and E's of every other.
Differs(E, F, key, R) ==
    \A k \in PlainKeys : OfKey(F, k) = IF k = key THEN R ELSE OfKey(E, k)

LEMMA MapChange ==
  ASSUME NEW E, NEW F, NEW key, NEW R, Differs(E, F, key, R)
  PROVE  IsPut(MapOf(F), MapOf(E), key, Pairs(R))
<1>1. \A k \in PlainKeys : Pairs(OfKey(F, k)) = IF k = key THEN Pairs(R) ELSE Pairs(OfKey(E, k))
  <2> TAKE k \in PlainKeys
  <2>1. CASE k = key
    BY <2>1, Zenon DEF Differs
  <2>2. CASE k # key
    BY <2>2, Zenon DEF Differs
  <2> QED
    BY <2>1, <2>2
<1> QED
  BY <1>1 DEF MapOf, IsPut

LEMMA MapReplace ==
  ASSUME NEW E, Keyed(E), NEW x \in E, NEW y, y.key = x.key
  PROVE  /\ IsPut(MapOf(Replace(E, x, y)), MapOf(E), x.key, {[val |-> y.val, cb |-> y.cb]})
         /\ x.key \in PlainKeys => MapOf(E)[x.key] = {[val |-> x.val, cb |-> x.cb]}
<1>1. Differs(E, Replace(E, x, y), x.key, {y})
  BY OfKeyFacts DEF Differs
<1>2. IsPut(MapOf(Replace(E, x, y)), MapOf(E), x.key, Pairs({y}))
  BY <1>1, MapChange, Zenon
<1>3. OfKey(E, x.key) = {x}
  BY OfKeyFacts
<1>4. x.key \in PlainKeys => MapOf(E)[x.key] = Pairs({x})
  BY <1>3, Zenon DEF MapOf
<1> QED
  BY <1>2, <1>4, PairsOfOne, Zenon

LEMMA MapAdd ==
  ASSUME NEW E, Keyed(E), NEW y, \A x \in E : x.key # y.key
  PROVE  /\ IsPut(MapOf(E \cup {y}), MapOf(E), y.key, {[val |-> y.val, cb |-> y.cb]})
         /\ y.key \in PlainKeys => MapOf(E)[y.key] = {}
<1> DEFINE F == E \cup {y}
<1>1. Differs(E, F, y.key, {y})
  BY DEF OfKey, Differs
<1>2. OfKey(E, y.key) = {}
  BY DEF OfKey
<1> HIDE DEF F
<1>3. IsPut(MapOf(F), MapOf(E), y.key, Pairs({y}))
  BY <1>1, MapChange, Zenon
<1>4. y.key \in PlainKeys => MapOf(E)[y.key] = Pairs({})
  BY <1>2, Zenon DEF MapOf
<1> QED
  BY <1>3, <1>4, PairsOfOne, Zenon DEF F

LEMMA MapRemove ==
  ASSUME NEW E, Keyed(E), NEW x \in E
  PROVE  IsPut(MapOf(E \ {x}), MapOf(E), x.key, {})
<1> DEFINE F == E \ {x}
<1>1. Differs(E, F, x.key, {})
  BY DEF OfKey, Keyed, Differs
<1> HIDE DEF F
<1>2. IsPut(MapOf(F), MapOf(E), x.key, Pairs({}))
  BY <1>1, MapChange, Zenon
<1> QED
  BY <1>2, PairsOfOne, Zenon DEF F

\* The steps of the map, on two of its values.
HooksIn(a, k) == UNION {e.cb : e \in a[k]}
MapStep(a, b) ==
    \/ b = a
    \/ \E k \in PlainKeys :
          \/ \E v \in Values : IsPut(b, a, k, {[val |-> v, cb |-> HooksIn(a, k)]})
          \/ MallocFails /\ IsPut(b, a, k, {[val |-> NoVal, cb |-> HooksIn(a, k)]})
          \/ \E cb \in Callbacks :
                IsPut(b, a, k, {[val |-> v, cb |-> HooksIn(a, k) \cup {cb}] :
                        v \in IF a[k] = {} THEN {NoVal} ELSE {e.val : e \in a[k]}})
          \/ IsPut(b, a, k, {})

LEMMA MapStepMaps == MapStep(MapOfTable, MapOfTable') => [Map!Next]_(MapOfTable)
BY DEF MapStep, IsPut, HooksIn, MapOfTable, Map!Next, Map!Set, Map!SetFails, Map!Hook, Map!Unset,
       Map!Holds, Map!Hooks

LEMMA PutOutside ==
  ASSUME NEW E, NEW b, NEW key, key \notin PlainKeys, NEW R, IsPut(b, MapOf(E), key, R)
  PROVE  b = MapOf(E)
BY DEF IsPut, MapOf

LEMMA SetMaps ==
  ASSUME NEW E, Keyed(E), NEW x \in E, NEW v \in Values, NEW w \in Copies(v)
  PROVE  MapStep(MapOf(E), MapOf(Replace(E, x, Revalued(x, w))))
<1> DEFINE a == MapOf(E)
           b == MapOf(Replace(E, x, Revalued(x, w)))
<1>1. Revalued(x, w).key = x.key /\ Revalued(x, w).val = w /\ Revalued(x, w).cb = x.cb
  BY DEF Revalued
<1>2. IsPut(b, a, x.key, {[val |-> w, cb |-> x.cb]})
  <2>1. IsPut(b, a, x.key, {[val |-> Revalued(x, w).val, cb |-> Revalued(x, w).cb]})
    BY <1>1, MapReplace, Zenon
  <2> QED
    BY <1>1, <2>1, Zenon
<1>3. x.key \in PlainKeys => a[x.key] = {[val |-> x.val, cb |-> x.cb]}
  BY MapReplace, Zenon
<1>4. w = v \/ (MallocFails /\ w = NoVal)
  BY DEF Copies
<1>5. x.key \notin PlainKeys => b = a
  BY <1>2, PutOutside, Zenon
<1> SUFFICES MapStep(a, b)
  OBVIOUS
<1> HIDE DEF a, b
<1>6. CASE x.key \in PlainKeys
  <2>1. HooksIn(a, x.key) = x.cb
    <3> DEFINE p == [val |-> x.val, cb |-> x.cb]
    <3>1. p.val = x.val /\ p.cb = x.cb /\ a[x.key] = {p}
      BY <1>3, <1>6
    <3> HIDE DEF p
    <3>2. UNION {e.cb : e \in {p}} = p.cb /\ {e.val : e \in {p}} = {p.val}
      OBVIOUS
    <3> QED
      BY <3>1, <3>2 DEF HooksIn
  <2>2. IsPut(b, a, x.key, {[val |-> w, cb |-> HooksIn(a, x.key)]})
    BY <1>2, <2>1, Zenon
  <2> QED
    BY <1>4, <1>6, <2>2, Zenon DEF MapStep
<1>7. CASE x.key \notin PlainKeys
  BY <1>5, <1>7, Zenon DEF MapStep
<1> QED
  BY <1>6, <1>7

LEMMA SetNewMaps ==
  ASSUME NEW E, Keyed(E), NEW k, \A x \in E : x.key # k, NEW v \in Values, NEW w \in Copies(v)
  PROVE  MapStep(MapOf(E), MapOf(E \cup {[key |-> k, val |-> w, cb |-> {}]}))
<1> DEFINE y == [key |-> k, val |-> w, cb |-> {}]
           a == MapOf(E)
           b == MapOf(E \cup {y})
<1>1. y.key = k /\ y.val = w /\ y.cb = {}
  OBVIOUS
<1> HIDE DEF y
<1>2. IsPut(b, a, k, {[val |-> w, cb |-> {}]}) /\ (k \in PlainKeys => a[k] = {})
  <2>1. \A x \in E : x.key # y.key
    BY <1>1
  <2>2. /\ IsPut(b, a, y.key, {[val |-> y.val, cb |-> y.cb]})
        /\ y.key \in PlainKeys => a[y.key] = {}
    BY <2>1, MapAdd, Zenon
  <2> QED
    BY <1>1, <2>2, Zenon
<1>4. w = v \/ (MallocFails /\ w = NoVal)
  BY DEF Copies
<1>5. k \notin PlainKeys => b = a
  BY <1>2, PutOutside, Zenon
<1> SUFFICES MapStep(a, b)
  BY DEF y
<1> HIDE DEF a, b
<1>6. CASE k \in PlainKeys
  <2>1. HooksIn(a, k) = {}
    BY <1>2, <1>6 DEF HooksIn
  <2>2. IsPut(b, a, k, {[val |-> w, cb |-> HooksIn(a, k)]})
    BY <1>2, <2>1, Zenon
  <2> QED
    BY <1>4, <1>6, <2>2, Zenon DEF MapStep
<1>7. CASE k \notin PlainKeys
  BY <1>5, <1>7, Zenon DEF MapStep
<1> QED
  BY <1>6, <1>7

LEMMA HookMaps ==
  ASSUME NEW E, Keyed(E), NEW x \in E, NEW cb \in Callbacks
  PROVE  MapStep(MapOf(E), MapOf(Replace(E, x, Rehooked(x, cb))))
<1> DEFINE y == Rehooked(x, cb)
           a == MapOf(E)
           b == MapOf(Replace(E, x, y))
<1>1. y.key = x.key /\ y.val = x.val /\ y.cb = x.cb \cup {cb}
  BY DEF Rehooked
<1> HIDE DEF y
<1>2. IsPut(b, a, x.key, {[val |-> x.val, cb |-> x.cb \cup {cb}]})
  <2>1. IsPut(b, a, x.key, {[val |-> y.val, cb |-> y.cb]})
    BY <1>1, MapReplace, Zenon
  <2> QED
    BY <1>1, <2>1, Zenon
<1>3. x.key \in PlainKeys => a[x.key] = {[val |-> x.val, cb |-> x.cb]}
  BY MapReplace, Zenon
<1>5. x.key \notin PlainKeys => b = a
  BY <1>2, PutOutside, Zenon
<1> SUFFICES MapStep(a, b)
  BY DEF y
<1> HIDE DEF a, b
<1>6. CASE x.key \in PlainKeys
  <2>1. HooksIn(a, x.key) = x.cb /\ a[x.key] # {} /\ {e.val : e \in a[x.key]} = {x.val}
    <3> DEFINE p == [val |-> x.val, cb |-> x.cb]
    <3>1. p.val = x.val /\ p.cb = x.cb /\ a[x.key] = {p}
      BY <1>3, <1>6
    <3> HIDE DEF p
    <3>2. UNION {e.cb : e \in {p}} = p.cb /\ {e.val : e \in {p}} = {p.val}
      OBVIOUS
    <3> QED
      BY <3>1, <3>2 DEF HooksIn
  <2>2. (IF a[x.key] = {} THEN {NoVal} ELSE {e.val : e \in a[x.key]}) = {x.val}
    BY <2>1
  <2>3. {[val |-> v, cb |-> HooksIn(a, x.key) \cup {cb}] :
            v \in IF a[x.key] = {} THEN {NoVal} ELSE {e.val : e \in a[x.key]}}
          = {[val |-> x.val, cb |-> x.cb \cup {cb}]}
    BY <2>1, <2>2
  <2>4. IsPut(b, a, x.key, {[val |-> v, cb |-> HooksIn(a, x.key) \cup {cb}] :
            v \in IF a[x.key] = {} THEN {NoVal} ELSE {e.val : e \in a[x.key]}})
    BY <1>2, <2>3, Zenon
  <2> QED
    BY <1>6, <2>4, Zenon DEF MapStep
<1>7. CASE x.key \notin PlainKeys
  BY <1>5, <1>7, Zenon DEF MapStep
<1> QED
  BY <1>6, <1>7

LEMMA HookNewMaps ==
  ASSUME NEW E, Keyed(E), NEW k, \A x \in E : x.key # k, NEW cb \in Callbacks
  PROVE  MapStep(MapOf(E), MapOf(E \cup {[key |-> k, val |-> NoVal, cb |-> {cb}]}))
<1> DEFINE y == [key |-> k, val |-> NoVal, cb |-> {cb}]
           a == MapOf(E)
           b == MapOf(E \cup {y})
<1>1. y.key = k /\ y.val = NoVal /\ y.cb = {cb}
  OBVIOUS
<1> HIDE DEF y
<1>2. IsPut(b, a, k, {[val |-> NoVal, cb |-> {cb}]}) /\ (k \in PlainKeys => a[k] = {})
  <2>1. \A x \in E : x.key # y.key
    BY <1>1
  <2>2. /\ IsPut(b, a, y.key, {[val |-> y.val, cb |-> y.cb]})
        /\ y.key \in PlainKeys => a[y.key] = {}
    BY <2>1, MapAdd, Zenon
  <2> QED
    BY <1>1, <2>2, Zenon
<1>5. k \notin PlainKeys => b = a
  BY <1>2, PutOutside, Zenon
<1> SUFFICES MapStep(a, b)
  BY DEF y
<1> HIDE DEF a, b
<1>6. CASE k \in PlainKeys
  <2>1. HooksIn(a, k) = {} /\ a[k] = {}
    BY <1>2, <1>6 DEF HooksIn
  <2>3. {[val |-> v, cb |-> HooksIn(a, k) \cup {cb}] :
            v \in IF a[k] = {} THEN {NoVal} ELSE {e.val : e \in a[k]}}
          = {[val |-> NoVal, cb |-> {cb}]}
    BY <2>1
  <2>4. IsPut(b, a, k, {[val |-> v, cb |-> HooksIn(a, k) \cup {cb}] :
            v \in IF a[k] = {} THEN {NoVal} ELSE {e.val : e \in a[k]}})
    BY <1>2, <2>3, Zenon
  <2> QED
    BY <1>6, <2>4, Zenon DEF MapStep
<1>7. CASE k \notin PlainKeys
  BY <1>5, <1>7, Zenon DEF MapStep
<1> QED
  BY <1>6, <1>7

LEMMA UnsetMaps ==
  ASSUME NEW E, Keyed(E), NEW x \in E
  PROVE  MapStep(MapOf(E), MapOf(E \ {x}))
<1>1. IsPut(MapOf(E \ {x}), MapOf(E), x.key, {})
  BY MapRemove, Zenon
<1>2. CASE x.key \in PlainKeys
  BY <1>1, <1>2, Zenon DEF MapStep
<1>3. CASE x.key \notin PlainKeys
  <2>1. MapOf(E \ {x}) = MapOf(E)
    BY <1>1, <1>3, PutOutside, Zenon
  <2> QED
    BY <2>1, Zenon DEF MapStep
<1> QED
  BY <1>2, <1>3

LEMMA NextMaps == MInv /\ [Next]_vars => [Map!Next]_MapOfTable
<1> SUFFICES ASSUME MInv, [Next]_vars PROVE MapStep(MapOf(Entries), MapOf(Entries'))
  BY MInvNext, TableMap, MapStepMaps, Zenon
<1>0. Keyed(Entries)
  BY Table
<1>1. ASSUME Entries' = Entries PROVE MapStep(MapOf(Entries), MapOf(Entries'))
  BY <1>1, Zenon DEF MapStep
<1>2. ASSUME NEW k \in Keys, NEW v \in Values, SetString(k, v) \/ Write(k, v)
      PROVE  MapStep(MapOf(Entries), MapOf(Entries'))
  <2>1. CASE \E x \in Entries, w \in Copies(v) :
               /\ Matches(k, x.key) /\ Revalued(x, w) \in Entry
               /\ Entries' = Replace(Entries, x, Revalued(x, w))
    BY <1>0, <2>1, SetMaps, Zenon
  <2>2. CASE /\ \A x \in Entries : x.key # k
             /\ \E w \in Copies(v) :
                   /\ [key |-> k, val |-> w, cb |-> {}] \in Entry
                   /\ Entries' = Entries \cup {[key |-> k, val |-> w, cb |-> {}]}
    BY <1>0, <2>2, SetNewMaps, Zenon
  <2> QED
    BY <1>1, <1>2, <2>1, <2>2, SetStep
<1>3. ASSUME NEW k \in Keys, NEW cb \in Callbacks, Register(k, cb)
      PROVE  MapStep(MapOf(Entries), MapOf(Entries'))
  <2>1. CASE \E x \in Entries :
               /\ Matches(k, x.key) /\ Rehooked(x, cb) \in Entry
               /\ Entries' = Replace(Entries, x, Rehooked(x, cb))
    BY <1>0, <2>1, HookMaps, Zenon
  <2>2. CASE /\ \A x \in Entries : x.key # k
             /\ [key |-> k, val |-> NoVal, cb |-> {cb}] \in Entry
             /\ Entries' = Entries \cup {[key |-> k, val |-> NoVal, cb |-> {cb}]}
    BY <1>0, <2>2, HookNewMaps, Zenon
  <2> QED
    BY <1>1, <1>3, <2>1, <2>2, RegisterStep
<1>4. ASSUME NEW k \in Keys, UnsetKey(k)
      PROVE  MapStep(MapOf(Entries), MapOf(Entries'))
  <2>1. CASE \E x \in Entries : Matches(k, x.key) /\ Entries' = Entries \ {x}
    BY <1>0, <2>1, UnsetMaps, Zenon
  <2> QED
    BY <1>1, <1>4, <2>1, UnsetStep
<1>5. CASE \E k \in Hooked, cb \in Callbacks : Register(k, cb)
  BY <1>3, <1>5, McfgAssumption
<1>6. CASE UNCHANGED vars
  <2>1. UNCHANGED <<buddy_size, buddy, entry_num, tot_key_len, tot_val_len>> /\ ret' \in {0, -1}
    BY <1>6 DEF vars, MInv
  <2> QED
    BY <1>1, <2>1, SameEntries
<1> QED
  BY <1>2, <1>4, <1>5, <1>6 DEF Next

LEMMA InitMaps == Init => Map!Init
<1> SUFFICES ASSUME Init PROVE MapOfTable = [k \in PlainKeys |-> {}]
  BY DEF Map!Init, MapOfTable
<1>1. \A k \in PlainKeys : Home(k) \in 0 .. FirstSize - 1
  BY McfgAssumption, ModDouble DEF Init, Home, PlainKeys
<1>2. \A k \in PlainKeys : buddy[Home(k)] = <<>>
  BY <1>1 DEF Init
<1>3. \A k \in PlainKeys : Resolve(k) = {}
  BY <1>2 DEF Resolve
<1> QED
  BY <1>3 DEF MapOfTable

\* For the keys without a '-' the dictionary is a map from keys to entries:
\* collisions, the growth of the table, calls with ranged keys and calls that
\* run out of memory do to it what the calls of McfgMap do, or nothing, for
\* every hash, every size of the table and every set of keys.
THEOREM MapImplemented == Spec => ImplementsMap
<1>1. MInv /\ [Next]_vars => [Map!Next]_MapOfTable
  BY NextMaps
<1>2. MInv /\ [Next]_vars => MInv'
  BY MInvNext
<1> QED
  BY <1>1, <1>2, MInvInit, InitMaps, PTL DEF Spec, ImplementsMap, Map!Spec, MapOfTable

-----------------------------------------------------------------------------
(***************************************************************************)
(* The buffers: sums of sums, of a part, and of what an injection maps to. *)
(***************************************************************************)
LEMMA SumPlus ==
  ASSUME NEW S, IsFiniteSet(S), NEW f \in [S -> Int], NEW g \in [S -> Int]
  PROVE  SumFunctionOnSet([x \in S |-> f[x] + g[x]], S)
           = SumFunctionOnSet(f, S) + SumFunctionOnSet(g, S)
<1> DEFINE fg == [x \in S |-> f[x] + g[x]]
           A(s) == SumFunctionOnSet(f, s)
           B(s) == SumFunctionOnSet(g, s)
           C(s) == SumFunctionOnSet(fg, s)
           T == {n \in Nat : \A s \in SUBSET S : Cardinality(s) = n => C(s) = A(s) + B(s)}
<1>0. fg \in [S -> Int] /\ \A x \in S : fg[x] = f[x] + g[x]
  OBVIOUS
<1> HIDE DEF fg
<1>1. ASSUME NEW s \in SUBSET S
      PROVE  /\ IsFiniteSet(s) /\ Cardinality(s) \in Nat
             /\ A(s) \in Int /\ B(s) \in Int /\ C(s) \in Int
             /\ s = {} => A(s) = 0 /\ B(s) = 0 /\ C(s) = 0
             /\ s # {} => /\ Some(s) \in s
                          /\ A(s) = f[Some(s)] + A(s \ {Some(s)})
                          /\ B(s) = g[Some(s)] + B(s \ {Some(s)})
                          /\ C(s) = fg[Some(s)] + C(s \ {Some(s)})
  <2>1. IsFiniteSet(s) /\ Cardinality(s) \in Nat
    BY FS_Subset, FS_CardinalityType
  <2>2. /\ A(s) \in Int
        /\ s = {} => A(s) = 0
        /\ s # {} => Some(s) \in s /\ A(s) = f[Some(s)] + A(s \ {Some(s)})
    BY <2>1, SumRec
  <2>3. /\ B(s) \in Int
        /\ s = {} => B(s) = 0
        /\ s # {} => Some(s) \in s /\ B(s) = g[Some(s)] + B(s \ {Some(s)})
    BY <2>1, SumRec
  <2>4. /\ C(s) \in Int
        /\ s = {} => C(s) = 0
        /\ s # {} => Some(s) \in s /\ C(s) = fg[Some(s)] + C(s \ {Some(s)})
    <3>1. fg \in [S -> Int] /\ s \in SUBSET S /\ IsFiniteSet(s)
      BY <1>0, <2>1
    <3> QED
      BY <3>1, SumRec
  <2> HIDE DEF A, B, C
  <2> QED
    BY <2>1, <2>2, <2>3, <2>4
<1> HIDE DEF A, B, C
<1>2. 0 \in T
  <2>1. \A s \in SUBSET S : Cardinality(s) = 0 => s = {}
    BY <1>1, FS_EmptySet
  <2> SUFFICES ASSUME NEW s \in SUBSET S, Cardinality(s) = 0 PROVE C(s) = A(s) + B(s)
    OBVIOUS
  <2>2. A(s) = 0 /\ B(s) = 0 /\ C(s) = 0
    BY <2>1, <1>1
  <2> QED
    BY <2>2
<1>3. ASSUME NEW n \in Nat, n \in T PROVE n + 1 \in T
  <2> SUFFICES ASSUME NEW s \in SUBSET S, Cardinality(s) = n + 1 PROVE C(s) = A(s) + B(s)
    OBVIOUS
  <2>1. s # {}
    <3>1. Cardinality({}) = 0
      BY FS_EmptySet
    <3> QED
      BY <3>1
  <2>2. PICK z \in s : z = Some(s)
    BY <2>1, <1>1
  <2> DEFINE t == s \ {z}
  <2>3. A(s) = f[z] + A(t) /\ B(s) = g[z] + B(t) /\ C(s) = fg[z] + C(t)
    BY <2>1, <2>2, <1>1
  <2>4. t \in SUBSET S /\ Cardinality(t) = n
    <3>1. IsFiniteSet(s)
      BY <1>1
    <3>2. Cardinality(t) = Cardinality(s) - 1
      BY <3>1, FS_RemoveElement
    <3> QED
      BY <3>2
  <2> HIDE DEF t
  <2>5. C(t) = A(t) + B(t) /\ A(t) \in Int /\ B(t) \in Int /\ C(t) \in Int
    BY <2>4, <1>1, <1>3
  <2>6. f[z] \in Int /\ g[z] \in Int /\ fg[z] = f[z] + g[z]
    BY <1>0
  <2> QED
    BY <2>3, <2>5, <2>6
<1>4. Nat \subseteq T
  <2> HIDE DEF T
  <2> QED
    BY <1>2, <1>3, SetInduction
<1>5. C(S) = A(S) + B(S)
  BY <1>1, <1>4
<1> QED
  BY <1>5 DEF A, B, C, fg

\* What the elements of S are mapped to, one to one, costs no more than they do.
OneToOne(h, S) == \A x, y \in S : h[x] = h[y] => x = y
Image(h, S) == {h[x] : x \in S}

LEMMA SumImage ==
  ASSUME NEW S, IsFiniteSet(S), NEW f \in [S -> Int], NEW h, OneToOne(h, S),
         NEW C, Image(h, S) \subseteq C, NEW g \in [C -> Int],
         \A x \in S : g[h[x]] <= f[x]
  PROVE  /\ SumFunctionOnSet(g, Image(h, S)) \in Int
         /\ SumFunctionOnSet(g, Image(h, S)) <= SumFunctionOnSet(f, S)
<1> DEFINE A(s) == SumFunctionOnSet(f, s)
           B(s) == SumFunctionOnSet(g, Image(h, s))
           T == {n \in Nat : \A s \in SUBSET S : Cardinality(s) = n => B(s) <= A(s)}
<1>1. ASSUME NEW s \in SUBSET S
      PROVE  /\ IsFiniteSet(s) /\ Cardinality(s) \in Nat /\ A(s) \in Int
             /\ s = {} => A(s) = 0
             /\ s # {} => Some(s) \in s /\ A(s) = f[Some(s)] + A(s \ {Some(s)})
             /\ IsFiniteSet(Image(h, s)) /\ Image(h, s) \in SUBSET C
  <2>1. IsFiniteSet(s) /\ Cardinality(s) \in Nat
    BY FS_Subset, FS_CardinalityType
  <2>2. /\ A(s) \in Int
        /\ s = {} => A(s) = 0
        /\ s # {} => Some(s) \in s /\ A(s) = f[Some(s)] + A(s \ {Some(s)})
    <3>1. f \in [S -> Int] /\ s \in SUBSET S /\ IsFiniteSet(s)
      BY <2>1
    <3>2. SumFunctionOnSet(f, s) \in Int
      BY <3>1, SumRec
    <3>3. s = {} => SumFunctionOnSet(f, s) = 0
      BY <3>1, SumRec
    <3>4. s # {} => /\ Some(s) \in s
                    /\ SumFunctionOnSet(f, s) = f[Some(s)] + SumFunctionOnSet(f, s \ {Some(s)})
      BY <3>1, SumRec
    <3> QED
      BY <3>2, <3>3, <3>4
  <2>3. IsFiniteSet(Image(h, s)) /\ Image(h, s) \in SUBSET C
    <3> DEFINE r == [x \in s |-> h[x]]
    <3>1. r \in Surjection(s, Image(h, s))
      BY DEF Surjection, Image
    <3>2. IsFiniteSet(Image(h, s))
      BY <2>1, <3>1, FS_Surjection
    <3> QED
      BY <3>2 DEF Image
  <2> HIDE DEF A
  <2> QED
    BY <2>1, <2>2, <2>3
<1>2. 0 \in T
  <2> SUFFICES ASSUME NEW s \in SUBSET S, Cardinality(s) = 0 PROVE B(s) <= A(s)
    OBVIOUS
  <2>1. s = {}
    BY <1>1, FS_EmptySet
  <2>2. Image(h, s) = {}
    BY <2>1 DEF Image
  <2>3. B(s) = 0
    BY <2>2, <1>1, SumRec
  <2>4. A(s) = 0
    BY <2>1, <1>1
  <2> HIDE DEF A, B
  <2> QED
    BY <2>3, <2>4
<1>3. ASSUME NEW n \in Nat, n \in T PROVE n + 1 \in T
  <2> SUFFICES ASSUME NEW s \in SUBSET S, Cardinality(s) = n + 1 PROVE B(s) <= A(s)
    OBVIOUS
  <2>1. s # {}
    <3>1. Cardinality({}) = 0
      BY FS_EmptySet
    <3> QED
      BY <3>1
  <2>2. PICK z \in s : z = Some(s)
    BY <2>1, <1>1
  <2> DEFINE t == s \ {z}
  <2>3. A(s) = f[z] + A(t)
    <3> HIDE DEF A
    <3> QED
      BY <2>1, <2>2, <1>1
  <2>4. t \in SUBSET S /\ Cardinality(t) = n
    <3>1. IsFiniteSet(s)
      BY <1>1
    <3>2. Cardinality(t) = Cardinality(s) - 1
      BY <3>1, FS_RemoveElement
    <3> QED
      BY <3>2
  <2>5. Image(h, t) = Image(h, s) \ {h[z]} /\ h[z] \in Image(h, s)
    BY DEF OneToOne, Image
  <2>6. B(t) = B(s) - g[h[z]] /\ B(s) \in Int
    <3> DEFINE U == Image(h, s)
               c == h[z]
    <3>3. U \in SUBSET C /\ IsFiniteSet(U) /\ c \in U
      BY <1>1, <2>5
    <3> HIDE DEF U, c
    <3>1. SumFunctionOnSet(g, U \ {c}) = SumFunctionOnSet(g, U) - g[c]
      BY <3>3, SumLess
    <3>2. SumFunctionOnSet(g, U) \in Int
      BY <3>3, SumRec
    <3> USE DEF U, c
    <3> QED
      BY <2>5, <3>1, <3>2
  <2>7. B(t) <= A(t) /\ A(t) \in Int /\ B(t) \in Int
    <3>1. B(t) <= A(t)
      <4> HIDE DEF A, B, t
      <4> QED
        BY <2>4, <1>3
    <3>2. A(t) \in Int
      <4> HIDE DEF A, t
      <4> QED
        BY <2>4, <1>1
    <3>3. g[h[z]] \in Int
      BY DEF Image
    <3> HIDE DEF A, B, t
    <3> QED
      BY <2>6, <3>1, <3>2, <3>3
  <2>8. g[h[z]] <= f[z] /\ g[h[z]] \in Int /\ f[z] \in Int
    BY DEF Image
  <2> HIDE DEF A, B, t
  <2> QED
    BY <2>3, <2>6, <2>7, <2>8
<1>4. Nat \subseteq T
  <2> HIDE DEF T
  <2> QED
    BY <1>2, <1>3, SetInduction
<1>5. B(S) <= A(S)
  <2> HIDE DEF A, B
  <2> QED
    BY <1>1, <1>4
<1>6. SumFunctionOnSet(g, Image(h, S)) \in Int
  <2> DEFINE U == Image(h, S)
  <2>1. U \in SUBSET C /\ IsFiniteSet(U)
    BY <1>1
  <2> HIDE DEF U
  <2>2. SumFunctionOnSet(g, U) \in Int
    BY <2>1, SumRec
  <2> QED
    BY <2>2 DEF U
<1> QED
  BY <1>5, <1>6

LEMMA SumOne ==
  ASSUME NEW S, IsFiniteSet(S), S # {}, NEW f \in [S -> Int], NEW g \in [S -> Int],
         \A x \in S : f[x] + 1 <= g[x]
  PROVE  SumFunctionOnSet(f, S) + 1 <= SumFunctionOnSet(g, S)
<1>1. PICK z \in S : TRUE
  OBVIOUS
<1> DEFINE R == S \ {z}
<1>2. IsFiniteSet(R) /\ R \in SUBSET S
  BY FS_Subset
<1>3. \A x \in S : f[x] \in Int /\ g[x] \in Int /\ f[x] <= g[x]
  OBVIOUS
<1>4. SumFunctionOnSet(f, R) = SumFunctionOnSet(f, S) - f[z]
  BY SumLess
<1>5. SumFunctionOnSet(g, R) = SumFunctionOnSet(g, S) - g[z]
  BY SumLess
<1>6. SumFunctionOnSet(f, S) \in Int /\ SumFunctionOnSet(g, S) \in Int
  BY SumRec
<1> HIDE DEF R
<1>7. SumFunctionOnSet(f, R) <= SumFunctionOnSet(g, R)
  BY <1>2, <1>3, SumLeq
<1> QED
  BY <1>3, <1>4, <1>5, <1>6, <1>7

\* A part of natural numbers costs no more than all.
LEMMA SumPart ==
  ASSUME NEW S, IsFiniteSet(S), NEW f \in [S -> Nat], NEW C \in SUBSET S
  PROVE  SumFunctionOnSet(f, C)
           <= SumFunctionOnSet([x \in S |-> IF x \in C THEN f[x] ELSE 0], S)
<1> DEFINE g == [x \in S |-> IF x \in C THEN f[x] ELSE 0]
           A(s) == SumFunctionOnSet(f, s \cap C)
           B(s) == SumFunctionOnSet(g, s)
           T == {n \in Nat : \A s \in SUBSET S : Cardinality(s) = n => A(s) <= B(s)}
<1>0. g \in [S -> Int] /\ f \in [S -> Int]
      /\ \A x \in S : f[x] \in Nat /\ g[x] = IF x \in C THEN f[x] ELSE 0
  OBVIOUS
<1> HIDE DEF g
<1>1. ASSUME NEW s \in SUBSET S
      PROVE  /\ IsFiniteSet(s) /\ Cardinality(s) \in Nat /\ B(s) \in Int
             /\ s = {} => B(s) = 0
             /\ s # {} => Some(s) \in s /\ B(s) = g[Some(s)] + B(s \ {Some(s)})
             /\ s \cap C \in SUBSET S /\ IsFiniteSet(s \cap C) /\ A(s) \in Int
  <2>1. IsFiniteSet(s) /\ Cardinality(s) \in Nat
    BY FS_Subset, FS_CardinalityType
  <2>2. g \in [S -> Int] /\ s \in SUBSET S /\ IsFiniteSet(s)
    BY <1>0, <2>1
  <2>3. B(s) \in Int
    BY <2>2, SumRec
  <2>4. s = {} => B(s) = 0
    BY <2>2, SumRec
  <2>5. s # {} => Some(s) \in s /\ B(s) = g[Some(s)] + B(s \ {Some(s)})
    BY <2>2, SumRec
  <2>6. s \cap C \in SUBSET S /\ IsFiniteSet(s \cap C)
    BY <2>1, FS_Subset
  <2>7. A(s) \in Int
    <3> DEFINE u == s \cap C
    <3>1. u \in SUBSET S /\ IsFiniteSet(u) /\ f \in [S -> Int]
      BY <1>0, <2>6
    <3> HIDE DEF u
    <3>2. SumFunctionOnSet(f, u) \in Int
      BY <3>1, SumRec
    <3> QED
      BY <3>2 DEF u
  <2> HIDE DEF A, B
  <2> QED
    BY <2>1, <2>3, <2>4, <2>5, <2>6, <2>7
<1>2. 0 \in T
  <2> SUFFICES ASSUME NEW s \in SUBSET S, Cardinality(s) = 0 PROVE A(s) <= B(s)
    OBVIOUS
  <2>1. s = {}
    BY <1>1, FS_EmptySet
  <2>2. B(s) = 0
    BY <2>1, <1>1
  <2>3. A(s) = 0
    <3>1. s \cap C = {}
      BY <2>1
    <3>2. SumFunctionOnSet(f, {}) = 0
      <4>1. {} \in SUBSET S /\ IsFiniteSet({}) /\ f \in [S -> Int]
        BY <1>0, FS_EmptySet
      <4> QED
        BY <4>1, SumRec
    <3> QED
      BY <3>1, <3>2
  <2> HIDE DEF A, B
  <2> QED
    BY <2>2, <2>3
<1>3. ASSUME NEW n \in Nat, n \in T PROVE n + 1 \in T
  <2> SUFFICES ASSUME NEW s \in SUBSET S, Cardinality(s) = n + 1 PROVE A(s) <= B(s)
    OBVIOUS
  <2>1. s # {}
    <3>1. Cardinality({}) = 0
      BY FS_EmptySet
    <3>2. Cardinality(s) # 0
      OBVIOUS
    <3> QED
      BY <3>1, <3>2, Zenon
  <2>2. PICK z \in s : z = Some(s)
    BY <2>1, <1>1
  <2> DEFINE t == s \ {z}
  <2>3. B(s) = g[z] + B(t)
    <3> HIDE DEF B
    <3> QED
      BY <2>1, <2>2, <1>1
  <2>4. t \in SUBSET S /\ Cardinality(t) = n
    <3>1. IsFiniteSet(s)
      BY <1>1
    <3>2. Cardinality(t) = Cardinality(s) - 1
      BY <3>1, FS_RemoveElement
    <3> QED
      BY <3>2
  <2>5. A(t) <= B(t) /\ A(t) \in Int /\ B(t) \in Int
    <3> HIDE DEF A, B, t
    <3> QED
      BY <2>4, <1>1, <1>3
  <2>6. CASE z \in C
    <3> DEFINE u == s \cap C
    <3>1. u \in SUBSET S /\ IsFiniteSet(u) /\ f \in [S -> Int] /\ z \in u /\ t \cap C = u \ {z}
      BY <1>0, <1>1, <2>6
    <3> HIDE DEF u
    <3>2. SumFunctionOnSet(f, u \ {z}) = SumFunctionOnSet(f, u) - f[z]
      BY <3>1, SumLess
    <3>3. A(t) = A(s) - f[z]
      BY <3>1, <3>2 DEF u
    <3>4. g[z] = f[z] /\ f[z] \in Int /\ A(s) \in Int
      BY <1>0, <1>1, <2>6
    <3> HIDE DEF A, B, t
    <3> QED
      BY <2>3, <2>5, <3>3, <3>4
  <2>7. CASE z \notin C
    <3>1. t \cap C = s \cap C
      BY <2>7
    <3>2. A(t) = A(s)
      BY <3>1
    <3>3. g[z] = 0
      BY <1>0, <2>7
    <3> HIDE DEF A, B, t
    <3> QED
      BY <2>3, <2>5, <3>2, <3>3
  <2> QED
    BY <2>6, <2>7
<1>4. Nat \subseteq T
  <2> HIDE DEF T
  <2> QED
    BY <1>2, <1>3, SetInduction
<1>5. A(S) <= B(S)
  <2> HIDE DEF A, B
  <2> QED
    BY <1>1, <1>4
<1>6. S \cap C = C
  OBVIOUS
<1> QED
  BY <1>5, <1>6 DEF g

(***************************************************************************)
(* What is written, entry by entry.                                        *)
(***************************************************************************)
LEMMA KeysWrittenFit == MInv => KeysFit
<1> SUFFICES ASSUME MInv PROVE KeysFit
  OBVIOUS
<1> DEFINE g == [e \in Entries |-> 4 + KeyLen[e.key] + 1]
<1>1. Keyed(Entries) /\ IsFiniteSet(Entries) /\ entry_num \in Nat /\ Entries \subseteq Entry
  BY Table, KeyedFinite DEF Keyed, MInv
<1>2. \A e \in Entries : KeyOf[e] = KeyLen[e.key] + 6 /\ KeyLen[e.key] \in Nat
  BY <1>1, EntrySpace
<1>3. /\ g \in [Entries -> Int] /\ DOMAIN g = Entries
      /\ \A e \in Entries : g[e] <= KeyOf[e]
  BY <1>2
<1>4. KeyOf \in [Entry -> Int]
  BY EntrySpace
<1> DEFINE E == Entries
<1>5. /\ IsFiniteSet(E) /\ E \in SUBSET E /\ E \in SUBSET Entry
      /\ g \in [E -> Int] /\ \A e \in E : g[e] <= KeyOf[e]
  BY <1>1, <1>3
<1> HIDE DEF g, E
<1>6. SumFunctionOnSet(g, E) <= SumFunctionOnSet(KeyOf, E)
  BY <1>4, <1>5, SumLeq
<1>7. SumFunctionOnSet(g, E) \in Int
  BY <1>5, SumRec
<1>8. KeysWritten = SumFunctionOnSet(g, E)
  BY <1>3 DEF KeysWritten, SumFunction, g, E
<1>9. SumFunctionOnSet(KeyOf, E) \in Nat /\ SumFunctionOnSet(KeyOf, E) <= tot_key_len
      /\ tot_key_len \in Int
  BY <1>1, KeyedFinite DEF KeySum, MInv, E
<1>10. KeysWritten <= 4 * entry_num + tot_key_len
  BY <1>1, <1>6, <1>7, <1>8, <1>9
<1> QED
  BY <1>10 DEF KeysFit, KeysBuffer

Plain(e) == e.val # NoVal /\ Resolve(e.key) = {e}

LEMMA HooksCount ==
  ASSUME NEW e \in Entry
  PROVE  Cardinality(e.cb) \in 0 .. 2
<1>1. e.cb \in SUBSET Callbacks
  BY DEF Entry
<1>2. IsFiniteSet(Callbacks) /\ Cardinality(Callbacks) = 2
  <2>1. IsFiniteSet({"read_cb"}) /\ Cardinality({"read_cb"}) = 1
    BY FS_Singleton
  <2>2. Callbacks = {"read_cb"} \cup {"write_cb"} /\ "write_cb" \notin {"read_cb"}
    BY DEF Callbacks
  <2> QED
    BY <2>1, <2>2, FS_AddElement
<1>3. IsFiniteSet(e.cb) /\ Cardinality(e.cb) <= Cardinality(Callbacks)
  BY <1>1, <1>2, FS_Subset
<1>4. Cardinality(e.cb) \in Nat
  BY <1>3, FS_CardinalityType
<1> QED
  BY <1>2, <1>3, <1>4

\* The section of a key, for the keys that have one.
Headed(e) == Section[e.key] # NoSection
HeaderLine(e) == IF Headed(e) THEN SectionLen[Section[e.key]] + 4 ELSE 0

LEMMA LineCost ==
  ASSUME NEW e \in Entry, Plain(e)
  PROVE  /\ DumpLine(e.key) \in Int /\ HeaderLine(e) \in Nat
         /\ DumpLine(e.key) + HeaderLine(e) + 1 <= KeyOf[e] + ValOf[e]
<1>1. e.key \in Keys /\ KeyLen[e.key] \in Nat /\ KeyOf[e] = KeyLen[e.key] + 6
  BY EntrySpace
<1>2. ValLen[e.val] \in Nat /\ ValOf[e] = ValLen[e.val] + 6
  BY EntrySpace DEF Plain
<1>3. DumpLine(e.key) = KeyLen[e.key] - Prefix(e.key) + (1 + ValLen[e.val])
                          + 3 * Cardinality(e.cb) + 1
  <2>1. (CHOOSE x \in Resolve(e.key) : TRUE) = e
    <3>1. Resolve(e.key) = {e}
      BY DEF Plain
    <3>2. (CHOOSE x \in {e} : TRUE) = e
      OBVIOUS
    <3> QED
      BY <3>1, <3>2, Zenon
  <2> DEFINE f == CHOOSE x \in Resolve(e.key) : TRUE
  <2>2. DumpLine(e.key) = KeyLen[e.key] - Prefix(e.key)
          + (IF f.val = NoVal THEN 7 ELSE 1 + ValLen[f.val]) + 3 * Cardinality(f.cb) + 1
    BY Zenon DEF DumpLine
  <2>3. f = e
    BY <2>1
  <2> HIDE DEF f
  <2> QED
    BY <2>2, <2>3 DEF Plain
<1>4. Cardinality(e.cb) \in 0 .. 2
  BY HooksCount
<1>5. CASE Headed(e)
  <2>1. Section[e.key] \in Range(Section) \ {NoSection}
    BY <1>1, <1>5, McfgAssumption DEF Headed, Range
  <2>2. SectionLen[Section[e.key]] \in Nat
    BY <2>1, McfgAssumption
  <2>3. Prefix(e.key) = SectionLen[Section[e.key]] + 1 /\ HeaderLine(e) = SectionLen[Section[e.key]] + 4
    BY <1>5 DEF Prefix, HeaderLine, Headed
  <2> QED
    BY <1>1, <1>2, <1>3, <1>4, <2>2, <2>3
<1>6. CASE ~Headed(e)
  <2>1. Prefix(e.key) = 0 /\ HeaderLine(e) = 0
    BY <1>6 DEF Prefix, HeaderLine, Headed
  <2> QED
    BY <1>1, <1>2, <1>3, <1>4, <2>1
<1> QED
  BY <1>5, <1>6

LEMMA DumpWrittenFits == MInv => DumpFits
<1> SUFFICES ASSUME MInv, Entries # {}, \A e \in Entries : e.val # NoVal /\ Resolve(e.key) = {e}
             PROVE  DumpWritten <= DumpBuffer
  BY DEF DumpFits
<1> DEFINE E == Entries
           keys == {e.key : e \in E}
           secs == {Section[k] : k \in keys} \ {NoSection}
           lines == [k \in keys |-> DumpLine(k)]
           heads == [s \in secs |-> SectionLen[s] + 4]
           keyof == [e \in E |-> e.key]
           secof == [e \in E |-> Section[e.key]]
           line == [e \in E |-> DumpLine(e.key)]
           head == [e \in E |-> HeaderLine(e)]
           first(s) == CHOOSE e \in E : Section[e.key] = s
           C == {first(s) : s \in secs}
           part == [e \in E |-> IF e \in C THEN head[e] ELSE 0]
           both == [e \in E |-> line[e] + part[e]]
           kcost == [e \in E |-> KeyOf[e]]
           vcost == [e \in E |-> ValOf[e]]
           cost == [e \in E |-> kcost[e] + vcost[e]]
<1>1. Keyed(E) /\ IsFiniteSet(E) /\ E \subseteq Entry
  BY Table, KeyedFinite DEF Keyed
<1>2. \A e \in E : /\ DumpLine(e.key) \in Int /\ HeaderLine(e) \in Nat
                   /\ DumpLine(e.key) + HeaderLine(e) + 1 <= KeyOf[e] + ValOf[e]
  BY <1>1, LineCost DEF Plain
<1>3. \A e \in E : KeyOf[e] \in Int /\ ValOf[e] \in Int
  BY <1>1, EntrySpace
\* The lines: one to one with the entries.
<1>4. /\ SumFunctionOnSet(lines, keys) \in Int
      /\ SumFunctionOnSet(lines, keys) <= SumFunctionOnSet(line, E)
  <2>1. keys = Image(keyof, E) /\ OneToOne(keyof, E)
    BY <1>1 DEF Image, OneToOne, Keyed
  <2>2. lines \in [keys -> Int] /\ line \in [E -> Int] /\ \A e \in E : lines[keyof[e]] <= line[e]
    BY <1>2
  <2> HIDE DEF E, keys, lines, line, keyof
  <2> QED
    BY <1>1, <2>1, <2>2, SumImage
\* The headers: each is charged to the first entry of its section.
<1>5. \A s \in secs : first(s) \in E /\ Section[first(s).key] = s /\ s # NoSection
  OBVIOUS
<1>6. /\ SumFunctionOnSet(heads, secs) \in Int /\ SumFunctionOnSet(head, C) \in Int
      /\ SumFunctionOnSet(heads, secs) <= SumFunctionOnSet(head, C)
  <2>1. C \in SUBSET E /\ IsFiniteSet(C)
    BY <1>1, <1>5, FS_Subset
  <2>8. /\ \A s \in secs : first(s) \in C /\ secof[first(s)] = s
        /\ \A e \in C : /\ e \in E /\ e = first(secof[e])
                        /\ secof[e] \in secs /\ secof[e] = Section[e.key] /\ secof[e] # NoSection
    BY <1>5
  <2>2. secs = Image(secof, C) /\ OneToOne(secof, C)
    <3> HIDE DEF secs, C, secof, first
    <3> QED
      BY <2>8 DEF Image, OneToOne
  <2>3. \A e \in C : heads[secof[e]] = head[e] /\ head[e] \in Int
    <3>1. \A s \in secs : heads[s] = SectionLen[s] + 4
      OBVIOUS
    <3>2. \A e \in E : head[e] = HeaderLine(e) /\ head[e] \in Int
      BY <1>2
    <3>3. \A e \in C : HeaderLine(e) = SectionLen[secof[e]] + 4
      <4> HIDE DEF secs, C, secof, first, E
      <4> QED
        BY <2>8 DEF HeaderLine, Headed
    <3> HIDE DEF secs, C, secof, first, E, heads, head
    <3> QED
      BY <2>8, <3>1, <3>2, <3>3
  <2> DEFINE hd == [e \in C |-> head[e]]
  <2>9. (\A e \in C : hd[e] = head[e]) /\ hd \in [C -> Int]
    <3> HIDE DEF C, head
    <3> QED
      BY <2>3
  <2>4. heads \in [secs -> Int] /\ hd \in [C -> Int] /\ \A e \in C : heads[secof[e]] <= hd[e]
    <3>1. \A s \in secs : \E e \in C : s = secof[e]
      BY <2>8
    <3>2. heads = [s \in secs |-> heads[s]]
      OBVIOUS
    <3> HIDE DEF secs, C, secof, first, E, heads, head, hd
    <3> QED
      BY <2>3, <2>9, <3>1, <3>2
  <2>5. /\ SumFunctionOnSet(heads, secs) \in Int
        /\ SumFunctionOnSet(heads, secs) <= SumFunctionOnSet(hd, C)
    <3> HIDE DEF E, C, secs, heads, hd, secof
    <3> QED
      BY <2>1, <2>2, <2>4, SumImage
  <2>6. SumFunctionOnSet(hd, C) <= SumFunctionOnSet(head, C)
    <3>1. head \in [E -> Int]
      BY <1>2
    <3>4. \A e \in C : hd[e] <= head[e]
      <4> HIDE DEF C, head, hd
      <4> QED
        BY <2>3, <2>9
    <3>2. C \in SUBSET C
      OBVIOUS
    <3> HIDE DEF E, C, hd, head
    <3> QED
      BY <2>1, <2>4, <3>1, <3>2, <3>4, SumLeq
  <2>7. SumFunctionOnSet(hd, C) \in Int /\ SumFunctionOnSet(head, C) \in Int
    <3>1. head \in [E -> Int]
      BY <1>2
    <3> HIDE DEF E, C, hd, head
    <3>4. SumFunctionOnSet(hd, C) \in Int
      BY <2>1, <2>9, SumRec
    <3>5. SumFunctionOnSet(head, C) \in Int
      BY <2>1, <3>1, SumRec
    <3> QED
      BY <3>4, <3>5
  <2> HIDE DEF heads, secs, hd, head, C
  <2> QED
    BY <2>5, <2>6, <2>7
<1>7. SumFunctionOnSet(head, C) <= SumFunctionOnSet(part, E)
  <2>1. C \in SUBSET E /\ head \in [E -> Nat]
    BY <1>2, <1>5
  <2> HIDE DEF E, C, head
  <2> QED
    BY <1>1, <2>1, SumPart
\* Lines and headers together leave a byte of every entry's space.
<1>8. line \in [E -> Int] /\ part \in [E -> Int] /\ both \in [E -> Int] /\ cost \in [E -> Int]
      /\ kcost \in [E -> Int] /\ vcost \in [E -> Int]
      /\ \A e \in E : both[e] + 1 <= cost[e]
  <2>1. \A e \in E : /\ line[e] = DumpLine(e.key) /\ part[e] = IF e \in C THEN HeaderLine(e) ELSE 0
                     /\ both[e] = line[e] + part[e] /\ cost[e] = KeyOf[e] + ValOf[e]
    BY Zenon
  <2> HIDE DEF C
  <2>2. \A e \in E : part[e] \in Nat /\ part[e] <= HeaderLine(e) /\ line[e] \in Int
    BY <1>2, <2>1
  <2>3. \A e \in E : both[e] + 1 <= cost[e]
    BY <1>2, <1>3, <2>1, <2>2
  <2> QED
    BY <1>2, <1>3, <2>2, <2>3
<1>9. SumFunctionOnSet(both, E) = SumFunctionOnSet(line, E) + SumFunctionOnSet(part, E)
  <2> HIDE DEF E, line, part
  <2> QED
    BY <1>1, <1>8, SumPlus
<1>10. SumFunctionOnSet(cost, E) = SumFunctionOnSet(kcost, E) + SumFunctionOnSet(vcost, E)
  <2> HIDE DEF E, kcost, vcost
  <2> QED
    BY <1>1, <1>8, SumPlus
<1>11. SumFunctionOnSet(both, E) + 1 <= SumFunctionOnSet(cost, E)
  <2> HIDE DEF E, both, cost
  <2> QED
    BY <1>1, <1>8, SumOne DEF E
<1>12. /\ SumFunctionOnSet(kcost, E) <= KeySum(Entries)
       /\ SumFunctionOnSet(vcost, E) <= ValSum(Entries)
  <2>1. /\ \A e \in E : kcost[e] <= KeyOf[e] /\ vcost[e] <= ValOf[e]
        /\ E \in SUBSET E /\ E \in SUBSET Entry
    BY <1>1, <1>3
  <2>2. KeyOf \in [Entry -> Int] /\ ValOf \in [Entry -> Int]
    BY EntrySpace
  <2>3. Entries = E
    OBVIOUS
  <2> HIDE DEF E, kcost, vcost
  <2>4. SumFunctionOnSet(kcost, E) <= SumFunctionOnSet(KeyOf, E)
    BY <1>1, <1>8, <2>1, <2>2, SumLeq
  <2>5. SumFunctionOnSet(vcost, E) <= SumFunctionOnSet(ValOf, E)
    BY <1>1, <1>8, <2>1, <2>2, SumLeq
  <2> QED
    BY <2>3, <2>4, <2>5 DEF KeySum, ValSum
<1>13. DumpWritten = SumFunctionOnSet(lines, keys) + SumFunctionOnSet(heads, secs) + 1
  BY Zenon DEF DumpWritten, SumFunction
<1>14. DumpBuffer = tot_key_len + tot_val_len /\ tot_key_len \in Int /\ tot_val_len \in Int
       /\ KeySum(Entries) <= tot_key_len /\ ValSum(Entries) <= tot_val_len
       /\ KeySum(Entries) \in Nat /\ ValSum(Entries) \in Nat
  BY Table, KeyedFinite DEF DumpBuffer, MInv
<1>15. /\ SumFunctionOnSet(line, E) \in Int /\ SumFunctionOnSet(part, E) \in Int
       /\ SumFunctionOnSet(kcost, E) \in Int /\ SumFunctionOnSet(vcost, E) \in Int
  <2>1. E \in SUBSET E
    OBVIOUS
  <2> HIDE DEF E, line, part, kcost, vcost
  <2>2. SumFunctionOnSet(line, E) \in Int
    BY <1>1, <1>8, <2>1, SumRec
  <2>3. SumFunctionOnSet(part, E) \in Int
    BY <1>1, <1>8, <2>1, SumRec
  <2>4. SumFunctionOnSet(kcost, E) \in Int
    BY <1>1, <1>8, <2>1, SumRec
  <2>5. SumFunctionOnSet(vcost, E) \in Int
    BY <1>1, <1>8, <2>1, SumRec
  <2> QED
    BY <2>2, <2>3, <2>4, <2>5
<1> HIDE DEF E, line, part, both, cost, kcost, vcost, lines, keys, heads, secs, head, C
<1> QED
  BY <1>4, <1>6, <1>7, <1>9, <1>10, <1>11, <1>12, <1>13, <1>14, <1>15

\* The space that callers allocate takes what is written to it, for every
\* length of keys, values and sections and after every history of calls: the
\* totals never fall below the space of the entries, as a key or value is
\* taken off with a byte less than it was counted with (mcfg_get_keys_len,
\* mcfg_get_buffer_len, mcfg_get_keys, mcfg_dump_buffer).
THEOREM BuffersFit == Spec => []SizesFit
<1>1. MInv /\ [Next]_vars => MInv'
  BY MInvNext
<1>2. MInv => SizesFit
  BY KeysWrittenFit, DumpWrittenFits DEF SizesFit
<1> QED
  BY <1>1, <1>2, MInvInit, PTL DEF Spec

(***************************************************************************)
(* The text of the dictionary: the keys in the order they are written.     *)
(***************************************************************************)
IsListed(g, S) ==
    g = [i \in 0 .. Len(SortedKeys) |->
            IF i = 0 THEN <<>>
            ELSE IF SortedKeys[i] \in S THEN Append(g[i - 1], SortedKeys[i])
            ELSE g[i - 1]]

LEMMA ListedDef ==
  ASSUME NEW S
  PROVE  InOrder(S) = (CHOOSE g : IsListed(g, S))[Len(SortedKeys)]
  BY Zenon DEF InOrder, IsListed

LEMMA ListedExists ==
  ASSUME NEW S
  PROVE  \E g : IsListed(g, S)
<1> DEFINE N == Len(SortedKeys)
           V == Seq(TextKeys)
           Step(i, q) == IF SortedKeys[i] \in S THEN Append(q, SortedKeys[i]) ELSE q
           step == [p \in (1 .. N) \X V |-> Step(p[1], p[2])]
<1>1. N \in Nat /\ <<>> \in V
  BY McfgTextAssumption
<1>2. \A i \in 1 .. N, q \in V : Step(i, q) \in V
  <2> TAKE i \in 1 .. N, q \in V
  <2>1. SortedKeys[i] \in TextKeys
    BY McfgTextAssumption
  <2> QED
    BY <2>1
<1> HIDE DEF Step
<1>3. step \in Steps(N, V)
  BY <1>2 DEF Steps
<1>4. \A i \in 1 .. N, q \in V : step[<<i, q>>] = Step(i, q)
  <2> TAKE i \in 1 .. N, q \in V
  <2>1. <<i, q>> \in (1 .. N) \X V /\ <<i, q>>[1] = i /\ <<i, q>>[2] = q
    OBVIOUS
  <2> QED
    BY <2>1, Zenon
<1> HIDE DEF N, V, step
<1>5. PICK g \in [0 .. N -> V] : g[0] = <<>> /\ \A i \in 1 .. N : g[i] = step[<<i, g[i - 1]>>]
  <2>1. PICK v0 \in V : v0 = <<>>
    BY <1>1
  <2>2. N \in Nat
    BY <1>1
  <2>3. \E g \in [0 .. N -> V] : g[0] = v0 /\ \A i \in 1 .. N : g[i] = step[<<i, g[i - 1]>>]
    BY <2>2, <1>3, Iterates
  <2> QED
    BY <2>1, <2>3
<1>6. \A i \in 1 .. N : g[i] = Step(i, g[i - 1])
  <2> TAKE i \in 1 .. N
  <2>1. g[i - 1] \in V
    <3>1. i - 1 \in 0 .. N
      BY <1>1
    <3> QED
      BY <3>1
  <2> QED
    BY <2>1, <1>4, <1>5
<1>7. \A i \in 0 .. N : g[i] = IF i = 0 THEN <<>> ELSE Step(i, g[i - 1])
  <2> TAKE i \in 0 .. N
  <2>1. CASE i = 0
    BY <2>1, <1>5
  <2>2. CASE i # 0
    <3>1. i \in 1 .. N
      BY <2>2, <1>1
    <3> QED
      BY <3>1, <2>2, <1>6
  <2> QED
    BY <2>1, <2>2
<1>8. g = [i \in 0 .. N |-> IF i = 0 THEN <<>> ELSE Step(i, g[i - 1])]
  BY <1>7
<1> QED
  BY <1>8 DEF IsListed, Step, N

\* The list of a set of keys has those keys and no others.
LEMMA ListedKeys ==
  ASSUME NEW S \in SUBSET TextKeys
  PROVE  /\ InOrder(S) \in Seq(TextKeys)
         /\ \A i \in 1 .. Len(InOrder(S)) : InOrder(S)[i] \in S
         /\ \A k \in S : \E i \in 1 .. Len(InOrder(S)) : InOrder(S)[i] = k
<1> DEFINE g == CHOOSE g : IsListed(g, S)
           N == Len(SortedKeys)
           Lists(i) ==
             /\ g[i] \in Seq(TextKeys)
             /\ \A j \in 1 .. Len(g[i]) : g[i][j] \in S
             /\ \A l \in 1 .. i : SortedKeys[l] \in S =>
                  \E j \in 1 .. Len(g[i]) : g[i][j] = SortedKeys[l]
           T == {i \in Nat : i <= N => Lists(i)}
<1>1. N \in Nat /\ \A i \in 1 .. N : SortedKeys[i] \in TextKeys
  BY McfgTextAssumption
<1>2. IsListed(g, S)
  BY ListedExists
<1> HIDE DEF g
<1>3. g[0] = <<>> /\ \A i \in 1 .. N :
        g[i] = IF SortedKeys[i] \in S THEN Append(g[i - 1], SortedKeys[i]) ELSE g[i - 1]
  <2>1. \A i \in 0 .. N :
          g[i] = IF i = 0 THEN <<>>
                 ELSE IF SortedKeys[i] \in S THEN Append(g[i - 1], SortedKeys[i])
                 ELSE g[i - 1]
    BY <1>2 DEF IsListed
  <2> QED
    BY <2>1, <1>1
<1>4. Lists(0)
  BY <1>3
<1>5. ASSUME NEW i \in 1 .. N, Lists(i - 1) PROVE Lists(i)
  <2> DEFINE h == g[i - 1]
  <2>1. /\ h \in Seq(TextKeys) /\ \A j \in 1 .. Len(h) : h[j] \in S
        /\ \A l \in 1 .. i - 1 : SortedKeys[l] \in S => \E j \in 1 .. Len(h) : h[j] = SortedKeys[l]
    BY <1>5
  <2>2. g[i] = IF SortedKeys[i] \in S THEN Append(h, SortedKeys[i]) ELSE h
    BY <1>3
  <2> HIDE DEF h
  <2>3. CASE SortedKeys[i] \in S
    <3> DEFINE u == Append(h, SortedKeys[i])
    <3>1. /\ u \in Seq(TextKeys) /\ Len(u) = Len(h) + 1
          /\ \A j \in 1 .. Len(h) : u[j] = h[j]
          /\ u[Len(h) + 1] = SortedKeys[i] /\ Len(h) \in Nat
      BY <2>1, <1>1
    <3>2. g[i] = u
      BY <2>2, <2>3
    <3> HIDE DEF u
    <3>3. \A j \in 1 .. Len(u) : u[j] \in S
      <4> TAKE j \in 1 .. Len(u)
      <4>1. j \in 1 .. Len(h) \/ j = Len(h) + 1
        BY <3>1
      <4> QED
        BY <4>1, <3>1, <2>1, <2>3
    <3>4. ASSUME NEW l \in 1 .. i, SortedKeys[l] \in S
          PROVE  \E j \in 1 .. Len(u) : u[j] = SortedKeys[l]
      <4>1. CASE l = i
        <5>1. Len(h) + 1 \in 1 .. Len(u)
          BY <3>1
        <5> QED
          BY <4>1, <5>1, <3>1
      <4>2. CASE l # i
        <5>1. l \in 1 .. i - 1
          BY <4>2
        <5>2. PICK j \in 1 .. Len(h) : h[j] = SortedKeys[l]
          BY <5>1, <2>1, <3>4
        <5>3. j \in 1 .. Len(u) /\ u[j] = SortedKeys[l]
          BY <5>2, <3>1
        <5> QED
          BY <5>3
      <4> QED
        BY <4>1, <4>2
    <3> QED
      BY <3>1, <3>2, <3>3, <3>4
  <2>4. CASE SortedKeys[i] \notin S
    <3>1. \A l \in 1 .. i : SortedKeys[l] \in S => l \in 1 .. i - 1
      BY <2>4
    <3> QED
      BY <3>1, <2>1, <2>2, <2>4
  <2> QED
    BY <2>3, <2>4
<1> HIDE DEF Lists
<1>6. 0 \in T
  BY <1>4
<1>7. ASSUME NEW i \in Nat, i \in T PROVE i + 1 \in T
  <2>1. CASE i + 1 <= N
    <3>1. i + 1 \in 1 .. N /\ (i + 1) - 1 = i /\ i <= N
      BY <2>1, <1>1
    <3>2. Lists(i)
      BY <3>1, <1>7
    <3>3. Lists(i + 1)
      BY <3>1, <3>2, <1>5
    <3> QED
      BY <3>3
  <2> QED
    BY <2>1
<1>8. N \in T
  <2> HIDE DEF T
  <2>1. Nat \subseteq T
    BY <1>6, <1>7, SetInduction
  <2> QED
    BY <2>1, <1>1
<1>9. Lists(N)
  BY <1>8, <1>1
<1>10. InOrder(S) = g[N]
  BY ListedDef DEF g
<1>11. \A k \in S : \E l \in 1 .. N : SortedKeys[l] = k
  BY McfgTextAssumption DEF ToSet
<1> HIDE DEF N, T
<1>12. /\ InOrder(S) \in Seq(TextKeys)
       /\ \A i \in 1 .. Len(InOrder(S)) : InOrder(S)[i] \in S
       /\ \A l \in 1 .. N : SortedKeys[l] \in S =>
            \E j \in 1 .. Len(InOrder(S)) : InOrder(S)[j] = SortedKeys[l]
  BY <1>9, <1>10 DEF Lists
<1> QED
  BY <1>11, <1>12

\* Every key is written, those without a section before all others.
LEMMA OrderFacts ==
  /\ Order \in Seq(TextKeys)
  /\ \A k \in TextKeys : \E i \in 1 .. Len(Order) : Order[i] = k
  /\ \A i, j \in 1 .. Len(Order) :
       i < j /\ Order[j][1] = TopLevel => Order[i][1] = TopLevel
<1> DEFINE a == InOrder(Sectionless)
           b == InOrder(TextKeys \ Sectionless)
           o == a \o b
<1>1. /\ a \in Seq(TextKeys) /\ \A i \in 1 .. Len(a) : a[i] \in Sectionless
      /\ \A k \in Sectionless : \E i \in 1 .. Len(a) : a[i] = k
  <2>1. Sectionless \in SUBSET TextKeys
    BY DEF Sectionless
  <2> QED
    BY <2>1, ListedKeys
<1>2. /\ b \in Seq(TextKeys) /\ \A i \in 1 .. Len(b) : b[i] \in TextKeys \ Sectionless
      /\ \A k \in TextKeys \ Sectionless : \E i \in 1 .. Len(b) : b[i] = k
  <2>1. (TextKeys \ Sectionless) \in SUBSET TextKeys
    OBVIOUS
  <2> QED
    BY <2>1, ListedKeys
<1>3. Order = o
  BY DEF Order
<1> HIDE DEF a, b
<1>4. /\ o \in Seq(TextKeys) /\ Len(o) = Len(a) + Len(b) /\ Len(a) \in Nat /\ Len(b) \in Nat
      /\ \A i \in 1 .. Len(a) : o[i] = a[i]
      /\ \A i \in 1 .. Len(b) : o[Len(a) + i] = b[i]
  BY <1>1, <1>2
<1> HIDE DEF o
<1>5. ASSUME NEW k \in TextKeys PROVE \E i \in 1 .. Len(o) : o[i] = k
  <2>1. CASE k \in Sectionless
    <3>1. PICK i \in 1 .. Len(a) : a[i] = k
      BY <2>1, <1>1
    <3>2. i \in 1 .. Len(o) /\ o[i] = k
      BY <3>1, <1>4
    <3> QED
      BY <3>2
  <2>2. CASE k \notin Sectionless
    <3>1. PICK i \in 1 .. Len(b) : b[i] = k
      BY <2>2, <1>2
    <3>2. Len(a) + i \in 1 .. Len(o) /\ o[Len(a) + i] = k
      BY <3>1, <1>4
    <3> QED
      BY <3>2
  <2> QED
    BY <2>1, <2>2
<1>6. ASSUME NEW i \in 1 .. Len(o), NEW j \in 1 .. Len(o), i < j, o[j][1] = TopLevel
      PROVE  o[i][1] = TopLevel
  <2>1. j \in 1 .. Len(a)
    <3> SUFFICES ASSUME j \notin 1 .. Len(a) PROVE FALSE
      OBVIOUS
    <3>1. j - Len(a) \in 1 .. Len(b) /\ j = Len(a) + (j - Len(a))
      BY <1>4
    <3>2. o[j] = b[j - Len(a)]
      BY <3>1, <1>4
    <3>3. o[j] \in TextKeys \ Sectionless
      BY <3>1, <3>2, <1>2
    <3> QED
      BY <3>3, <1>6 DEF Sectionless
  <2>2. i \in 1 .. Len(a)
    BY <2>1, <1>4, <1>6
  <2>3. o[i] \in Sectionless
    BY <2>2, <1>4, <1>1
  <2> QED
    BY <2>3 DEF Sectionless
<1> QED
  BY <1>3, <1>4, <1>5, <1>6

(***************************************************************************)
(* The text of the dictionary: the section in effect before line i of t.   *)
(***************************************************************************)
NoHeader(t, i, j) == \A l \in i .. j : t[l].kind # "header"
HeadedBy(t, i, h) == t[h].kind = "header" /\ NoHeader(t, h + 1, i - 1)
InSection(t, i, s) ==
    \/ s = TopLevel /\ NoHeader(t, 1, i - 1)
    \/ \E h \in 1 .. i - 1 : t[h].sec = s /\ HeadedBy(t, i, h)

LEMMA OneHeader ==
  ASSUME NEW t, NEW i \in Nat, NEW h1 \in 1 .. i - 1, NEW h2 \in 1 .. i - 1,
         HeadedBy(t, i, h1), HeadedBy(t, i, h2)
  PROVE  h1 = h2
  BY DEF HeadedBy, NoHeader

LEMMA OneSection ==
  ASSUME NEW t, NEW i \in Nat, NEW s1, NEW s2, InSection(t, i, s1), InSection(t, i, s2)
  PROVE  s1 = s2
<1>1. CASE NoHeader(t, 1, i - 1)
  <2>1. \A h \in 1 .. i - 1 : ~HeadedBy(t, i, h)
    BY <1>1 DEF NoHeader, HeadedBy
  <2> QED
    BY <2>1 DEF InSection
<1>2. CASE ~NoHeader(t, 1, i - 1)
  <2>1. PICK h1 \in 1 .. i - 1 : t[h1].sec = s1 /\ HeadedBy(t, i, h1)
    BY <1>2 DEF InSection
  <2>2. PICK h2 \in 1 .. i - 1 : t[h2].sec = s2 /\ HeadedBy(t, i, h2)
    BY <1>2 DEF InSection
  <2>3. h1 = h2
    BY <2>1, <2>2, OneHeader
  <2> QED
    BY <2>1, <2>2, <2>3
<1> QED
  BY <1>1, <1>2

LEMMA SameSection ==
  ASSUME NEW t, NEW u, NEW i \in Nat, NEW s, InSection(t, i, s),
         \A j \in 1 .. i - 1 : u[j] = t[j]
  PROVE  InSection(u, i, s)
<1>1. CASE s = TopLevel /\ NoHeader(t, 1, i - 1)
  BY <1>1 DEF InSection, NoHeader
<1>2. CASE \E h \in 1 .. i - 1 : t[h].sec = s /\ HeadedBy(t, i, h)
  <2>1. PICK h \in 1 .. i - 1 : t[h].sec = s /\ HeadedBy(t, i, h)
    BY <1>2
  <2>2. u[h] = t[h]
    OBVIOUS
  <2>3. NoHeader(u, h + 1, i - 1)
    BY <2>1 DEF HeadedBy, NoHeader
  <2>4. u[h].sec = s /\ HeadedBy(u, i, h)
    BY <2>1, <2>2, <2>3 DEF HeadedBy
  <2> QED
    BY <2>4 DEF InSection
<1> QED
  BY <1>1, <1>2 DEF InSection

LEMMA NextSection ==
  ASSUME NEW t, NEW i \in Nat \ {0}, NEW s, InSection(t, i, s), t[i].kind # "header"
  PROVE  InSection(t, i + 1, s)
<1>1. CASE s = TopLevel /\ NoHeader(t, 1, i - 1)
  BY <1>1 DEF InSection, NoHeader
<1>2. CASE \E h \in 1 .. i - 1 : t[h].sec = s /\ HeadedBy(t, i, h)
  <2>1. PICK h \in 1 .. i - 1 : t[h].sec = s /\ HeadedBy(t, i, h)
    BY <1>2
  <2>2. NoHeader(t, h + 1, (i + 1) - 1)
    BY <2>1 DEF HeadedBy, NoHeader
  <2>3. h \in 1 .. (i + 1) - 1 /\ HeadedBy(t, i + 1, h)
    BY <2>1, <2>2 DEF HeadedBy
  <2> QED
    BY <2>1, <2>3 DEF InSection
<1> QED
  BY <1>1, <1>2 DEF InSection

LEMMA HeaderSection ==
  ASSUME NEW t, NEW i \in Nat \ {0}, t[i].kind = "header"
  PROVE  InSection(t, i + 1, t[i].sec)
<1>1. NoHeader(t, i + 1, (i + 1) - 1)
  BY DEF NoHeader
<1>2. i \in 1 .. (i + 1) - 1 /\ HeadedBy(t, i + 1, i)
  BY <1>1 DEF HeadedBy
<1> QED
  BY <1>2 DEF InSection

LEMMA SectionAtIs ==
  ASSUME NEW i \in Nat \ {0}, NEW s, InSection(text, i, s)
  PROVE  SectionAt(i) = s
<1> DEFINE heads == {j \in 1 .. i - 1 : text[j].kind = "header"}
           Latest(j) == \A h \in heads : h <= j
<1>1. SectionAt(i) = IF heads = {} THEN TopLevel ELSE text[CHOOSE j \in heads : Latest(j)].sec
  BY DEF SectionAt
<1>2. CASE s = TopLevel /\ NoHeader(text, 1, i - 1)
  <2>1. heads = {}
    BY <1>2 DEF NoHeader
  <2> QED
    BY <1>1, <1>2, <2>1
<1>3. CASE \E h \in 1 .. i - 1 : text[h].sec = s /\ HeadedBy(text, i, h)
  <2>1. PICK h \in 1 .. i - 1 : text[h].sec = s /\ HeadedBy(text, i, h)
    BY <1>3
  <2>2. h \in heads
    BY <2>1 DEF HeadedBy
  <2>3. \A j \in heads : j <= h
    BY <2>1 DEF HeadedBy, NoHeader
  <2>4. \A j \in heads : Latest(j) => j = h
    <3> TAKE j \in heads
    <3>1. j <= h /\ j \in Int /\ h \in Int
      BY <2>2, <2>3
    <3> QED
      BY <2>2, <3>1
  <2>5. Latest(h)
    BY <2>3
  <2> HIDE DEF heads, Latest
  <2>6. (CHOOSE j \in heads : Latest(j)) = h
    BY <2>2, <2>4, <2>5
  <2> QED
    BY <1>1, <2>1, <2>2, <2>6
<1> QED
  BY <1>2, <1>3 DEF InSection

\* A line inserted at place i moves the lines from there on.
LEMMA Inserted ==
  ASSUME NEW V, NEW t \in Seq(V), NEW i \in 1 .. Len(t) + 1, NEW l \in V
  PROVE  /\ InsertAt(t, i, l) \in Seq(V)
         /\ Len(InsertAt(t, i, l)) = Len(t) + 1
         /\ \A j \in 1 .. i - 1 : InsertAt(t, i, l)[j] = t[j]
         /\ InsertAt(t, i, l)[i] = l
         /\ \A j \in i + 1 .. Len(t) + 1 : InsertAt(t, i, l)[j] = t[j - 1]
<1> DEFINE a == SubSeq(t, 1, i - 1)
           b == SubSeq(t, i, Len(t))
           m == a \o <<l>>
<1>0. Len(t) \in Nat /\ i - 1 \in Nat
  OBVIOUS
<1>1. a \in Seq(V) /\ Len(a) = i - 1 /\ \A j \in 1 .. i - 1 : a[j] = t[j]
  <2>1. \A j \in 1 .. i - 1 : t[j] \in V
    OBVIOUS
  <2> QED
    BY <2>1, <1>0, SubSeqProperties
<1>2. b \in Seq(V) /\ Len(b) = Len(t) - i + 1 /\ \A j \in 1 .. Len(t) - i + 1 : b[j] = t[i + j - 1]
  <2>1. CASE i = Len(t) + 1
    <3>1. b = <<>>
      BY <2>1, SubSeqProperties
    <3> QED
      BY <3>1, <2>1
  <2>2. CASE i # Len(t) + 1
    <3>1. \A j \in i .. Len(t) : t[j] \in V
      OBVIOUS
    <3> QED
      BY <2>2, <3>1, <1>0, SubSeqProperties
  <2> QED
    BY <2>1, <2>2
<1> HIDE DEF a, b
<1>3. /\ m \in Seq(V) /\ Len(m) = i
      /\ \A j \in 1 .. i - 1 : m[j] = t[j]
      /\ m[i] = l
  BY <1>1
<1> HIDE DEF m
<1> DEFINE u == m \o b
<1>4. /\ u \in Seq(V) /\ Len(u) = Len(t) + 1
      /\ \A j \in 1 .. i : u[j] = m[j]
      /\ \A j \in i + 1 .. Len(t) + 1 : u[j] = b[j - i]
  BY <1>2, <1>3, <1>0
<1>5. InsertAt(t, i, l) = u
  BY DEF InsertAt, a, b, m
<1> HIDE DEF u
<1>6. \A j \in i + 1 .. Len(t) + 1 : u[j] = t[j - 1]
  <2> TAKE j \in i + 1 .. Len(t) + 1
  <2>1. j - i \in 1 .. Len(t) - i + 1 /\ i + (j - i) - 1 = j - 1
    BY <1>0
  <2> QED
    BY <2>1, <1>2, <1>4
<1>7. i \in 1 .. i /\ \A j \in 1 .. i - 1 : j \in 1 .. i
  BY <1>0
<1> QED
  BY <1>3, <1>4, <1>5, <1>6, <1>7

LEMMA InsertedSection ==
  ASSUME NEW t, NEW u, NEW n \in Nat, NEW i \in 1 .. n + 1,
         \A j \in 1 .. i - 1 : u[j] = t[j],
         u[i].kind # "header",
         \A j \in i + 1 .. n + 1 : u[j] = t[j - 1],
         NEW j \in 1 .. n + 1, NEW s, InSection(t, j, s)
  PROVE  /\ j <= i => InSection(u, j, s)
         /\ j >= i => InSection(u, j + 1, s)
<1>1. ASSUME j <= i PROVE InSection(u, j, s)
  <2>1. \A l \in 1 .. j - 1 : u[l] = t[l]
    BY <1>1
  <2> QED
    BY <2>1, SameSection
<1>2. ASSUME j >= i PROVE InSection(u, j + 1, s)
  <2>1. ASSUME NEW l \in 1 .. j, l # i
        PROVE  \/ l < i /\ u[l] = t[l]
               \/ l > i /\ l - 1 \in 1 .. j - 1 /\ u[l] = t[l - 1]
    BY <1>2, <2>1
  <2>2. CASE s = TopLevel /\ NoHeader(t, 1, j - 1)
    <3>1. \A l \in 1 .. (j + 1) - 1 : u[l].kind # "header"
      <4> TAKE l \in 1 .. (j + 1) - 1
      <4>1. l \in 1 .. j
        OBVIOUS
      <4>2. CASE l = i
        BY <4>2
      <4>3. CASE l # i /\ l < i
        <5>1. l \in 1 .. j - 1 /\ u[l] = t[l]
          BY <4>1, <4>3, <1>2
        <5> QED
          BY <5>1, <2>2 DEF NoHeader
      <4>4. CASE l # i /\ ~(l < i)
        <5>1. l - 1 \in 1 .. j - 1 /\ u[l] = t[l - 1]
          BY <4>1, <4>4, <2>1
        <5> QED
          BY <5>1, <2>2 DEF NoHeader
      <4> QED
        BY <4>2, <4>3, <4>4
    <3> QED
      BY <3>1, <2>2 DEF InSection, NoHeader
  <2>3. CASE \E h \in 1 .. j - 1 : t[h].sec = s /\ HeadedBy(t, j, h)
    <3>1. PICK h \in 1 .. j - 1 : t[h].sec = s /\ HeadedBy(t, j, h)
      BY <2>3
    <3> DEFINE g == IF h < i THEN h ELSE h + 1
    <3>2. g \in 1 .. (j + 1) - 1 /\ u[g] = t[h] /\ g # i
      BY <1>2
    <3>3. ASSUME NEW l \in g + 1 .. (j + 1) - 1 PROVE u[l].kind # "header"
      <4>1. l \in 1 .. j /\ l > g
        BY <3>2
      <4>2. CASE l = i
        BY <4>2
      <4>3. CASE l # i /\ l < i
        <5>1. l \in h + 1 .. j - 1 /\ u[l] = t[l]
          BY <4>1, <4>3, <1>2
        <5> QED
          BY <5>1, <3>1 DEF HeadedBy, NoHeader
      <4>4. CASE l # i /\ ~(l < i)
        <5>1. l - 1 \in h + 1 .. j - 1 /\ u[l] = t[l - 1]
          BY <4>1, <4>4, <2>1
        <5> QED
          BY <5>1, <3>1 DEF HeadedBy, NoHeader
      <4> QED
        BY <4>2, <4>3, <4>4
    <3> HIDE DEF g
    <3>4. HeadedBy(u, j + 1, g) /\ u[g].sec = s
      BY <3>1, <3>2, <3>3 DEF HeadedBy, NoHeader
    <3> QED
      BY <3>2, <3>4 DEF InSection
  <2> QED
    BY <2>2, <2>3 DEF InSection
<1> QED
  BY <1>1, <1>2

(***************************************************************************)
(* The text of the dictionary: the invariant.  Line i of t is the one that *)
(* assigns key k when it names it under the header of its section.  Every  *)
(* assignment is of a key of the dictionary d, with its value unless an    *)
(* operator assigned that key (e); every key with a value has its line,    *)
(* and once that is read the dictionary b read back has the value cut.     *)
(***************************************************************************)
TextLines ==
    {Header(k[1]) : k \in TextKeys} \cup {Assign(p[1][2], p[2]) : p \in TextKeys \X TextValues}
    \cup {BlankLine, BadLine} \cup EditLines
Reads == {Cut[l.val] : l \in TextLines} \cup {Absent} \cup TextValues
Dicts == [TextKeys -> TextValues \cup {Undef, Absent}]

Written(t, i, k) == t[i].kind = "assign" /\ t[i].name = k[2] /\ InSection(t, i, k[1])
Rest(d, k) == IF d[k] \in TextValues /\ Cut[d[k]] # Blank THEN Cut[d[k]] ELSE Absent

Sectioned(t) == \A i \in 1 .. Len(t) + 1 : \E s : InSection(t, i, s)
TrueLine(t, d, e, i) ==
    t[i].kind = "assign" =>
        \E k \in TextKeys : /\ Written(t, i, k)
                            /\ k \in e \/ (d[k] \in TextValues /\ t[i].val = d[k])
TrueLines(t, d, e) == \A i \in 1 .. Len(t) : TrueLine(t, d, e, i)
HasLine(t, k) == \E i \in 1 .. Len(t) : Written(t, i, k)
AllWritten(t, d, e, S) == \A k \in S : k \notin e /\ d[k] \in TextValues => HasLine(t, k)
ReadUpto(t, d, e, b, n) ==
    \A k \in TextKeys : k \notin e =>
        /\ b[k] = Absent \/ b[k] = Rest(d, k)
        /\ \A i \in 1 .. n - 1 : Written(t, i, k) => b[k] = Rest(d, k)
NothingRead == [k \in TextKeys |-> Absent]
KeysBefore(p) == {Order[j] : j \in 1 .. p - 1}

TextOK ==
    /\ phase \in {"dump", "edit", "load", "done"}
    /\ pos \in Nat \ {0}
    /\ dict \in Dicts
    /\ back \in [TextKeys -> Reads]
    /\ text \in Seq(TextLines)
    /\ edited \in SUBSET TextKeys
    /\ Sectioned(text)
    /\ TrueLines(text, dict, edited)
Dumping ==
    /\ pos <= Len(Order) + 1 /\ edited = {} /\ back = NothingRead
    /\ InSection(text, Len(text) + 1, sec)
    /\ sec = TopLevel \/ \E p \in 1 .. pos - 1 : sec = Order[p][1]
    /\ AllWritten(text, dict, edited, KeysBefore(pos))
Editing ==
    /\ pos = 1 /\ sec = TopLevel /\ edited = {} /\ back = NothingRead
    /\ AllWritten(text, dict, edited, TextKeys)
Loading ==
    /\ pos <= Len(text) + 1 /\ InSection(text, pos, sec)
    /\ AllWritten(text, dict, edited, TextKeys)
    /\ ReadUpto(text, dict, edited, back, pos)
Loaded ==
    rv = 0 => /\ AllWritten(text, dict, edited, TextKeys)
              /\ ReadUpto(text, dict, edited, back, Len(text) + 1)
TextInv ==
    /\ TextOK
    /\ phase = "dump" => Dumping
    /\ phase = "edit" => Editing
    /\ phase = "load" => Loading
    /\ phase = "done" => Loaded

LEMMA OneKey ==
  ASSUME NEW t, NEW i \in Nat, NEW k \in TextKeys, NEW j \in TextKeys,
         Written(t, i, k), Written(t, i, j)
  PROVE  k = j
<1>1. k[1] = j[1]
  BY OneSection DEF Written
<1>2. k[2] = j[2]
  BY DEF Written
<1>3. k = <<k[1], k[2]>> /\ j = <<j[1], j[2]>>
  BY McfgTextAssumption
<1> QED
  BY <1>1, <1>2, <1>3

\* Lines that are added leave those before them what they were.
LEMMA SameLines ==
  ASSUME NEW t, NEW u, NEW n \in Nat, \A j \in 1 .. n : u[j] = t[j],
         NEW i \in 1 .. n, NEW k
  PROVE  /\ u[i] = t[i]
         /\ Written(t, i, k) => Written(u, i, k)
         /\ \A s : InSection(t, i, s) => InSection(u, i, s)
<1>1. \A j \in 1 .. i - 1 : u[j] = t[j]
  OBVIOUS
<1>2. u[i] = t[i] /\ i \in Nat
  OBVIOUS
<1>3. \A s : InSection(t, i, s) => InSection(u, i, s)
  BY <1>1, <1>2, SameSection
<1> QED
  BY <1>2, <1>3 DEF Written

LEMMA EndSection ==
  ASSUME NEW t, NEW u, NEW n \in Nat, \A j \in 1 .. n : u[j] = t[j],
         NEW s, InSection(t, n + 1, s)
  PROVE  InSection(u, n + 1, s)
<1>1. \A j \in 1 .. (n + 1) - 1 : u[j] = t[j]
  OBVIOUS
<1>2. n + 1 \in Nat
  OBVIOUS
<1> QED
  BY <1>1, <1>2, SameSection

LEMMA TextInvInit == TextInit => TextInv
<1> SUFFICES ASSUME TextInit PROVE TextInv
  OBVIOUS
<1> USE DEF TextInit
<1>1. text = <<>> /\ Len(text) = 0 /\ text \in Seq(TextLines)
  OBVIOUS
<1>2. InSection(text, 1, TopLevel)
  BY DEF InSection, NoHeader
<1>3. Sectioned(text)
  BY <1>1, <1>2 DEF Sectioned
<1>4. TrueLines(text, dict, edited)
  BY <1>1 DEF TrueLines
<1>5. back \in [TextKeys -> Reads] /\ back = NothingRead
  BY DEF Reads, NothingRead
<1>6. AllWritten(text, dict, edited, KeysBefore(pos))
  BY DEF AllWritten, KeysBefore
<1>7. Len(Order) \in Nat
  BY OrderFacts
<1>8. TextOK
  BY <1>1, <1>3, <1>4, <1>5 DEF TextOK, Dicts
<1>9. Dumping
  BY <1>1, <1>2, <1>5, <1>6, <1>7 DEF Dumping
<1> QED
  BY <1>8, <1>9 DEF TextInv

(***************************************************************************)
(* mcfg_dump_buffer: the lines of one key.                                 *)
(***************************************************************************)
\* A key is under the header of its own section.
LEMMA SectionRight ==
  ASSUME HeadsSorted, TextInv, phase = "dump", pos <= Len(Order), Announced(Order[pos][1])
  PROVE  sec = Order[pos][1]
<1>1. pos \in 1 .. Len(Order) /\ Len(Order) \in Nat /\ pos \in Nat
  BY OrderFacts DEF TextInv, TextOK
<1>2. CASE sec = TopLevel
  BY <1>2 DEF Announced
<1>3. CASE sec # TopLevel
  <2>1. PICK p \in 1 .. pos - 1 : sec = Order[p][1]
    BY <1>3 DEF TextInv, Dumping
  <2>2. p \in 1 .. Len(Order) /\ p < pos
    BY <1>1
  <2>3. Order[pos][1] # TopLevel
    BY <1>1, <1>3, <2>1, <2>2, OrderFacts
  <2>4. <<Order[pos][1], Order[p][1]>> \in Heads
    BY <1>3, <2>1, <2>3 DEF Announced
  <2> QED
    BY <1>1, <2>1, <2>2, <2>4 DEF HeadsSorted
<1> QED
  BY <1>2, <1>3

LEMMA KeyLines ==
  ASSUME HeadsSorted, TextInv, DumpKey, dict[Order[pos]] # Absent
  PROVE  LET k == Order[pos]
             N == Len(text')
         IN /\ text' \in Seq(TextLines) /\ N > Len(text)
            /\ \A i \in 1 .. Len(text) : text'[i] = text[i]
            /\ \A i \in Len(text) + 1 .. N - 1 : text'[i].kind # "assign"
            /\ text'[N] = LineFor(k)
            /\ \A i \in Len(text) + 1 .. N : \E s : InSection(text', i, s)
            /\ InSection(text', N, k[1])
            /\ InSection(text', N + 1, sec') /\ sec' = k[1]
<1> DEFINE k == Order[pos]
           n == Len(text)
           l == LineFor(k)
           u == text'
<1>1. /\ k \in TextKeys /\ phase = "dump" /\ pos <= Len(Order) /\ pos \in 1 .. Len(Order)
      /\ text \in Seq(TextLines) /\ n \in Nat /\ dict \in Dicts
      /\ InSection(text, n + 1, sec)
  BY OrderFacts DEF TextInv, TextOK, Dumping, DumpKey
<1>2. /\ text' = text \o HeaderFor(k[1]) \o <<l>>
      /\ sec' = IF Announced(k[1]) THEN sec ELSE k[1]
  BY DEF DumpKey
<1>3. l \in TextLines /\ l.kind # "header"
  <2>1. CASE dict[k] = Undef
    BY <2>1 DEF LineFor, TextLines, BlankLine
  <2>2. CASE dict[k] # Undef
    <3>1. dict[k] \in TextValues
      BY <1>1, <2>2 DEF Dicts
    <3>2. <<k, dict[k]>> \in TextKeys \X TextValues
      BY <1>1, <3>1
    <3>3. Assign(k[2], dict[k]) \in TextLines
      BY <3>2 DEF TextLines
    <3> QED
      BY <3>3, <2>2 DEF LineFor, Assign
  <2> QED
    BY <2>1, <2>2
<1> HIDE DEF l
<1>4. CASE Announced(k[1])
  <2>1. HeaderFor(k[1]) = <<>>
    BY <1>4 DEF HeaderFor
  <2>2. u = text \o <<>> \o <<l>>
    BY <1>2, <2>1
  <2>3. /\ u \in Seq(TextLines) /\ Len(u) = n + 1 /\ u[n + 1] = l
        /\ \A i \in 1 .. n : u[i] = text[i]
    BY <2>2, <1>1, <1>3
  <2>4. sec = k[1]
    BY <1>1, <1>4, SectionRight
  <2> HIDE DEF u, k
  <2>5. InSection(u, n + 1, sec)
    BY <1>1, <2>3, EndSection
  <2>6. InSection(u, (n + 1) + 1, sec)
    <3>1. n + 1 \in Nat \ {0} /\ u[n + 1].kind # "header"
      BY <1>1, <1>3, <2>3
    <3> QED
      BY <3>1, <2>5, NextSection
  <2>7. sec' = sec
    BY <1>2, <1>4
  <2> QED
    BY <1>1, <2>3, <2>4, <2>5, <2>6, <2>7 DEF u, k, l
<1>5. CASE ~Announced(k[1])
  <2> DEFINE s == k[1]
             m == text \o <<BlankLine, Header(s)>>
  <2>1. HeaderFor(k[1]) = <<BlankLine, Header(s)>>
    BY <1>5 DEF HeaderFor
  <2>2. u = m \o <<l>>
    BY <1>2, <2>1
  <2>3. BlankLine \in TextLines /\ Header(s) \in TextLines
    BY <1>1 DEF TextLines
  <2>4. /\ m \in Seq(TextLines) /\ Len(m) = n + 2
        /\ m[n + 1] = BlankLine /\ m[n + 2] = Header(s)
        /\ \A i \in 1 .. n : m[i] = text[i]
    BY <2>3, <1>1
  <2> HIDE DEF m
  <2>5. /\ u \in Seq(TextLines) /\ Len(u) = n + 3 /\ u[n + 3] = l
        /\ \A i \in 1 .. n + 2 : u[i] = m[i]
    BY <2>2, <2>4, <1>1, <1>3
  <2> HIDE DEF u, k, s
  <2>6. /\ u[n + 1] = BlankLine /\ u[n + 2] = Header(s)
        /\ \A i \in 1 .. n : u[i] = text[i]
    BY <2>4, <2>5, <1>1
  <2>7. InSection(u, n + 1, sec)
    BY <1>1, <2>6, EndSection
  <2>8. u[n + 1].kind = "blank" /\ u[n + 2].kind = "header" /\ u[n + 2].sec = s
    BY <2>6 DEF BlankLine, Header
  <2>9. InSection(u, n + 2, sec)
    <3>1. n + 1 \in Nat \ {0} /\ (n + 1) + 1 = n + 2
      BY <1>1
    <3>2. InSection(u, (n + 1) + 1, sec)
      BY <3>1, <2>7, <2>8, NextSection
    <3> QED
      BY <3>1, <3>2
  <2>10. InSection(u, n + 3, s)
    <3>1. n + 2 \in Nat \ {0} /\ (n + 2) + 1 = n + 3
      BY <1>1
    <3>2. InSection(u, (n + 2) + 1, u[n + 2].sec)
      BY <3>1, <2>8, HeaderSection
    <3> QED
      BY <3>1, <3>2, <2>8
  <2>11. InSection(u, n + 4, s)
    <3>1. n + 3 \in Nat \ {0} /\ (n + 3) + 1 = n + 4
      BY <1>1
    <3>2. InSection(u, (n + 3) + 1, s)
      BY <3>1, <2>5, <2>10, <1>3, NextSection
    <3> QED
      BY <3>1, <3>2
  <2>12. sec' = s
    BY <1>2, <1>5 DEF s
  <2>13. \A i \in n + 1 .. n + 3 : \E q : InSection(u, i, q)
    <3> TAKE i \in n + 1 .. n + 3
    <3>1. i = n + 1 \/ i = n + 2 \/ i = n + 3
      BY <1>1
    <3> QED
      BY <3>1, <2>7, <2>9, <2>10
  <2>14. \A i \in n + 1 .. (n + 3) - 1 : u[i].kind # "assign"
    <3> TAKE i \in n + 1 .. (n + 3) - 1
    <3>1. i = n + 1 \/ i = n + 2
      BY <1>1
    <3> QED
      BY <3>1, <2>8
  <2>15. n + 4 = (n + 3) + 1 /\ n + 3 > n
    BY <1>1
  <2> QED
    BY <2>5, <2>6, <2>10, <2>11, <2>12, <2>13, <2>14, <2>15 DEF u, k, l, s
<1> QED
  BY <1>4, <1>5

LEMMA DumpKeyStep == ASSUME HeadsSorted, TextInv, DumpKey PROVE TextInv'
<1> DEFINE k == Order[pos]
<1>1. /\ phase = "dump" /\ pos <= Len(Order) /\ pos \in 1 .. Len(Order) /\ Len(Order) \in Nat
      /\ k \in TextKeys /\ dict \in Dicts /\ back \in [TextKeys -> Reads]
      /\ text \in Seq(TextLines) /\ Len(text) \in Nat
      /\ Sectioned(text) /\ TrueLines(text, dict, edited)
      /\ edited = {} /\ back = NothingRead
      /\ InSection(text, Len(text) + 1, sec)
      /\ sec = TopLevel \/ \E p \in 1 .. pos - 1 : sec = Order[p][1]
      /\ AllWritten(text, dict, edited, KeysBefore(pos))
  BY OrderFacts DEF TextInv, TextOK, Dumping, DumpKey
<1>2. /\ pos' = pos + 1 /\ phase' = phase /\ dict' = dict /\ edited' = edited /\ back' = back
      /\ dict[k] = Absent => text' = text /\ sec' = sec
  BY DEF DumpKey
<1>3. KeysBefore(pos') = KeysBefore(pos) \cup {k}
  <2>1. 1 .. pos' - 1 = (1 .. pos - 1) \cup {pos}
    BY <1>1, <1>2
  <2> QED
    BY <2>1 DEF KeysBefore
<1>4. CASE dict[k] = Absent
  <2>1. Absent \notin TextValues
    BY McfgTextAssumption
  <2>2. AllWritten(text, dict, edited, KeysBefore(pos'))
    BY <1>1, <1>3, <1>4, <2>1 DEF AllWritten
  <2>3. sec = TopLevel \/ \E p \in 1 .. pos' - 1 : sec = Order[p][1]
    BY <1>1, <1>2
  <2>4. TextOK'
    BY <1>1, <1>2, <1>4 DEF TextInv, TextOK
  <2>5. Dumping'
    <3>1. pos' <= Len(Order) + 1
      BY <1>1, <1>2
    <3> QED
      BY <3>1, <1>1, <1>2, <1>4, <2>2, <2>3 DEF Dumping
  <2> QED
    BY <2>4, <2>5, <1>1, <1>2 DEF TextInv
<1>5. CASE dict[k] # Absent
  <2> DEFINE u == text'
             n == Len(text)
             N == Len(u)
  <2>1. /\ u \in Seq(TextLines) /\ N > n
        /\ \A i \in 1 .. n : u[i] = text[i]
        /\ \A i \in n + 1 .. N - 1 : u[i].kind # "assign"
        /\ u[N] = LineFor(k)
        /\ \A i \in n + 1 .. N : \E s : InSection(u, i, s)
        /\ InSection(u, N, k[1])
        /\ InSection(u, N + 1, sec') /\ sec' = k[1]
    BY <1>5, KeyLines
  <2>2. N \in Nat /\ n \in Nat
    BY <2>1, <1>1
  <2>3. Sectioned(u)
    <3> SUFFICES ASSUME NEW i \in 1 .. N + 1 PROVE \E s : InSection(u, i, s)
      BY DEF Sectioned
    <3>1. CASE i \in 1 .. n
      <4>1. PICK s : InSection(text, i, s)
        BY <3>1, <1>1, <2>2 DEF Sectioned
      <4>2. \A j \in 1 .. i - 1 : u[j] = text[j]
        BY <3>1, <2>1
      <4>3. InSection(u, i, s)
        BY <4>1, <4>2, SameSection
      <4> QED
        BY <4>3
    <3>2. CASE i \in n + 1 .. N
      BY <3>2, <2>1
    <3>3. CASE i = N + 1
      BY <3>3, <2>1
    <3> QED
      BY <3>1, <3>2, <3>3, <2>2
  <2>4. ASSUME NEW j \in TextKeys, HasLine(text, j) PROVE HasLine(u, j)
    <3>1. PICK i \in 1 .. n : Written(text, i, j)
      BY <2>4 DEF HasLine
    <3>2. Written(u, i, j)
      BY <3>1, <2>1, <2>2, SameLines
    <3>3. i \in 1 .. N
      BY <2>1, <2>2
    <3> QED
      BY <3>2, <3>3 DEF HasLine
  <2>5. dict[k] \in TextValues => /\ Written(u, N, k) /\ u[N].val = dict[k]
    <3> SUFFICES ASSUME dict[k] \in TextValues PROVE Written(u, N, k) /\ u[N].val = dict[k]
      OBVIOUS
    <3>1. dict[k] # Undef
      BY McfgTextAssumption
    <3>2. u[N] = Assign(k[2], dict[k])
      BY <3>1, <2>1 DEF LineFor
    <3>3. u[N].kind = "assign" /\ u[N].name = k[2] /\ u[N].val = dict[k]
      BY <3>2 DEF Assign
    <3> QED
      BY <3>3, <2>1 DEF Written
  <2>6. TrueLines(u, dict, edited)
    <3> SUFFICES ASSUME NEW i \in 1 .. N, u[i].kind = "assign"
                 PROVE  \E j \in TextKeys :
                          /\ Written(u, i, j)
                          /\ j \in edited \/ (dict[j] \in TextValues /\ u[i].val = dict[j])
      BY DEF TrueLines, TrueLine
    <3>1. CASE i \in 1 .. n
      <4>1. u[i] = text[i]
        BY <3>1, <2>1
      <4>2. PICK j \in TextKeys :
               /\ Written(text, i, j)
               /\ j \in edited \/ (dict[j] \in TextValues /\ text[i].val = dict[j])
        BY <3>1, <4>1, <1>1 DEF TrueLines, TrueLine
      <4>3. Written(u, i, j)
        BY <3>1, <4>2, <2>1, <2>2, SameLines
      <4> QED
        BY <4>1, <4>2, <4>3
    <3>2. CASE i \in n + 1 .. N - 1
      BY <3>2, <2>1
    <3>3. CASE i = N
      <4>1. dict[k] # Undef
        BY <3>3, <2>1 DEF LineFor, BlankLine
      <4>2. dict[k] \in TextValues
        BY <4>1, <1>1, <1>5 DEF Dicts
      <4> QED
        BY <4>2, <3>3, <2>5, <1>1
    <3> QED
      BY <3>1, <3>2, <3>3, <2>2
  <2>7. AllWritten(u, dict, edited, KeysBefore(pos'))
    <3> SUFFICES ASSUME NEW j \in KeysBefore(pos'), j \notin edited, dict[j] \in TextValues
                 PROVE  HasLine(u, j)
      BY DEF AllWritten
    <3>1. CASE j \in KeysBefore(pos)
      <4>1. HasLine(text, j)
        BY <3>1, <1>1 DEF AllWritten
      <4>2. j \in TextKeys
        <5>1. \A l \in 1 .. pos - 1 : l \in 1 .. Len(Order)
          BY <1>1
        <5> QED
          BY <3>1, <5>1, OrderFacts DEF KeysBefore
      <4> QED
        BY <4>1, <4>2, <2>4
    <3>2. CASE j = k
      <4>1. Written(u, N, k) /\ N \in 1 .. N
        BY <3>2, <2>1, <2>2, <2>5
      <4> QED
        BY <3>2, <4>1 DEF HasLine
    <3> QED
      BY <3>1, <3>2, <1>3
  <2>8. \E p \in 1 .. pos' - 1 : sec' = Order[p][1]
    <3>1. pos \in 1 .. pos' - 1
      BY <1>1, <1>2
    <3> QED
      BY <3>1, <2>1
  <2> HIDE DEF k
  <2>9. TextOK'
    <3>1. pos' \in Nat \ {0}
      BY <1>1, <1>2
    <3> QED
      BY <3>1, <1>1, <1>2, <2>1, <2>3, <2>6 DEF TextInv, TextOK
  <2>10. Dumping'
    <3>1. pos' <= Len(Order) + 1
      BY <1>1, <1>2
    <3> QED
      BY <3>1, <1>1, <1>2, <2>1, <2>7, <2>8 DEF Dumping
  <2> QED
    BY <2>9, <2>10, <1>1, <1>2 DEF TextInv
<1> QED
  BY <1>4, <1>5

LEMMA DumpEndStep == ASSUME TextInv, DumpEmpty \/ DumpDone PROVE TextInv'
<1>1. CASE DumpEmpty
  <2>1. TextOK'
    BY <1>1 DEF TextInv, TextOK, DumpEmpty
  <2>2. phase' = "done" /\ rv' = -1
    BY <1>1 DEF DumpEmpty
  <2> QED
    BY <2>1, <2>2 DEF TextInv, Loaded
<1>2. CASE DumpDone
  <2>1. /\ phase = "dump" /\ phase' = "edit" /\ pos > Len(Order) /\ pos' = 1 /\ sec' = TopLevel
        /\ dict' = dict /\ text' = text /\ edited' = edited /\ back' = back
    BY <1>2 DEF DumpDone
  <2>2. Dumping /\ TextOK
    BY <2>1 DEF TextInv
  <2>3. TextKeys \subseteq KeysBefore(pos)
    <3> SUFFICES ASSUME NEW k \in TextKeys PROVE k \in KeysBefore(pos)
      OBVIOUS
    <3>1. PICK i \in 1 .. Len(Order) : Order[i] = k
      BY OrderFacts
    <3>2. i \in 1 .. pos - 1
      BY <2>1, <2>2, OrderFacts DEF TextOK
    <3> QED
      BY <3>1, <3>2 DEF KeysBefore
  <2>4. AllWritten(text, dict, edited, TextKeys)
    BY <2>2, <2>3 DEF AllWritten, Dumping
  <2>5. Editing'
    BY <2>1, <2>2, <2>4 DEF Editing, Dumping
  <2>6. TextOK'
    BY <2>1, <2>2 DEF TextOK
  <2> QED
    BY <2>1, <2>5, <2>6 DEF TextInv
<1> QED
  BY <1>1, <1>2

(***************************************************************************)
(* What an operator does to the lines, and the reading of them.            *)
(***************************************************************************)
LEMMA NothingReadYet ==
  ASSUME NEW t, NEW d, NEW e
  PROVE  ReadUpto(t, d, e, NothingRead, 1)
  BY DEF ReadUpto, NothingRead

LEMMA EditStep == ASSUME TextInv, Edit PROVE TextInv'
<1>1. PICK i \in 1 .. Len(text) + 1, l \in EditLines :
        /\ phase = "edit"
        /\ text' = InsertAt(text, i, l)
        /\ edited' = IF l.kind = "assign" THEN {<<SectionAt(i), l.name>>} ELSE {}
        /\ l.kind = "assign" => <<SectionAt(i), l.name>> \in TextKeys
        /\ phase' = "load"
        /\ UNCHANGED <<dict, pos, sec, back, rv>>
  BY DEF Edit
<1> DEFINE u == text'
           n == Len(text)
           N == Len(u)
           key == <<SectionAt(i), l.name>>
<1>2. /\ TextOK /\ Editing /\ text \in Seq(TextLines) /\ n \in Nat
      /\ dict \in Dicts /\ back \in [TextKeys -> Reads] /\ pos = 1 /\ edited = {}
      /\ Sectioned(text) /\ TrueLines(text, dict, edited)
      /\ AllWritten(text, dict, edited, TextKeys)
  BY <1>1 DEF TextInv, TextOK, Editing
<1>3. l \in TextLines /\ l.kind # "header"
  <2>1. l.kind \in {"assign", "blank", "bad"}
    BY McfgTextAssumption
  <2> QED
    BY <2>1 DEF TextLines
<1>4. /\ u \in Seq(TextLines) /\ N = n + 1
      /\ \A j \in 1 .. i - 1 : u[j] = text[j]
      /\ u[i] = l
      /\ \A j \in i + 1 .. n + 1 : u[j] = text[j - 1]
  <2> DEFINE w == InsertAt(text, i, l)
  <2>1. /\ w \in Seq(TextLines) /\ Len(w) = Len(text) + 1
        /\ \A j \in 1 .. i - 1 : w[j] = text[j]
        /\ w[i] = l
        /\ \A j \in i + 1 .. Len(text) + 1 : w[j] = text[j - 1]
    <3> HIDE DEF u
    <3> QED
      BY <1>2, <1>3, Inserted
  <2>2. u = w
    BY <1>1
  <2> HIDE DEF w, u
  <2> QED
    BY <2>1, <2>2
<1>5. dict' = dict /\ edited' \subseteq TextKeys /\ back' = back /\ pos' = 1 /\ sec' = sec
  BY <1>1, <1>2
<1> HIDE DEF u
<1>6. ASSUME NEW j \in 1 .. n + 1, NEW s, InSection(text, j, s)
      PROVE  /\ j <= i => InSection(u, j, s)
             /\ j >= i => InSection(u, j + 1, s)
  BY <1>2, <1>3, <1>4, <1>6, InsertedSection
<1>7. ASSUME NEW j \in 1 .. N + 1 PROVE \E s : InSection(u, j, s)
  <2>1. CASE j <= i
    <3>1. PICK s : InSection(text, j, s)
      BY <2>1, <1>2 DEF Sectioned
    <3>2. j \in 1 .. n + 1
      BY <2>1, <1>2
    <3> QED
      BY <2>1, <3>1, <3>2, <1>6
  <2>2. CASE ~(j <= i)
    <3>1. j - 1 \in 1 .. n + 1 /\ j - 1 >= i /\ (j - 1) + 1 = j
      BY <2>2, <1>2, <1>4
    <3>2. PICK s : InSection(text, j - 1, s)
      BY <3>1, <1>2 DEF Sectioned
    <3>3. InSection(u, (j - 1) + 1, s)
      BY <3>1, <3>2, <1>6
    <3> QED
      BY <3>1, <3>3
  <2> QED
    BY <2>1, <2>2
\* Where line j of the old text is now.
<1>8. ASSUME NEW j \in 1 .. n
      PROVE  LET h == IF j < i THEN j ELSE j + 1
             IN h \in 1 .. N /\ u[h] = text[j] /\ \A k : Written(text, j, k) => Written(u, h, k)
  <2> DEFINE h == IF j < i THEN j ELSE j + 1
  <2>1. h \in 1 .. N /\ u[h] = text[j]
    <3>1. CASE j < i
      BY <3>1, <1>2, <1>4
    <3>2. CASE ~(j < i)
      <4>1. j + 1 \in i + 1 .. n + 1 /\ (j + 1) - 1 = j
        BY <3>2, <1>2
      <4> QED
        BY <4>1, <3>2, <1>2, <1>4
    <3> QED
      BY <3>1, <3>2
  <2>2. \A s : InSection(text, j, s) => InSection(u, h, s)
    <3>1. j \in 1 .. n + 1 /\ (j < i => j <= i) /\ (~(j < i) => j >= i)
      BY <1>2
    <3> QED
      BY <3>1, <1>6
  <2> QED
    BY <2>1, <2>2 DEF Written
<1>9. ASSUME NEW h \in 1 .. N
      PROVE  h = i \/ \E j \in 1 .. n : h = IF j < i THEN j ELSE j + 1
  <2>1. CASE h < i
    BY <2>1, <1>2, <1>4
  <2>2. CASE h > i
    <3>1. h - 1 \in 1 .. n /\ h = IF h - 1 < i THEN h - 1 ELSE (h - 1) + 1
      BY <2>2, <1>2, <1>4
    <3> QED
      BY <3>1
  <2> QED
    BY <2>1, <2>2
<1>10. TrueLines(u, dict, edited')
  <2> SUFFICES ASSUME NEW h \in 1 .. N, u[h].kind = "assign"
               PROVE  \E k \in TextKeys :
                        /\ Written(u, h, k)
                        /\ k \in edited' \/ (dict[k] \in TextValues /\ u[h].val = dict[k])
    BY DEF TrueLines, TrueLine
  <2>1. CASE h = i
    <3>1. l.kind = "assign"
      BY <2>1, <1>4
    <3>2. edited' = {key} /\ key \in TextKeys /\ key[1] = SectionAt(i) /\ key[2] = l.name
      BY <3>1, <1>1
    <3>3. PICK s : InSection(text, i, s)
      BY <1>2 DEF Sectioned
    <3>4. SectionAt(i) = s
      <4>1. i \in Nat \ {0}
        BY <1>2
      <4> QED
        BY <4>1, <3>3, SectionAtIs
    <3>5. InSection(u, i, key[1])
      <4>1. i <= i
        BY <1>2
      <4>2. InSection(u, i, s)
        BY <4>1, <3>3, <1>6
      <4> QED
        BY <4>2, <3>2, <3>4
    <3>6. Written(u, i, key)
      BY <3>1, <3>2, <3>5, <1>4 DEF Written
    <3> QED
      BY <2>1, <3>2, <3>6
  <2>2. CASE h # i
    <3>1. PICK j \in 1 .. n : h = IF j < i THEN j ELSE j + 1
      BY <2>2, <1>9
    <3>2. u[h] = text[j] /\ \A k : Written(text, j, k) => Written(u, h, k)
      BY <3>1, <1>8
    <3>3. PICK k \in TextKeys :
             /\ Written(text, j, k)
             /\ k \in edited \/ (dict[k] \in TextValues /\ text[j].val = dict[k])
      BY <3>2, <1>2 DEF TrueLines, TrueLine
    <3>4. k \notin edited
      BY <1>2
    <3> QED
      BY <3>2, <3>3, <3>4
  <2> QED
    BY <2>1, <2>2
<1>11. AllWritten(u, dict, edited', TextKeys)
  <2> SUFFICES ASSUME NEW k \in TextKeys, dict[k] \in TextValues PROVE HasLine(u, k)
    BY DEF AllWritten
  <2>1. PICK j \in 1 .. n : Written(text, j, k)
    BY <1>2 DEF AllWritten, HasLine
  <2>2. PICK h \in 1 .. N : Written(u, h, k)
    BY <2>1, <1>8
  <2> QED
    BY <2>2 DEF HasLine
<1>12. InSection(u, 1, sec) /\ 1 <= N + 1
  <2>1. sec = TopLevel
    BY <1>2 DEF Editing
  <2> QED
    BY <2>1, <1>2, <1>4 DEF InSection, NoHeader
<1>13. ReadUpto(u, dict, edited', back, 1)
  <2>1. back = NothingRead
    BY <1>2 DEF Editing
  <2> QED
    BY <2>1, NothingReadYet
<1>14. TextOK'
  BY <1>1, <1>2, <1>4, <1>5, <1>7, <1>10 DEF TextOK, Sectioned, u
<1>15. Loading'
  BY <1>4, <1>5, <1>11, <1>12, <1>13 DEF Loading, u
<1> QED
  BY <1>1, <1>14, <1>15 DEF TextInv

LEMMA NoEditStep == ASSUME TextInv, NoEdit PROVE TextInv'
<1>1. /\ phase = "edit" /\ phase' = "load" /\ dict' = dict /\ pos' = pos /\ sec' = sec
      /\ text' = text /\ edited' = edited /\ back' = back
  BY DEF NoEdit
<1>2. TextOK /\ Editing
  BY <1>1 DEF TextInv
<1>3. InSection(text, 1, sec)
  BY <1>2 DEF Editing, InSection, NoHeader
<1>4. ReadUpto(text, dict, edited, back, 1)
  BY <1>2, NothingReadYet DEF Editing
<1>5. 1 <= Len(text) + 1
  BY <1>2 DEF TextOK
<1>6. Loading'
  BY <1>1, <1>2, <1>3, <1>4, <1>5 DEF Loading, Editing
<1>7. TextOK'
  BY <1>1, <1>2 DEF TextOK
<1> QED
  BY <1>1, <1>6, <1>7 DEF TextInv

\* What the invariant says while lines are read.
LEMMA LoadFacts ==
  ASSUME TextInv, phase = "load"
  PROVE  /\ TextOK /\ Loading /\ pos \in Nat \ {0} /\ Len(text) \in Nat
         /\ text \in Seq(TextLines) /\ dict \in Dicts /\ back \in [TextKeys -> Reads]
         /\ pos <= Len(text) + 1 /\ InSection(text, pos, sec)
         /\ TrueLines(text, dict, edited)
         /\ AllWritten(text, dict, edited, TextKeys)
         /\ ReadUpto(text, dict, edited, back, pos)
  BY DEF TextInv, TextOK, Loading

\* A line that assigns nothing has been read as soon as it is passed.
LEMMA PassLine ==
  ASSUME NEW t, NEW d, NEW e, NEW b, NEW n \in Nat \ {0}, t[n].kind # "assign",
         ReadUpto(t, d, e, b, n)
  PROVE  ReadUpto(t, d, e, b, n + 1)
<1> SUFFICES ASSUME NEW k \in TextKeys, k \notin e
             PROVE  /\ b[k] = Absent \/ b[k] = Rest(d, k)
                    /\ \A i \in 1 .. (n + 1) - 1 : Written(t, i, k) => b[k] = Rest(d, k)
  BY DEF ReadUpto
<1>1. /\ b[k] = Absent \/ b[k] = Rest(d, k)
      /\ \A i \in 1 .. n - 1 : Written(t, i, k) => b[k] = Rest(d, k)
  BY DEF ReadUpto
<1>2. ~Written(t, n, k)
  BY DEF Written
<1>3. \A i \in 1 .. (n + 1) - 1 : i = n \/ i \in 1 .. n - 1
  OBVIOUS
<1> QED
  BY <1>1, <1>2, <1>3

LEMMA PassStep == ASSUME TextInv, LoadHeader \/ LoadBlank PROVE TextInv'
<1>1. /\ phase = "load" /\ pos <= Len(text) /\ text[pos].kind \in {"header", "blank"}
      /\ sec' = IF text[pos].kind = "header" THEN text[pos].sec ELSE sec
      /\ pos' = pos + 1 /\ phase' = phase /\ dict' = dict /\ text' = text
      /\ edited' = edited /\ back' = back
  BY DEF LoadHeader, LoadBlank, Reading, NextLine
<1>2. /\ TextOK /\ pos \in Nat \ {0} /\ Len(text) \in Nat
      /\ InSection(text, pos, sec)
      /\ AllWritten(text, dict, edited, TextKeys)
      /\ ReadUpto(text, dict, edited, back, pos)
  BY <1>1, LoadFacts
<1>3. InSection(text, pos + 1, sec')
  <2>1. CASE text[pos].kind = "header"
    BY <1>1, <1>2, <2>1, HeaderSection
  <2>2. CASE text[pos].kind # "header"
    BY <1>1, <1>2, <2>2, NextSection
  <2> QED
    BY <2>1, <2>2
<1>4. ReadUpto(text, dict, edited, back, pos + 1)
  <2>1. text[pos].kind # "assign"
    BY <1>1
  <2> QED
    BY <1>2, <2>1, PassLine
<1>5. pos + 1 <= Len(text) + 1 /\ pos + 1 \in Nat \ {0}
  BY <1>1, <1>2
<1>6. TextOK'
  BY <1>1, <1>2, <1>5 DEF TextOK
<1>7. Loading'
  BY <1>1, <1>2, <1>3, <1>4, <1>5 DEF Loading
<1> QED
  BY <1>1, <1>6, <1>7 DEF TextInv

\* mcfg_load_buffer on an assignment: the key is that of the line, its value
\* what mcfg_dump_buffer wrote unless an operator assigned the key.
LEMMA AssignStep == ASSUME TextInv, LoadAssign PROVE TextInv'
<1> DEFINE v == Cut[text[pos].val]
           key == <<sec, text[pos].name>>
<1>1. /\ phase = "load" /\ pos <= Len(text) /\ text[pos].kind = "assign"
      /\ sec' = sec /\ pos' = pos + 1 /\ phase' = phase /\ dict' = dict /\ text' = text
      /\ edited' = edited
      /\ back' = IF v = Blank THEN back ELSE [back EXCEPT ![key] = v]
  BY DEF LoadAssign, Reading, NextLine, Store
<1>2. /\ TextOK /\ pos \in Nat \ {0} /\ Len(text) \in Nat /\ pos \in 1 .. Len(text)
      /\ text \in Seq(TextLines) /\ dict \in Dicts /\ back \in [TextKeys -> Reads]
      /\ InSection(text, pos, sec)
      /\ TrueLines(text, dict, edited)
      /\ AllWritten(text, dict, edited, TextKeys)
      /\ ReadUpto(text, dict, edited, back, pos)
  BY <1>1, LoadFacts
<1>3. PICK j \in TextKeys :
         /\ Written(text, pos, j)
         /\ j \in edited \/ (dict[j] \in TextValues /\ text[pos].val = dict[j])
  BY <1>1, <1>2 DEF TrueLines, TrueLine
<1>4. j = key
  <2>1. j[2] = text[pos].name /\ InSection(text, pos, j[1])
    BY <1>3 DEF Written
  <2>2. j[1] = sec
    BY <1>2, <2>1, OneSection
  <2>3. j = <<j[1], j[2]>>
    BY McfgTextAssumption
  <2> QED
    BY <2>1, <2>2, <2>3
<1>5. v \in Reads
  <2>1. text[pos] \in TextLines
    BY <1>2
  <2> QED
    BY <2>1 DEF Reads
<1> HIDE DEF v, key
<1>6. /\ back' \in [TextKeys -> Reads]
      /\ \A k \in TextKeys : k # j => back'[k] = back[k]
      /\ back'[j] = IF v = Blank THEN back[j] ELSE v
  BY <1>1, <1>2, <1>4, <1>5
<1>7. InSection(text, pos + 1, sec)
  <2>1. text[pos].kind # "header"
    BY <1>1
  <2> QED
    BY <1>2, <2>1, NextSection
<1>8. ASSUME j \notin edited
      PROVE  back'[j] = Rest(dict, j)
  <2>1. dict[j] \in TextValues /\ v = Cut[dict[j]]
    BY <1>3, <1>8 DEF v
  <2>2. Rest(dict, j) = IF v # Blank THEN v ELSE Absent
    BY <2>1 DEF Rest
  <2>3. back[j] = Absent \/ back[j] = Rest(dict, j)
    BY <1>2, <1>8 DEF ReadUpto
  <2> QED
    BY <2>2, <2>3, <1>6
<1>9. ReadUpto(text, dict, edited, back', pos + 1)
  <2> SUFFICES ASSUME NEW k \in TextKeys, k \notin edited
               PROVE  /\ back'[k] = Absent \/ back'[k] = Rest(dict, k)
                      /\ \A i \in 1 .. (pos + 1) - 1 :
                           Written(text, i, k) => back'[k] = Rest(dict, k)
    BY DEF ReadUpto
  <2>1. CASE k = j
    BY <2>1, <1>8
  <2>2. CASE k # j
    <3>1. back'[k] = back[k]
      BY <2>2, <1>6
    <3>2. /\ back[k] = Absent \/ back[k] = Rest(dict, k)
          /\ \A i \in 1 .. pos - 1 : Written(text, i, k) => back[k] = Rest(dict, k)
      BY <1>2 DEF ReadUpto
    <3>3. ~Written(text, pos, k)
      BY <2>2, <1>2, <1>3, OneKey
    <3>4. \A i \in 1 .. (pos + 1) - 1 : i = pos \/ i \in 1 .. pos - 1
      BY <1>2
    <3> QED
      BY <3>1, <3>2, <3>3, <3>4
  <2> QED
    BY <2>1, <2>2
<1>10. pos + 1 <= Len(text) + 1 /\ pos + 1 \in Nat \ {0}
  BY <1>1, <1>2
<1>11. TextOK'
  BY <1>1, <1>2, <1>6, <1>10 DEF TextOK
<1>12. Loading'
  <2> DEFINE b == back'
  <2>1. ReadUpto(text, dict, edited, b, pos + 1)
    BY <1>9
  <2> QED
    BY <1>1, <1>2, <1>7, <1>9, <1>10 DEF Loading
<1> QED
  BY <1>1, <1>11, <1>12 DEF TextInv

LEMMA StopStep == ASSUME TextInv, LoadBad \/ LoadDone PROVE TextInv'
<1>1. /\ phase = "load" /\ phase' = "done" /\ pos' = pos /\ dict' = dict /\ text' = text
      /\ edited' = edited /\ back' = back
      /\ rv' = -1 \/ pos > Len(text)
  BY DEF LoadBad, LoadDone, Reading
<1>2. /\ TextOK /\ pos \in Nat \ {0} /\ Len(text) \in Nat /\ pos <= Len(text) + 1
      /\ AllWritten(text, dict, edited, TextKeys)
      /\ ReadUpto(text, dict, edited, back, pos)
  BY <1>1, LoadFacts
<1>3. TextOK'
  BY <1>1, <1>2 DEF TextOK
<1>4. Loaded'
  <2>1. CASE rv' = -1
    BY <2>1 DEF Loaded
  <2>2. CASE pos > Len(text)
    <3>1. pos = Len(text) + 1
      BY <2>2, <1>2
    <3> QED
      BY <3>1, <1>1, <1>2 DEF Loaded
  <2> QED
    BY <1>1, <2>1, <2>2
<1> QED
  BY <1>1, <1>3, <1>4 DEF TextInv

LEMMA TextInvNext == ASSUME HeadsSorted PROVE TextInv /\ [TextNext]_textvars => TextInv'
<1> SUFFICES ASSUME TextInv, [TextNext]_textvars PROVE TextInv'
  OBVIOUS
<1>1. CASE DumpKey
  BY <1>1, DumpKeyStep
<1>2. CASE DumpEmpty \/ DumpDone
  BY <1>2, DumpEndStep
<1>3. CASE Edit
  BY <1>3, EditStep
<1>4. CASE NoEdit
  BY <1>4, NoEditStep
<1>5. CASE LoadHeader \/ LoadBlank
  BY <1>5, PassStep
<1>6. CASE LoadAssign
  BY <1>6, AssignStep
<1>7. CASE LoadBad \/ LoadDone
  BY <1>7, StopStep
<1>8. CASE UNCHANGED textvars
  BY <1>8 DEF textvars, TextInv, TextOK, Dumping, Editing, Loading, Loaded
<1> QED
  BY <1>1, <1>2, <1>3, <1>4, <1>5, <1>6, <1>7, <1>8 DEF TextNext

LEMMA TextInvReads == TextInv => RoundTrip
<1> SUFFICES ASSUME TextInv, phase = "done", rv = 0, NEW k \in TextKeys \ edited
             PROVE  back[k] = Expected(k)
  BY DEF RoundTrip
<1>1. /\ AllWritten(text, dict, edited, TextKeys)
      /\ ReadUpto(text, dict, edited, back, Len(text) + 1)
      /\ Len(text) \in Nat
  BY DEF TextInv, TextOK, Loaded
<1>2. Expected(k) = Rest(dict, k)
  BY DEF Expected, Rest
<1>3. /\ back[k] = Absent \/ back[k] = Rest(dict, k)
      /\ \A i \in 1 .. (Len(text) + 1) - 1 : Written(text, i, k) => back[k] = Rest(dict, k)
  BY <1>1 DEF ReadUpto
<1>4. CASE dict[k] \in TextValues
  <2>1. PICK i \in 1 .. Len(text) : Written(text, i, k)
    BY <1>1, <1>4 DEF AllWritten, HasLine
  <2>2. i \in 1 .. (Len(text) + 1) - 1
    BY <1>1
  <2> QED
    BY <1>2, <1>3, <2>1, <2>2
<1>5. CASE dict[k] \notin TextValues
  <2>1. Rest(dict, k) = Absent
    BY <1>5 DEF Rest
  <2> QED
    BY <1>2, <1>3, <2>1
<1> QED
  BY <1>4, <1>5

\* A dictionary written by mcfg_dump_buffer and read by mcfg_load_buffer has
\* the values it had, cut at their first ';' -- but for the one key an operator
\* assigned to -- whatever the keys, values, sections and edits, provided no
\* section begins with the name of a section that sorts after it.
THEOREM TextKept == TextSpec => []RoundTrip
<1>1. CASE HeadsSorted
  <2>1. TextInv /\ [TextNext]_textvars => TextInv'
    BY <1>1, TextInvNext
  <2> QED
    BY <2>1, TextInvInit, TextInvReads, PTL DEF TextSpec
<1>2. CASE ~HeadsSorted
  <2>1. RoundTrip
    BY <1>2 DEF RoundTrip
  <2>2. RoundTrip'
    BY <1>2 DEF RoundTrip
  <2> QED
    BY <2>1, <2>2, PTL DEF TextSpec
<1> QED
  BY <1>1, <1>2
=============================================================================
