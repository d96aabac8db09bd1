-------------------------- MODULE OrderAmountsProofs --------------------------
(***************************************************************************)
(* What the arithmetic of OrderAmounts computes, for all amounts, prices,  *)
(* rates and books.                                                        *)
(*                                                                         *)
(* The sums over an order book are folds over a finite set, so that what   *)
(* they compute is proved by induction: a set of counterexamples that is   *)
(* not empty has a smallest member (SmallestSet, from the well-foundedness *)
(* of < on Nat), which the step refutes.                                   *)
(***************************************************************************)
EXTENDS OrderAmounts, FiniteSetTheorems, WellFoundedInduction, TLAPS

-----------------------------------------------------------------------------
(* Induction.                                                              *)

LEMMA LeastBy ==
    ASSUME NEW R, IsWellFoundedOn(R, Nat),
           \A x, y \in Nat : x < y => <<x, y>> \in R,
           NEW T, T \subseteq Nat, T # {}
    PROVE  \E x \in T : \A y \in T : x <= y
<1>1. IsWellFoundedOn(R, Nat) /\ T \subseteq Nat /\ T # {}
    OBVIOUS
<1>2. PICK x \in T : \A y \in T : ~(<<y, x>> \in R)
  <2>1. \E x \in T : \A y \in T : ~(<<y, x>> \in R)
    BY ONLY <1>1, WFMin
  <2> QED
    BY <2>1
<1>3. ASSUME NEW y \in T PROVE x <= y
  <2>1. x \in Nat /\ y \in Nat
    OBVIOUS
  <2>2. ~(y < x)
    BY <1>2, <2>1, Zenon
  <2> QED
    BY <2>1, <2>2
<1> QED
    BY <1>3

LEMMA LeastNatural ==
    ASSUME NEW T, T \subseteq Nat, T # {}
    PROVE  \E x \in T : \A y \in T : x <= y
<1> DEFINE R == OpToRel(<, Nat)
<1>1. IsWellFoundedOn(R, Nat)
    BY NatLessThanWellFounded
<1>2. \A x, y \in Nat : x < y => <<x, y>> \in R
    BY DEF OpToRel
<1> HIDE DEF R
<1> QED
    BY <1>1, <1>2, LeastBy

\* Among sets of subsets of a finite set one is smallest: without any one of its
\* elements it is not among them.
LEMMA SmallestSet ==
    ASSUME NEW S, IsFiniteSet(S), NEW Bad, Bad \subseteq SUBSET S, Bad # {}
    PROVE  \E s \in Bad : \A x \in s : s \ {x} \notin Bad
<1> DEFINE Sizes == {Cardinality(s) : s \in Bad}
<1>1. \A s \in SUBSET S : IsFiniteSet(s) /\ Cardinality(s) \in Nat
    BY FS_Subset, FS_CardinalityType
<1>2. PICK n \in Sizes : \A m \in Sizes : n <= m
  <2>1. Sizes \subseteq Nat /\ Sizes # {}
    BY <1>1
  <2> HIDE DEF Sizes
  <2> QED
    BY <2>1, LeastNatural
<1>3. PICK s \in Bad : n = Cardinality(s)
    OBVIOUS
<1>4. ASSUME NEW x \in s, s \ {x} \in Bad PROVE FALSE
  <2>1. Cardinality(s \ {x}) = n - 1 /\ n \in Nat
    BY <1>1, <1>3, FS_RemoveElement
  <2>2. n <= Cardinality(s \ {x})
    BY <1>2, <1>4
  <2> QED
    BY <2>1, <2>2
<1> QED
    BY <1>4

-----------------------------------------------------------------------------
(* Sums.                                                                   *)

\* The fold behind SumFunctionOnSet: g is the table of the sums of the subsets.
Pick(s) == CHOOSE x \in s : TRUE
Sums(g, f, S) ==
    g = [s \in SUBSET S |-> IF s = {} THEN 0 ELSE f[Pick(s)] + g[s \ {Pick(s)}]]

LEMMA SumIsFold ==
    \A f, S : SumFunctionOnSet(f, S) = (CHOOSE g : Sums(g, f, S))[S]
<1> QED
    BY DEF SumFunctionOnSet, FoldFunctionOnSet, MapThenFoldSet, Sums, Pick

LEMMA PickedIsIn == \A s : s # {} => Pick(s) \in s
<1> QED
    BY DEF Pick

LEMMA SumsAt ==
    ASSUME NEW f, NEW S, NEW g, Sums(g, f, S), NEW s \in SUBSET S
    PROVE  g[s] = IF s = {} THEN 0 ELSE f[Pick(s)] + g[s \ {Pick(s)}]
<1> DEFINE h == [t \in SUBSET S |->
                   IF t = {} THEN 0 ELSE f[Pick(t)] + g[t \ {Pick(t)}]]
<1>1. g = h
    BY DEF Sums
<1>2. h[s] = IF s = {} THEN 0 ELSE f[Pick(s)] + g[s \ {Pick(s)}]
    OBVIOUS
<1> QED
    BY <1>1, <1>2

\* The tables of two sets agree on what they share.
LEMMA SumsAgree ==
    ASSUME NEW f, NEW A, NEW B, IsFiniteSet(A),
           NEW g, Sums(g, f, A), NEW h, Sums(h, f, B),
           NEW s \in SUBSET A, s \in SUBSET B
    PROVE  g[s] = h[s]
<1> DEFINE Bad == {t \in SUBSET (A \cap B) : g[t] # h[t]}
<1>1. SUFFICES ASSUME Bad # {} PROVE FALSE
    OBVIOUS
<1>2. PICK t \in Bad : \A x \in t : t \ {x} \notin Bad
  <2>1. Bad \subseteq SUBSET A
    OBVIOUS
  <2> HIDE DEF Bad
  <2> QED
    BY <1>1, <2>1, SmallestSet
<1>3. t \in SUBSET A /\ t \in SUBSET B /\ g[t] # h[t]
    OBVIOUS
<1>4. CASE t = {}
    BY <1>3, <1>4, SumsAt
<1>5. CASE t # {}
  <2>1. Pick(t) \in t
    BY <1>5, PickedIsIn
  <2>2. g[t \ {Pick(t)}] = h[t \ {Pick(t)}]
    BY <1>2, <1>3, <2>1
  <2>3. /\ g[t] = f[Pick(t)] + g[t \ {Pick(t)}]
        /\ h[t] = f[Pick(t)] + h[t \ {Pick(t)}]
    BY <1>3, <1>5, SumsAt
  <2> QED
    BY <1>3, <2>2, <2>3
<1> QED
    BY <1>4, <1>5

\* A finite set has such a table.
LEMMA SumsExist ==
    ASSUME NEW f, NEW S, IsFiniteSet(S)
    PROVE  \E g : Sums(g, f, S)
<1> DEFINE Bad == {s \in SUBSET S : ~\E g : Sums(g, f, s)}
<1>1. SUFFICES ASSUME Bad # {} PROVE FALSE
    OBVIOUS
<1>2. PICK s \in Bad : \A x \in s : s \ {x} \notin Bad
  <2>1. Bad \subseteq SUBSET S
    OBVIOUS
  <2> HIDE DEF Bad
  <2> QED
    BY <1>1, <2>1, SmallestSet
<1>3. s \in SUBSET S /\ ~\E g : Sums(g, f, s)
    OBVIOUS
<1> DEFINE Table(x) == CHOOSE g : Sums(g, f, s \ {x})
<1>4. \A x \in s : Sums(Table(x), f, s \ {x})
  <2>1. \A x \in s : \E g : Sums(g, f, s \ {x})
    BY <1>2, <1>3
  <2> QED
    BY <2>1
<1>5. \A x \in s : IsFiniteSet(s \ {x}) /\ s \ {x} \in SUBSET S
    BY <1>3, FS_Subset
<1> DEFINE whole == [t \in SUBSET s |->
                       IF t = {} THEN 0
                       ELSE f[Pick(t)] + Table(Pick(t))[t \ {Pick(t)}]]
<1> HIDE DEF Table, Bad
<1>6. ASSUME NEW t \in SUBSET s, t # {}
      PROVE  whole[t \ {Pick(t)}] = Table(Pick(t))[t \ {Pick(t)}]
  <2> DEFINE p == Pick(t)
             u == t \ {Pick(t)}
  <2>1. p \in t /\ u \in SUBSET (s \ {p}) /\ u \in SUBSET s
    BY <1>6, PickedIsIn
  <2>2. Sums(Table(p), f, s \ {p})
    BY <1>4, <2>1
  <2>3. Table(p)[u] = IF u = {} THEN 0 ELSE f[Pick(u)] + Table(p)[u \ {Pick(u)}]
    <3> HIDE DEF p, u
    <3> QED
      BY <2>1, <2>2, SumsAt
  <2>4. whole[u] = IF u = {} THEN 0 ELSE f[Pick(u)] + Table(Pick(u))[u \ {Pick(u)}]
    BY <2>1
  <2>5. ASSUME u # {} PROVE Table(p)[u \ {Pick(u)}] = Table(Pick(u))[u \ {Pick(u)}]
    <3>1. Pick(u) \in u
      BY <2>5, PickedIsIn
    <3>2. Sums(Table(Pick(u)), f, s \ {Pick(u)})
      BY <1>4, <2>1, <3>1
    <3>3. /\ u \ {Pick(u)} \in SUBSET (s \ {p})
          /\ u \ {Pick(u)} \in SUBSET (s \ {Pick(u)})
      BY <2>1
    <3>4. IsFiniteSet(s \ {p})
      BY <1>5, <2>1
    <3> HIDE DEF p, u
    <3> QED
      BY <2>2, <3>2, <3>3, <3>4, SumsAgree
  <2> HIDE DEF p, u, whole
  <2>6. whole[u] = Table(p)[u]
    BY <2>3, <2>4, <2>5
  <2> QED
    BY <2>6 DEF p, u
<1>7. whole = [t \in SUBSET s |->
                 IF t = {} THEN 0 ELSE f[Pick(t)] + whole[t \ {Pick(t)}]]
  <2> DEFINE again == [t \in SUBSET s |->
                 IF t = {} THEN 0 ELSE f[Pick(t)] + whole[t \ {Pick(t)}]]
  <2>1. \A t \in SUBSET s : whole[t] = again[t]
    <3> SUFFICES ASSUME NEW t \in SUBSET s PROVE whole[t] = again[t]
      OBVIOUS
    <3>1. whole[t] = IF t = {} THEN 0
                     ELSE f[Pick(t)] + Table(Pick(t))[t \ {Pick(t)}]
      OBVIOUS
    <3>2. again[t] = IF t = {} THEN 0 ELSE f[Pick(t)] + whole[t \ {Pick(t)}]
      OBVIOUS
    <3> HIDE DEF whole, again
    <3> QED
      BY <1>6, <3>1, <3>2
  <2> QED
    BY <2>1
<1>8. Sums(whole, f, s)
  <2> HIDE DEF whole
  <2> QED
    BY <1>7 DEF Sums
<1> QED
    BY <1>3, <1>8

LEMMA SumOf ==
    ASSUME NEW f, NEW S, IsFiniteSet(S)
    PROVE  \E g : Sums(g, f, S) /\ SumFunctionOnSet(f, S) = g[S]
<1> DEFINE g == CHOOSE h : Sums(h, f, S)
<1>1. Sums(g, f, S)
    BY SumsExist
<1>2. SumFunctionOnSet(f, S) = g[S]
    BY SumIsFold
<1> QED
    BY <1>1, <1>2

\* The sum of a part is what the table of the whole says of it.
LEMMA SumOfPart ==
    ASSUME NEW f, NEW S, IsFiniteSet(S), NEW g, Sums(g, f, S), NEW A \in SUBSET S
    PROVE  SumFunctionOnSet(f, A) = g[A]
<1>1. IsFiniteSet(A)
    BY FS_Subset
<1>2. PICK h : Sums(h, f, A) /\ SumFunctionOnSet(f, A) = h[A]
    BY <1>1, SumOf
<1> QED
    BY <1>1, <1>2, SumsAgree

LEMMA TableTyped ==
    ASSUME NEW f, NEW S, IsFiniteSet(S), \A x \in S : f[x] \in Nat,
           NEW g, Sums(g, f, S)
    PROVE  \A s \in SUBSET S : g[s] \in Nat
<1> DEFINE Bad == {s \in SUBSET S : g[s] \notin Nat}
<1>1. SUFFICES ASSUME Bad # {} PROVE FALSE
    OBVIOUS
<1>2. PICK s \in Bad : \A x \in s : s \ {x} \notin Bad
  <2>1. Bad \subseteq SUBSET S
    OBVIOUS
  <2> HIDE DEF Bad
  <2> QED
    BY <1>1, <2>1, SmallestSet
<1>3. s \in SUBSET S
    OBVIOUS
<1>4. g[s] \notin Nat
    OBVIOUS
<1> HIDE DEF Bad
<1>5. g[s] = IF s = {} THEN 0 ELSE f[Pick(s)] + g[s \ {Pick(s)}]
    BY <1>3, SumsAt
<1>6. CASE s # {}
  <2>1. Pick(s) \in s
    BY <1>6, PickedIsIn
  <2>2. f[Pick(s)] \in Nat
    BY <1>3, <2>1
  <2>3. g[s \ {Pick(s)}] \in Nat
    BY <1>2, <1>3, <2>1 DEF Bad
  <2> QED
    BY <1>4, <1>5, <1>6, <2>2, <2>3
<1> QED
    BY <1>4, <1>5, <1>6

\* Any element may be taken off first.
LEMMA TakeAny ==
    ASSUME NEW f, NEW S, IsFiniteSet(S), \A x \in S : f[x] \in Nat,
           NEW g, Sums(g, f, S)
    PROVE  \A s \in SUBSET S : \A x \in s : g[s] = f[x] + g[s \ {x}]
<1> DEFINE Bad == {s \in SUBSET S : \E x \in s : g[s] # f[x] + g[s \ {x}]}
<1>1. SUFFICES ASSUME Bad # {} PROVE FALSE
    OBVIOUS
<1>2. PICK s \in Bad : \A x \in s : s \ {x} \notin Bad
  <2>1. Bad \subseteq SUBSET S
    OBVIOUS
  <2> HIDE DEF Bad
  <2> QED
    BY <1>1, <2>1, SmallestSet
<1>3. PICK x \in s : g[s] # f[x] + g[s \ {x}]
    OBVIOUS
<1>4. s \in SUBSET S
    OBVIOUS
<1> DEFINE p == Pick(s)
<1>5. p \in s /\ g[s] = f[p] + g[s \ {p}]
    BY <1>3, <1>4, SumsAt, PickedIsIn
<1>6. x # p
    BY <1>3, <1>5
<1>7. \A u \in SUBSET S : \A y \in u : u \notin Bad => g[u] = f[y] + g[u \ {y}]
    OBVIOUS
<1> HIDE DEF Bad, p
<1> DEFINE rest == g[(s \ {x}) \ {p}]
           c == g[s \ {p}]
           d == g[s \ {x}]
<1>8. c = f[x] + rest
  <2>1. (s \ {p}) \ {x} = (s \ {x}) \ {p}
    OBVIOUS
  <2>2. s \ {p} \in SUBSET S /\ s \ {p} \notin Bad /\ x \in s \ {p}
    BY <1>2, <1>4, <1>5, <1>6
  <2> QED
    BY <1>7, <2>1, <2>2
<1>9. d = f[p] + rest
  <2>1. s \ {x} \in SUBSET S /\ s \ {x} \notin Bad /\ p \in s \ {x}
    BY <1>2, <1>4, <1>5, <1>6
  <2> QED
    BY <1>7, <2>1
<1>10. f[p] \in Nat /\ f[x] \in Nat /\ rest \in Nat
  <2>1. (s \ {x}) \ {p} \in SUBSET S
    BY <1>4
  <2> QED
    BY <1>4, <1>5, <2>1, TableTyped
<1>11. g[s] = f[p] + c /\ g[s] # f[x] + d
    BY <1>3, <1>5
<1> HIDE DEF rest, c, d
<1> QED
    BY <1>8, <1>9, <1>10, <1>11

\* A sum of naturals is one, and a part does not exceed the whole.
LEMMA SumTyped ==
    ASSUME NEW f, NEW S, IsFiniteSet(S), \A x \in S : f[x] \in Nat
    PROVE  SumFunctionOnSet(f, S) \in Nat
<1> QED
    BY SumOf, TableTyped

LEMMA SumMonotonic ==
    ASSUME NEW f, NEW S, IsFiniteSet(S), \A x \in S : f[x] \in Nat,
           NEW A \in SUBSET S
    PROVE  SumFunctionOnSet(f, A) <= SumFunctionOnSet(f, S)
<1>1. PICK g : Sums(g, f, S) /\ SumFunctionOnSet(f, S) = g[S]
    BY SumOf
<1>2. SumFunctionOnSet(f, A) = g[A]
    BY <1>1, SumOfPart
<1> DEFINE Bad == {s \in SUBSET S : A \subseteq s /\ ~(g[A] <= g[s])}
<1>3. SUFFICES ASSUME Bad # {} PROVE FALSE
  <2>1. S \in Bad \/ g[A] <= g[S]
    OBVIOUS
  <2> HIDE DEF Bad
  <2> QED
    BY <1>1, <1>2, <2>1
<1>4. PICK s \in Bad : \A x \in s : s \ {x} \notin Bad
  <2>1. Bad \subseteq SUBSET S
    OBVIOUS
  <2> HIDE DEF Bad
  <2> QED
    BY <1>3, <2>1, SmallestSet
<1>5. s \in SUBSET S /\ A \subseteq s /\ ~(g[A] <= g[s])
    OBVIOUS
<1>6. \A u \in SUBSET S : A \subseteq u /\ u \notin Bad => g[A] <= g[u]
    OBVIOUS
<1> HIDE DEF Bad
<1>7. g[A] \in Nat /\ \A u \in SUBSET S : g[u] \in Nat
    BY <1>1, TableTyped
<1>8. s # A
    BY <1>5, <1>7
<1>9. PICK x \in s : x \notin A
    BY <1>5, <1>8
<1>10. g[s] = f[x] + g[s \ {x}]
    BY <1>1, <1>5, TakeAny
<1>11. s \ {x} \in SUBSET S /\ A \subseteq s \ {x}
    BY <1>5, <1>9
<1>12. g[A] <= g[s \ {x}]
    BY <1>4, <1>6, <1>11
<1>13. f[x] \in Nat /\ g[s \ {x}] \in Nat
    BY <1>5, <1>7, <1>11
<1> QED
    BY <1>5, <1>7, <1>10, <1>12, <1>13
-----------------------------------------------------------------------------
(* Division, fees and cuts.                                                *)

LEMMA DivBounds ==
    ASSUME NEW x \in Nat, NEW n \in Nat \ {0}
    PROVE  x \div n \in Nat /\ (x \div n) * n <= x /\ x < (x \div n) * n + n
<1> QED  OBVIOUS

LEMMA MulMono ==
    ASSUME NEW a \in Nat, NEW b \in Nat, NEW n \in Nat, a <= b
    PROVE  a * n <= b * n /\ n * a <= n * b /\ a * n \in Nat
<1> QED  OBVIOUS

\* What fits into x fits into the whole part of its quotient.
LEMMA FitsQuotient ==
    ASSUME NEW u \in Nat, NEW x \in Nat, NEW n \in Nat \ {0}, u * n <= x
    PROVE  u <= x \div n
<1> DEFINE q == x \div n
<1>1. q \in Nat /\ x < q * n + n
    BY DivBounds
<1>2. SUFFICES ASSUME u >= q + 1 PROVE FALSE
    BY <1>1
<1>3. (q + 1) * n <= u * n
    BY <1>1, <1>2, MulMono
<1>4. (q + 1) * n = q * n + n
    BY <1>1
<1> HIDE DEF q
<1> QED
    BY <1>1, <1>3, <1>4

LEMMA DivMono ==
    ASSUME NEW a \in Nat, NEW b \in Nat, NEW n \in Nat \ {0}, a <= b
    PROVE  a \div n <= b \div n
<1>1. a \div n \in Nat /\ (a \div n) * n <= b
    BY DivBounds
<1> QED
    BY <1>1, FitsQuotient

\* Cutting to whole pieces never adds, whatever the product falls short by.
LEMMA WholeBelow ==
    ASSUME NEW x \in Nat, NEW piece \in Nat \ {0}, NEW short \in BOOLEAN
    PROVE  Whole(x, piece, short) \in Nat /\ Whole(x, piece, short) * piece <= x
<1> DEFINE y == IF short /\ x > 0 /\ x % piece = 0 THEN x - 1 ELSE x
<1>1. y \in Nat /\ y <= x
    OBVIOUS
<1>2. Whole(x, piece, short) = y \div piece
    BY DEF Whole
<1> HIDE DEF y
<1>3. y \div piece \in Nat /\ (y \div piece) * piece <= y
    BY <1>1, DivBounds
<1> QED
    BY <1>1, <1>2, <1>3

\* Slippage only raises the estimate.
LEMMA SlippageRaises ==
    ASSUME NEW info \in [rate : Nat, exp : Exponents], NEW p \in 1..One,
           NEW slippage \in 0..100
    PROVE  /\ FeeRate(info, p, 0) \in Nat /\ FeeRate(info, p, slippage) \in Nat
           /\ FeeRate(info, p, 0) <= FeeRate(info, p, slippage)
<1> DEFINE c == info.rate * Curve[info.exp][p]
<1>1. One \in Nat /\ c \in Nat
  <2>1. One \in Nat /\ Curve \in [Exponents -> [0..One -> Nat]]
    BY AmountsAssumption
  <2>2. info.rate \in Nat /\ info.exp \in Exponents /\ p \in 0..One
    BY <2>1
  <2>3. Curve[info.exp][p] \in Nat
    BY <2>1, <2>2
  <2> QED
    BY <2>1, <2>2, <2>3
<1> HIDE DEF c
<1>2. c * (100 + 0) <= c * (100 + slippage) /\ c * (100 + 0) \in Nat
      /\ c * (100 + slippage) \in Nat
    BY <1>1, MulMono
<1>3. c * (100 + 0) * One <= c * (100 + slippage) * One
      /\ c * (100 + 0) * One \in Nat /\ c * (100 + slippage) * One \in Nat
    BY <1>1, <1>2, MulMono
<1>4. 10000 * p \in Nat \ {0}
    BY <1>1
<1>5. /\ (c * (100 + 0) * One) \div (10000 * p) \in Nat
      /\ (c * (100 + slippage) * One) \div (10000 * p) \in Nat
      /\ (c * (100 + 0) * One) \div (10000 * p)
           <= (c * (100 + slippage) * One) \div (10000 * p)
    BY <1>3, <1>4, DivMono, DivBounds
<1> QED
    BY <1>5 DEF FeeRate, c

\* AdjustBuyAmountForFees: whatever is spent of the adjusted amount, u, it and
\* its fees at a rate up to the estimated one stay within the balance.
THEOREM AdjustedFits ==
    ASSUME NEW amount \in Nat, NEW balance \in Nat, NEW rate \in Nat,
           NEW charged \in Nat, charged <= rate, NEW u \in Nat,
           u * Scale <= AdjustBuyAmountForFees(amount, balance, rate)
    PROVE  u * Scale + u * charged <= balance * Scale
<1> DEFINE base == Least(amount \div Scale, balance)
           fee == base * rate
           whole == balance * Scale
<1>1. Scale \in Nat \ {0} /\ whole \in Nat
    BY AmountsAssumption
<1>2. base \in Nat /\ fee \in Nat
  <2>1. amount \div Scale \in Nat
    BY <1>1, DivBounds
  <2>2. base \in Nat
    BY <2>1 DEF Least
  <2> QED
    BY <2>2
<1>3. AdjustBuyAmountForFees(amount, balance, rate)
        = IF whole <= amount + fee THEN Less(whole, fee) ELSE amount
    BY DEF AdjustBuyAmountForFees
<1>4. ASSUME u <= base PROVE u * charged <= fee /\ u * charged \in Nat
  <2>1. u * charged <= u * rate /\ u * charged \in Nat
    BY MulMono
  <2>2. u * rate <= base * rate
    BY <1>2, <1>4, MulMono
  <2> QED
    BY <1>2, <2>1, <2>2
<1>5. ASSUME u * Scale <= amount, u * Scale <= whole PROVE u <= base
  <2>1. u <= amount \div Scale
    BY <1>1, <1>5, FitsQuotient
  <2>2. u <= balance
    <3>1. whole \div Scale = balance
      BY <1>1
    <3> QED
      BY <1>1, <1>5, <3>1, FitsQuotient
  <2> QED
    BY <2>1, <2>2 DEF Least
<1>6. u * Scale \in Nat
    BY <1>1
<1> HIDE DEF base, fee, whole
<1>7. CASE ~(whole <= amount + fee)
  <2>1. u * Scale <= amount /\ u * Scale <= whole
    BY <1>1, <1>2, <1>3, <1>6, <1>7
  <2> QED
    BY <1>1, <1>2, <1>4, <1>5, <1>6, <1>7, <2>1 DEF whole
<1>8. CASE whole <= amount + fee /\ fee < whole
  <2>1. u * Scale <= whole - fee
    BY <1>1, <1>2, <1>3, <1>8 DEF Less
  <2>2. u * Scale <= amount /\ u * Scale <= whole
    BY <1>1, <1>2, <1>6, <1>8, <2>1
  <2>3. u * charged <= fee /\ u * charged \in Nat
    BY <1>4, <1>5, <2>2
  <2>4. u * Scale + u * charged <= whole
    BY <1>1, <1>2, <1>6, <2>1, <2>3
  <2> QED
    BY <2>4 DEF whole
<1>9. CASE whole <= amount + fee /\ whole <= fee
  <2>1. u * Scale <= 0
    BY <1>1, <1>2, <1>3, <1>9 DEF Less
  <2>2. u = 0
    BY <1>1, <2>1
  <2> QED
    BY <1>1, <2>2 DEF whole
<1> QED
    BY <1>1, <1>2, <1>7, <1>8, <1>9

\* The adjustment never adds.
LEMMA AdjustedBelow ==
    ASSUME NEW amount \in Nat, NEW balance \in Nat, NEW rate \in Nat
    PROVE  /\ AdjustBuyAmountForFees(amount, balance, rate) \in Nat
           /\ AdjustBuyAmountForFees(amount, balance, rate) <= amount
<1> DEFINE fee == Least(amount \div Scale, balance) * rate
           whole == balance * Scale
<1>1. Scale \in Nat \ {0} /\ whole \in Nat
    BY AmountsAssumption
<1>2. fee \in Nat
  <2>1. amount \div Scale \in Nat
    BY <1>1, DivBounds
  <2>2. Least(amount \div Scale, balance) \in Nat
    BY <2>1 DEF Least
  <2> QED
    BY <2>2
<1>3. AdjustBuyAmountForFees(amount, balance, rate)
        = IF whole <= amount + fee THEN Less(whole, fee) ELSE amount
    BY DEF AdjustBuyAmountForFees
<1> HIDE DEF fee, whole
<1> QED
    BY <1>1, <1>2, <1>3 DEF Less

\* What is signed is cut from what there is, whatever the products fall short by.
LEMMA MarketBuyCut ==
    ASSUME NEW money \in Nat, NEW p \in 1..One, NEW t \in Ticks,
           NEW short \in BOOLEAN
    PROVE  /\ MarketBuy(money, p, t, short).usdc \in Nat
           /\ MarketBuy(money, p, t, short).shares \in Nat
           /\ MarketBuy(money, p, t, short).usdc * Scale <= money
<1>1. /\ One \in Nat \ {0} /\ Scale \in Nat \ {0} /\ One * Scale \in Nat \ {0}
      /\ p \in Nat \ {0} /\ t \in Nat \ {0}
    BY AmountsAssumption
<1> DEFINE w == Whole(money, One * Scale, short)
           usdc == w * One
<1>2. w \in Nat /\ w * (One * Scale) <= money
    BY <1>1, WholeBelow
<1>3. MarketBuy(money, p, t, short)
        = [usdc |-> usdc, shares |-> (((usdc * One) \div p) \div t) * t]
    BY DEF MarketBuy
<1> HIDE DEF w
<1>4. w * (One * Scale) = usdc * Scale /\ usdc \in Nat
    BY <1>1, <1>2
<1> HIDE DEF usdc
<1>5. usdc * One \in Nat
    BY <1>1, <1>4
<1>6. (usdc * One) \div p \in Nat
    BY <1>1, <1>5, DivBounds
<1>7. ((usdc * One) \div p) \div t \in Nat
    BY <1>1, <1>6, DivBounds
<1>8. (((usdc * One) \div p) \div t) * t \in Nat
    BY <1>1, <1>7
<1> QED
    BY <1>2, <1>3, <1>4, <1>8

LEMMA LimitBuyCut ==
    ASSUME NEW money \in Nat, NEW p \in 1..One, NEW short \in BOOLEAN
    PROVE  /\ LimitBuy(money, p, short).usdc \in Nat
           /\ LimitBuy(money, p, short).shares \in Nat
           /\ LimitBuy(money, p, short).usdc * Scale <= money
<1>1. /\ One \in Nat \ {0} /\ Scale \in Nat \ {0} /\ p \in Nat \ {0}
      /\ p * Scale \in Nat \ {0}
    BY AmountsAssumption
<1> DEFINE w == Whole(money, p * Scale, short)
<1>2. w \in Nat /\ w * (p * Scale) <= money
    BY <1>1, WholeBelow
<1>3. LimitBuy(money, p, short) = [usdc |-> w * p, shares |-> w * One]
    BY DEF LimitBuy
<1> HIDE DEF w
<1>4. w * (p * Scale) = (w * p) * Scale /\ w * p \in Nat /\ w * One \in Nat
    BY <1>1, <1>2
<1> QED
    BY <1>2, <1>3, <1>4

LEMMA SaleCut ==
    ASSUME NEW shares \in Nat, NEW p \in 1..One, NEW short \in BOOLEAN
    PROVE  /\ Sale(shares, p, short).usdc \in Nat
           /\ Sale(shares, p, short).shares \in Nat
           /\ Sale(shares, p, short).shares <= shares
<1>1. One \in Nat \ {0} /\ p \in Nat
    BY AmountsAssumption
<1> DEFINE w == Whole(shares, One, short)
<1>2. w \in Nat /\ w * One <= shares
    BY <1>1, WholeBelow
<1>3. Sale(shares, p, short) = [usdc |-> w * p, shares |-> w * One]
    BY DEF Sale
<1> HIDE DEF w
<1>4. w * p \in Nat /\ w * One \in Nat
    BY <1>1, <1>2
<1> QED
    BY <1>2, <1>3, <1>4

-----------------------------------------------------------------------------
(* Prices.                                                                 *)

\* A price of at least a tick rounds down to a multiple of the tick, not to 0.
LEMMA RoundDownBounds ==
    ASSUME NEW t \in Ticks, NEW p \in t..One
    PROVE  /\ RoundDown(t, p) \in t..p
           /\ \E k \in Nat : RoundDown(t, p) = k * t
<1> DEFINE y == IF p \in Falls[t] THEN p - 1 ELSE p
           k == y \div t
<1>1. One \in Nat /\ t \in 1..One /\ p \in t..One
    BY AmountsAssumption
<1>2. y \in Nat /\ t <= y /\ y <= p
    BY <1>1, AmountsAssumption
<1>3. k \in Nat /\ k * t <= y /\ y < k * t + t
    BY <1>1, <1>2, DivBounds
<1>4. RoundDown(t, p) = k * t
    BY DEF RoundDown
<1> HIDE DEF k, y
<1>5. k # 0
    BY <1>1, <1>2, <1>3
<1>6. 1 * t <= k * t
    BY <1>1, <1>3, <1>5, MulMono
<1> QED
    BY <1>1, <1>2, <1>3, <1>4, <1>6

\* The nearest multiple of the tick of a valid price is a price.
LEMMA RoundNormalBounds ==
    ASSUME NEW t \in Ticks, NEW p, PriceValid(p, t)
    PROVE  /\ RoundNormal(t, p) \in t..One
           /\ \E k \in Nat : RoundNormal(t, p) = k * t
<1> DEFINE y == 2 * p + t - (IF p \in Falls[t] THEN 1 ELSE 0)
           k == y \div (2 * t)
<1>1. One \in Nat /\ t \in 1..One /\ p \in t..(One - t)
    BY AmountsAssumption DEF PriceValid
<1>2. y \in Nat /\ 2 * t <= y /\ y <= 2 * One
    BY <1>1
<1>3. RoundNormal(t, p) = k * t
    BY DEF RoundNormal
<1> HIDE DEF y
<1>4. k \in Nat /\ k * (2 * t) <= y /\ y < k * (2 * t) + 2 * t
  <2>1. 2 * t \in Nat \ {0}
    BY <1>1
  <2> QED
    BY <1>2, <2>1, DivBounds
<1> HIDE DEF k
<1>5. k # 0
    BY <1>1, <1>2, <1>4
<1>6. 1 * t <= k * t /\ k * (2 * t) = 2 * (k * t)
    BY <1>1, <1>4, <1>5, MulMono
<1> QED
    BY <1>1, <1>2, <1>3, <1>4, <1>6

LEMMA RoundedBounds ==
    ASSUME NEW kind, NEW t \in Ticks, NEW p, PriceValid(p, t)
    PROVE  /\ Rounded(kind, t, p) \in t..One
           /\ \E k \in Nat : Rounded(kind, t, p) = k * t
<1>1. p \in t..One /\ t..p \subseteq t..One
    BY AmountsAssumption DEF PriceValid
<1>2. CASE kind = "market"
    BY <1>1, <1>2, RoundDownBounds DEF Rounded
<1>3. CASE kind # "market"
    BY <1>3, RoundNormalBounds DEF Rounded
<1> QED
    BY <1>2, <1>3

LEMMA QuotientIs ==
    ASSUME NEW k \in Nat, NEW n \in Nat \ {0}, NEW x \in Nat,
           k * n <= x, x < k * n + n
    PROVE  x \div n = k
<1> DEFINE q == x \div n
<1>1. q \in Nat /\ q * n <= x /\ x < q * n + n
    BY DivBounds
<1>2. k <= q
    BY FitsQuotient
<1> HIDE DEF q
<1>3. CASE k < q
  <2>1. (k + 1) * n <= q * n
    BY <1>1, <1>3, MulMono
  <2>2. (k + 1) * n = k * n + n
    OBVIOUS
  <2>3. k * n \in Nat /\ q * n \in Nat
    BY <1>1
  <2> QED
    BY <1>1, <2>1, <2>2, <2>3
<1> QED
    BY <1>1, <1>2, <1>3 DEF q

\* A multiple of the tick is rounded to itself, but for a market order whose
\* product falls short.
LEMMA RoundedAgain ==
    ASSUME NEW kind, NEW t \in Ticks, NEW p \in t..One, NEW k \in Nat, p = k * t
    PROVE  /\ Rounded(kind, t, p) \in t..p
           /\ (kind = "market" => p \notin Falls[t]) => Rounded(kind, t, p) = p
<1>1. One \in Nat /\ t \in 1..One /\ p \in Nat
    BY AmountsAssumption
<1>2. CASE kind = "market"
  <2>1. ASSUME p \notin Falls[t] PROVE RoundDown(t, p) = p
    <3>1. p \div t = k
      BY <1>1, QuotientIs
    <3> QED
      BY <2>1, <3>1 DEF RoundDown
  <2> QED
    BY <1>2, <2>1, RoundDownBounds DEF Rounded
<1>3. CASE kind # "market"
  <2> DEFINE y == 2 * p + t - (IF p \in Falls[t] THEN 1 ELSE 0)
  <2>1. 2 * t \in Nat \ {0} /\ k * (2 * t) = 2 * p
    BY <1>1
  <2>2. y \in Nat /\ 2 * p <= y /\ y < 2 * p + 2 * t
    BY <1>1
  <2>3. RoundNormal(t, p) = (y \div (2 * t)) * t
    BY DEF RoundNormal
  <2> HIDE DEF y
  <2>4. y \div (2 * t) = k
    BY <2>1, <2>2, QuotientIs
  <2>5. RoundNormal(t, p) = p
    BY <2>3, <2>4
  <2> QED
    BY <1>1, <1>3, <2>5 DEF Rounded
<1> QED
    BY <1>2, <1>3

-----------------------------------------------------------------------------
(* The book.                                                               *)

Levels == Seq([price : 0..One, size : Nat])

\* What the levels of a side are worth one by one.
Worths(side, levels) == [j \in DOMAIN levels |-> Worth(side, levels[j])]

LEMMA WorthTyped ==
    ASSUME NEW side, NEW levels \in Levels
    PROVE  \A j \in DOMAIN levels : Worths(side, levels)[j] \in Nat
<1> SUFFICES ASSUME NEW j \in DOMAIN levels PROVE Worths(side, levels)[j] \in Nat
    OBVIOUS
<1> DEFINE level == levels[j]
<1>1. level.size \in Nat /\ level.price \in Nat /\ One \in Nat \ {0}
  <2> DEFINE S == [price : 0..One, size : Nat]
  <2>1. level \in S
    <3>1. levels \in Seq(S)
      BY DEF Levels
    <3> HIDE DEF S
    <3> QED
      BY <3>1
  <2> HIDE DEF level
  <2> QED
    BY <2>1, AmountsAssumption
<1>2. Worths(side, levels)[j] = Worth(side, level)
    BY DEF Worths
<1> HIDE DEF level
<1>3. level.size * level.price \in Nat
    BY <1>1
<1>4. (level.size * level.price) \div One \in Nat
    BY <1>1, <1>3, DivBounds
<1> QED
    BY <1>1, <1>2, <1>4 DEF Worth

\* Whatever includes the levels from i on is worth at least what they are.
LEMMA MoreLevelsFill ==
    ASSUME NEW side, NEW levels \in Levels, NEW i \in DOMAIN levels,
           NEW C \in SUBSET DOMAIN levels, i..Len(levels) \subseteq C
    PROVE  SumFrom(side, levels, i)
             <= SumFunctionOnSet([j \in DOMAIN levels |-> Worth(side, levels[j])], C)
<1>1. DOMAIN levels = 1..Len(levels) /\ Len(levels) \in Nat
    BY DEF Levels
<1>2. IsFiniteSet(C)
  <2>1. IsFiniteSet(1..Len(levels))
    BY <1>1, FS_Interval
  <2> QED
    BY <1>1, <2>1, FS_Subset
<1>3. \A j \in C : Worths(side, levels)[j] \in Nat
    BY WorthTyped
<1>4. SumFunctionOnSet(Worths(side, levels), i..Len(levels))
        <= SumFunctionOnSet(Worths(side, levels), C)
    BY <1>2, <1>3, SumMonotonic
<1> QED
    BY <1>4 DEF SumFrom, Worths

\* CalculateBuyMarketPrice, CalculateSellMarketPrice: an order that must be
\* filled is priced at the first level from the end at which the book has
\* enough, or not at all.
THEOREM PricedWhereFilled ==
    ASSUME NEW side, NEW levels \in Levels, NEW amount,
           NEW p, p = MarketPrice(side, levels, amount, "FOK"), p # NoPrice
    PROVE  \E i \in DOMAIN levels :
              /\ p = levels[i].price
              /\ SumFrom(side, levels, i) >= amount
              /\ \A j \in DOMAIN levels : j > i => ~(SumFrom(side, levels, j) >= amount)
<1> DEFINE R == Reached(side, levels, amount)
           Back == {Len(levels) - i : i \in R}
<1>1. R \subseteq 1..Len(levels) /\ Len(levels) \in Nat
    BY DEF Reached, Levels
<1>2. R # {} /\ p = levels[Max(R)].price
    BY DEF MarketPrice
<1> HIDE DEF R
<1>3. \E x \in R : \A y \in R : x >= y
  <2>1. Back \subseteq Nat /\ Back # {}
    <3>1. \A i \in R : Len(levels) - i \in Nat
      BY <1>1
    <3> QED
      BY <1>2, <3>1
  <2>2. PICK b \in Back : \A c \in Back : b <= c
    <3> HIDE DEF Back
    <3> QED
      BY <2>1, LeastNatural
  <2>3. PICK x \in R : b = Len(levels) - x
    OBVIOUS
  <2>4. ASSUME NEW y \in R PROVE x >= y
    <3>1. Len(levels) - y \in Back
      OBVIOUS
    <3>2. b <= Len(levels) - y
      BY <2>2, <3>1
    <3> QED
      BY <1>1, <2>3, <3>2
  <2> QED
    BY <2>4
<1>4. Max(R) \in R /\ \A y \in R : Max(R) >= y
    BY <1>3 DEF Max
<1>5. Max(R) \in DOMAIN levels /\ SumFrom(side, levels, Max(R)) >= amount
    BY <1>4 DEF R, Reached
<1>6. ASSUME NEW j \in DOMAIN levels, j > Max(R), SumFrom(side, levels, j) >= amount
      PROVE  FALSE
  <2>1. j \in R
    BY <1>6 DEF R, Reached
  <2> QED
    BY <1>1, <1>4, <1>6, <2>1
<1> QED
    BY <1>2, <1>5, <1>6
=============================================================================
