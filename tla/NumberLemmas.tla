---------------------------- MODULE NumberLemmas ----------------------------
(***************************************************************************)
(* Facts about natural numbers: \div and %, for the page arithmetic of     *)
(* memory.c and the ring indices of input.c, and induction, for what the   *)
(* kernel's counted loops compute.                                         *)
(***************************************************************************)
EXTENDS Integers, TLAPS
LOCAL INSTANCE WellFoundedInduction

\* x divided by a, multiplied back, is x without its remainder.
LEMMA DivBounds ==
  ASSUME NEW x \in Nat, NEW a \in Nat \ {0}
  PROVE  /\ x \div a \in Nat
         /\ (x \div a) * a <= x
         /\ x < (x \div a) * a + a
  OBVIOUS

\* A remainder is a valid index.
LEMMA ModBounds ==
  ASSUME NEW x \in Nat, NEW a \in Nat \ {0}
  PROVE  (x % a) \in 0 .. a - 1
  OBVIOUS

\* A number below the modulus is its own remainder: no wrap.
LEMMA ModSmall ==
  ASSUME NEW x \in Nat, NEW a \in Nat \ {0}, x < a
  PROVE  (x % a) = x
  OBVIOUS

\* One full turn of the modulus is lost.
LEMMA ModBack ==
  ASSUME NEW x \in Nat, NEW a \in Nat \ {0}, x < a
  PROVE  ((x + a) % a) = x
  OBVIOUS

\* Multiplying keeps the order.
LEMMA TimesMonotone ==
  ASSUME NEW x \in Nat, NEW y \in Nat, NEW a \in Nat, x <= y
  PROVE  x * a <= y * a
  OBVIOUS

\* A multiple divides back exactly.
LEMMA DivTimes ==
  ASSUME NEW x \in Nat, NEW a \in Nat \ {0}
  PROVE  (x * a) \div a = x
  OBVIOUS

\* A multiple leaves no remainder.
LEMMA ModTimes ==
  ASSUME NEW x \in Nat, NEW a \in Nat \ {0}
  PROVE  ((x * a) % a) = 0
  OBVIOUS

\* Dividing keeps the order.
LEMMA DivMonotone ==
  ASSUME NEW x \in Nat, NEW y \in Nat, NEW a \in Nat \ {0}, x <= y
  PROVE  x \div a <= y \div a
  OBVIOUS

\* One more divisor, one more quotient.
LEMMA DivOneMore ==
  ASSUME NEW x \in Nat, NEW a \in Nat \ {0}
  PROVE  (x + a) \div a = (x \div a) + 1
  OBVIOUS

\* A set that holds 0 and with every number the next one holds every number:
\* the least number outside it would have a predecessor inside.
LEMMA Induction ==
  ASSUME NEW T, 0 \in T, \A n \in Nat : n \in T => n + 1 \in T
  PROVE  \A n \in Nat : n \in T
<1> DEFINE Bad == {n \in Nat : n \notin T}
<1> SUFFICES ASSUME Bad # {} PROVE FALSE
  OBVIOUS
<1> DEFINE R == OpToRel(<, Nat)
<1>1. \E x \in Bad : \A y \in Bad : ~(<<y, x>> \in R)
  <2>1. IsWellFoundedOn(R, Nat)
    BY NatLessThanWellFounded
  <2>2. Bad \subseteq Nat
    OBVIOUS
  <2> HIDE DEF Bad, R
  <2> QED BY <2>1, <2>2, WFMin
<1>2. PICK x \in Bad : \A y \in Bad : ~(<<y, x>> \in R)
  BY <1>1
<1>3. x # 0 /\ x \in Nat
  OBVIOUS
<1>4. x - 1 \in Nat /\ x - 1 < x /\ (x - 1) + 1 = x
  BY <1>3
<1>5. <<x - 1, x>> \in R
  BY <1>3, <1>4 DEF OpToRel
<1>6. x - 1 \in T
  BY <1>2, <1>4, <1>5
<1>7. x \in T
  BY <1>4, <1>6
<1> QED BY <1>2, <1>7

\* A set of numbers that is not empty has a least one.
LEMMA LeastMember ==
  ASSUME NEW T, T \subseteq Nat, NEW n \in T
  PROVE  \E least \in T : \A j \in T : least <= j
<1> DEFINE Above == {i \in Nat : \A j \in T : i <= j}
<1>1. 0 \in Above
  OBVIOUS
<1>2. PICK i \in Nat : i \in Above /\ i + 1 \notin Above
  <2>1. n + 1 \notin Above /\ n + 1 \in Nat
    OBVIOUS
  <2> HIDE DEF Above
  <2> QED BY <1>1, <2>1, Induction
<1>3. PICK j \in T : j < i + 1
  BY <1>2
<1>4. j = i
  BY <1>2, <1>3
<1> QED BY <1>2, <1>4

\* A position in a table of rows of equal length.
LEMMA RowAndColumn ==
  ASSUME NEW k \in Nat, NEW a \in Nat \ {0}, NEW j \in 0 .. a - 1
  PROVE  (k * a + j) \div a = k /\ (k * a + j) % a = j
  OBVIOUS

\* A loop that runs N times over a state in S: what each turn makes of it, and
\* the states after each turn.
LoopBody(step, N, S) == \A i \in 1 .. N : \A s \in S : step[<<i, s>>] \in S

LoopStates(f, N, S, a, step) ==
  /\ f \in [0 .. N -> S]
  /\ f[0] = a
  /\ \A i \in 1 .. N : f[i] = step[<<i, f[i - 1]>>]

\* The loop comes to its end.
LEMMA Recursion ==
  ASSUME NEW N \in Nat, NEW S, NEW a \in S, NEW step, LoopBody(step, N, S)
  PROVE  \E f : LoopStates(f, N, S, a, step)
<1> USE DEF LoopBody, LoopStates
<1> DEFINE T == {n \in Nat : n <= N => \E f \in [0 .. n -> S] :
                    /\ f[0] = a
                    /\ \A i \in 1 .. n : f[i] = step[<<i, f[i - 1]>>]}
<1>1. 0 \in T
  <2> DEFINE f == [i \in 0 .. 0 |-> a]
  <2>1. f \in [0 .. 0 -> S] /\ f[0] = a /\ \A i \in 1 .. 0 : f[i] = step[<<i, f[i - 1]>>]
    OBVIOUS
  <2> QED BY <2>1
<1>2. \A n \in Nat : n \in T => n + 1 \in T
  <2> SUFFICES ASSUME NEW n \in Nat, n \in T, n + 1 <= N
               PROVE  \E f \in [0 .. n + 1 -> S] :
                    /\ f[0] = a
                    /\ \A i \in 1 .. n + 1 : f[i] = step[<<i, f[i - 1]>>]
    OBVIOUS
  <2>1. PICK f \in [0 .. n -> S] :
                    /\ f[0] = a
                    /\ \A i \in 1 .. n : f[i] = step[<<i, f[i - 1]>>]
    OBVIOUS
  <2> DEFINE b == step[<<n + 1, f[n]>>]
             g == [i \in 0 .. n + 1 |-> IF i = n + 1 THEN b ELSE f[i]]
  <2>2. f[n] \in S /\ n + 1 \in 1 .. N
    OBVIOUS
  <2>3. b \in S
    BY <2>2
  <2>4. g \in [0 .. n + 1 -> S]
    BY <2>3
  <2>5. g[0] = a
    BY <2>1
  <2>6. \A i \in 1 .. n + 1 : g[i] = step[<<i, g[i - 1]>>]
    <3> TAKE i \in 1 .. n + 1
    <3>1. i - 1 \in 0 .. n /\ i \in 0 .. n + 1 /\ i - 1 # n + 1 /\ i \in Int
      OBVIOUS
    <3>2. g[i - 1] = f[i - 1]
      BY <3>1
    <3>3. CASE i = n + 1
      <4>1. i - 1 = n
        BY <3>3
      <4> QED BY <3>1, <3>2, <3>3, <4>1
    <3>4. CASE i # n + 1
      <4>1. i \in 1 .. n
        BY <3>4
      <4>2. g[i] = f[i]
        BY <3>1, <3>4
      <4> QED BY <2>1, <3>2, <4>1, <4>2
    <3> QED BY <3>3, <3>4
  <2> QED BY <2>4, <2>5, <2>6
<1> HIDE DEF T
<1>3. N \in T
  BY <1>1, <1>2, Induction
<1> QED BY <1>3 DEF T
=============================================================================
