----------------------------- MODULE ProofBasics -----------------------------
(***************************************************************************)
(* What the proofs of several modules need: integer division, induction    *)
(* over the natural numbers, stated with a set instead of a predicate,     *)
(* what a recursive function on 0 .. n is, and functions on 1 .. n as      *)
(* sequences.                                                              *)
(***************************************************************************)
EXTENDS Integers, SequenceTheorems, WellFoundedInduction, TLAPS

-----------------------------------------------------------------------------
(* Arithmetic *)

\* Two numbers closer than d to each other cannot be told apart by a multiple
\* of d: a quotient and a remainder from any range of d numbers are unique.
LEMMA DivisionUnique ==
    ASSUME NEW d \in Nat \ {0}, NEW a \in Int, NEW b \in Int,
           NEW k \in Int, NEW l \in Int,
           k - l < d, l - k < d, d * a + k = d * b + l
    PROVE  a = b /\ k = l
<1>1. ASSUME NEW x \in Int, NEW y \in Int, x < y
      PROVE  d * x + d <= d * y
  <2>1. /\ y = x + 1 + (y - x - 1) /\ y - x - 1 \in Nat
        /\ d * (y - x - 1) \in Nat
    BY <1>1
  <2>2. d * y = d * x + d + d * (y - x - 1)
    BY <2>1
  <2>. QED  BY <2>1, <2>2
<1>2. d * a \in Int /\ d * b \in Int
  OBVIOUS
<1>3. ~(a < b)
  BY <1>1, <1>2
<1>4. ~(b < a)
  BY <1>1, <1>2
<1>. QED  BY <1>2, <1>3, <1>4

\* What a division by d yields, from any way to write the number with a remainder.
LEMMA DivModUnique ==
    ASSUME NEW d \in Nat \ {0}, NEW a \in Int, NEW q \in Int, NEW r \in 0 .. d - 1,
           a = d * q + r
    PROVE  a \div d = q /\ a % d = r
<1>1. a \div d \in Int /\ a % d \in 0 .. d - 1
  OBVIOUS
<1>2. a = d * (a \div d) + (a % d)
  OBVIOUS
<1> DEFINE b == a \div d
<1> DEFINE s == a % d
<1> HIDE DEF b, s
<1>3. b \in Int /\ s \in 0 .. d - 1
  BY <1>1 DEF b, s
<1>4. d * q + r = d * b + s
  BY <1>2 DEF b, s
<1>5. r - s < d /\ s - r < d /\ r \in Int /\ s \in Int
  BY <1>3
<1>6. q = b /\ r = s
  BY <1>3, <1>4, <1>5, DivisionUnique
<1>. QED
  BY <1>6 DEF b, s

\* A product grows with its second factor.
LEMMA Monotone ==
    ASSUME NEW d \in Nat, NEW a \in Int, NEW b \in Int, a <= b
    PROVE  d * a <= d * b
<1>1. b - a \in Nat /\ b = a + (b - a)
  OBVIOUS
<1>2. d * (b - a) \in Nat /\ d * a \in Int
  BY <1>1
<1>3. d * b = d * a + d * (b - a)
  BY <1>1
<1>. QED  BY <1>2, <1>3

-----------------------------------------------------------------------------
(* Induction *)

\* A set with 0 that has the successor of each of its numbers has them all: the code's
\* counting loops reach every index.
LEMMA NaturalSetInduction ==
    ASSUME NEW S, 0 \in S, \A n \in Nat : n \in S => n + 1 \in S
    PROVE  Nat \subseteq S
<1>1. SUFFICES ASSUME Nat \ S # {} PROVE FALSE
  OBVIOUS
<1>2. PICK m \in Nat \ S : \A k \in Nat \ S : <<k, m>> \notin OpToRel(<, Nat)
  <2>1. IsWellFoundedOn(OpToRel(<, Nat), Nat)
    BY NatLessThanWellFounded
  <2>2. Nat \ S \subseteq Nat /\ Nat \ S # {}
    BY <1>1
  <2>. QED
    BY <2>1, <2>2, WFMin
<1>3. m \in Nat /\ m \notin S /\ m # 0
  BY <1>2
<1>4. m - 1 \in Nat /\ m - 1 < m /\ (m - 1) + 1 = m
  BY <1>3
<1>5. m - 1 \in S
  BY <1>2, <1>3, <1>4 DEF OpToRel
<1>6. (m - 1) + 1 \in S
  BY <1>4, <1>5
<1>. QED
  BY <1>3, <1>4, <1>6

\* Numbers have a least one.
LEMMA LeastExists ==
    ASSUME NEW S, S \subseteq Nat, S # {}
    PROVE  \E m \in S : \A k \in S : m <= k
<1>1. IsWellFoundedOn(OpToRel(<, Nat), Nat)
  BY NatLessThanWellFounded
<1>2. PICK m \in S : \A k \in S : <<k, m>> \notin OpToRel(<, Nat)
  BY <1>1, WFMin
<1>3. ASSUME NEW k \in S PROVE m <= k
  <2>1. k \in Nat /\ m \in Nat
    OBVIOUS
  <2>2. ~(k < m)
    BY <1>2, <2>1 DEF OpToRel
  <2>. QED
    BY <2>1, <2>2
<1>. QED
  BY <1>3

\* Bounded numbers have a greatest one.
LEMMA GreatestExists ==
    ASSUME NEW S, S # {}, NEW n \in Nat, \A i \in S : i \in Nat /\ i <= n
    PROVE  \E m \in S : \A i \in S : m >= i
<1> DEFINE T == {n - i : i \in S}
<1>1. T \subseteq Nat /\ T # {}
  OBVIOUS
<1> HIDE DEF T
<1>2. PICK d \in T : \A e \in T : d <= e
  BY <1>1, LeastExists
<1>3. PICK m \in S : d = n - m
  BY <1>2 DEF T
<1>4. ASSUME NEW i \in S PROVE m >= i
  <2>1. n - i \in T
    BY DEF T
  <2>2. n - m <= n - i /\ m \in Nat /\ i \in Nat
    BY <1>2, <1>3, <2>1
  <2>. QED
    BY <2>2
<1>. QED
  BY <1>4

\* The same up to n: what holds at 0 and is kept by every round holds after n rounds.
LEMMA BoundedInduction ==
    ASSUME NEW n \in Nat, NEW S, 0 \in S,
           \A k \in 0 .. n - 1 : k \in S => k + 1 \in S
    PROVE  0 .. n \subseteq S
<1> DEFINE T == {k \in Nat : k <= n => k \in S}
<1>1. 0 \in T
  OBVIOUS
<1>2. ASSUME NEW k \in Nat, k \in T PROVE k + 1 \in T
  <2>1. CASE k + 1 <= n
    <3>1. k \in 0 .. n - 1
      BY <2>1
    <3>2. k \in S
      BY <1>2, <3>1
    <3>. QED
      BY <3>1, <3>2
  <2>2. CASE ~(k + 1 <= n)
    BY <2>2
  <2>. QED
    BY <2>1, <2>2
<1> HIDE DEF T
<1>3. Nat \subseteq T
  BY <1>1, <1>2, NaturalSetInduction
<1>4. ASSUME NEW k \in 0 .. n PROVE k \in S
  <2>1. k \in T /\ k <= n
    BY <1>3
  <2>. QED
    BY <2>1 DEF T
<1>. QED
  BY <1>4

\* Rounds of a loop: round k makes a value of V of the value before; and the values of n
\* rounds.
IsStep(n, V, step) == step \in [(1 .. n) \X V -> V]

IsLoop(g, n, V, base, step) ==
    g \in [0 .. n -> V] /\ g[0] = base /\ \A k \in 1 .. n : g[k] = step[<<k, g[k - 1]>>]

\* There is a function of all the values of a loop.
LEMMA LoopExists ==
    ASSUME NEW n \in Nat, NEW V, NEW base \in V, NEW step, IsStep(n, V, step)
    PROVE  \E g : IsLoop(g, n, V, base, step)
<1>5. step \in [(1 .. n) \X V -> V]
  BY DEF IsStep
<1> DEFINE Upto(m) ==
        \E g \in [0 .. m -> V] : g[0] = base /\ \A k \in 1 .. m : g[k] = step[<<k, g[k - 1]>>]
<1> DEFINE S == {m \in 0 .. n : Upto(m)}
<1>1. 0 \in S
  <2> DEFINE z == [k \in 0 .. 0 |-> base]
  <2>1. z \in [0 .. 0 -> V] /\ z[0] = base
    OBVIOUS
  <2>2. 1 .. 0 = {} /\ 0 \in 0 .. n
    OBVIOUS
  <2> HIDE DEF z
  <2>3. Upto(0)
    BY <2>1, <2>2
  <2>. QED
    BY <2>2, <2>3
<1>2. ASSUME NEW m \in 0 .. n - 1, m \in S PROVE m + 1 \in S
  <2>1. PICK g \in [0 .. m -> V] : g[0] = base /\ \A k \in 1 .. m : g[k] = step[<<k, g[k - 1]>>]
    BY <1>2
  <2>2. m \in Nat /\ m + 1 \in 1 .. n /\ m \in 0 .. m /\ g[m] \in V
    OBVIOUS
  <2> DEFINE last == step[<<m + 1, g[m]>>]
  <2>3. last \in V
    BY <1>5, <2>2
  <2> HIDE DEF last
  <2> DEFINE h == [k \in 0 .. m + 1 |-> IF k = m + 1 THEN last ELSE g[k]]
  <2>4. h \in [0 .. m + 1 -> V]
    <3>1. ASSUME NEW k \in 0 .. m + 1, k # m + 1 PROVE k \in 0 .. m
      BY <2>2, <3>1
    <3>. QED
      BY <2>3, <3>1
  <2>5. h[0] = base
    <3>1. 0 \in 0 .. m + 1 /\ 0 # m + 1
      BY <2>2
    <3>. QED
      BY <2>1, <3>1
  <2>6. ASSUME NEW k \in 1 .. m + 1 PROVE h[k] = step[<<k, h[k - 1]>>]
    <3>1. CASE k = m + 1
      <4>1. k \in 0 .. m + 1 /\ k - 1 \in 0 .. m + 1 /\ k - 1 = m /\ m # m + 1
        BY <2>2, <3>1
      <4>2. h[k] = last /\ h[k - 1] = g[m]
        BY <3>1, <4>1
      <4>. QED
        BY <3>1, <4>1, <4>2 DEF last
    <3>2. CASE k # m + 1
      <4>1. k \in 1 .. m /\ k - 1 \in 0 .. m /\ k \in 0 .. m + 1 /\ k - 1 \in 0 .. m + 1
            /\ k - 1 # m + 1
        BY <2>2, <3>2
      <4>2. h[k] = g[k] /\ h[k - 1] = g[k - 1]
        BY <3>2, <4>1
      <4>. QED
        BY <2>1, <4>1, <4>2
    <3>. QED
      BY <3>1, <3>2
  <2> HIDE DEF h
  <2>7. Upto(m + 1)
    BY <2>4, <2>5, <2>6
  <2>8. m + 1 \in 0 .. n
    BY <2>2
  <2>. QED
    BY <2>7, <2>8
<1> HIDE DEF S
<1>3. 0 .. n \subseteq S
  BY <1>1, <1>2, BoundedInduction
<1>4. n \in S
  BY <1>3
<1>. QED
  BY <1>4 DEF S, IsLoop

-----------------------------------------------------------------------------
(* Sequences *)

\* A function on 1 .. n is a sequence of length n.
LEMMA FunctionIsSeq ==
    ASSUME NEW n \in Nat, NEW S, NEW f \in [1 .. n -> S]
    PROVE  f \in Seq(S) /\ Len(f) = n
<1>1. f \in Seq(S)
  OBVIOUS
<1>2. Len(f) \in Nat /\ DOMAIN f = 1 .. Len(f) /\ DOMAIN f = 1 .. n
  BY <1>1, LenProperties
<1>3. Len(f) = n
  <2>1. CASE Len(f) < n
    BY <2>1, <1>2
  <2>2. CASE Len(f) > n
    BY <2>2, <1>2
  <2>. QED
    BY <1>2, <2>1, <2>2
<1>. QED
  BY <1>1, <1>3
=============================================================================
