------------------------------- MODULE Lemmas -------------------------------
(***************************************************************************)
(* Facts the proofs of the components share: induction over the naturals   *)
(* and recursive definition, derived from the well-foundedness of <;       *)
(* powers of two and the functions of lib/Math.cc; sequences without       *)
(* repetitions.                                                            *)
(***************************************************************************)
EXTENDS Lib, NaturalsInduction, WellFoundedInduction, TLAPS

-----------------------------------------------------------------------------
(* Induction and recursion.                                                *)

\* The order of the naturals as the set of pairs the library theorems speak of.
LEMMA NatOrder == OpToRel(<, Nat) = {ss \in Nat \X Nat : ss[1] < ss[2]}
BY DEF OpToRel

\* Every non-empty set of naturals has a least element.
LEMMA Least ==
  ASSUME NEW T \in SUBSET Nat, T # {}
  PROVE \E n \in T : \A m \in T : n <= m
<1> DEFINE R == {ss \in Nat \X Nat : ss[1] < ss[2]}
<1>0. IsWellFoundedOn(R, Nat)
  BY NatLessThanWellFounded, NatOrder, Zenon
<1>1. PICK x \in T : \A y \in T : ~ (<<y, x>> \in R)
  <2> HIDE DEF R
  <2> QED BY <1>0, WFMin, Zenon
<1>2. ASSUME NEW m \in T PROVE x <= m
  <2>1. x \in Nat /\ m \in Nat /\ ~ (<<m, x>> \in R)
    BY <1>1
  <2> QED BY <2>1
<1> QED BY <1>2

\* Induction over the naturals, for a set instead of a predicate.
LEMMA Ind ==
  ASSUME NEW S, 0 \in S, \A n \in Nat : n \in S => n + 1 \in S
  PROVE Nat \subseteq S
<1> DEFINE T == {n \in Nat : n \notin S}
<1>1. CASE T = {}
  BY <1>1
<1>2. CASE T # {}
  <2>1. PICK n \in T : \A m \in T : n <= m
    BY <1>2, Least, Zenon
  <2>2. n # 0
     OBVIOUS
  <2>3. n - 1 \in Nat /\ n - 1 \notin T
    BY <2>1, <2>2
  <2>4. QED BY <2>3
<1>3. QED BY <1>1, <1>2

\* f is the sequence x0, g[<<0, x0>>], g[<<1, f[1]>>], ...
Iterates(f, X, x0, g) ==
  f \in [Nat -> X] /\ f[0] = x0 /\ \A n \in Nat : f[n + 1] = g[<<n, f[n]>>]

\* A step function can be iterated: definition by primitive recursion is sound.
LEMMA Iteration ==
  ASSUME NEW X, NEW x0 \in X, NEW g \in [Nat \X X -> X]
  PROVE  \E f : Iterates(f, X, x0, g)
<1> DEFINE Prefix(n, h) == /\ h \in [0..n -> X] /\ h[0] = x0
                           /\ \A k \in 0..(n - 1) : h[k + 1] = g[<<k, h[k]>>]
           S == {n \in Nat : \E h : Prefix(n, h)}
           H == [n \in Nat |-> CHOOSE h : Prefix(n, h)]
           f == [n \in Nat |-> H[n][n]]
<1>1. Nat \subseteq S
  <2>1. 0 \in S
    <3>1. Prefix(0, [k \in 0..0 |-> x0])
      OBVIOUS
    <3> QED BY <3>1, Zenon
  <2>2. ASSUME NEW n \in Nat, n \in S PROVE n + 1 \in S
    <3>1. PICK h : Prefix(n, h)
      BY <2>2
    <3>2. PICK e : e = [k \in 0..(n + 1) |-> IF k = n + 1 THEN g[<<n, h[n]>>] ELSE h[k]]
      BY Zenon
    <3>3. h \in [0..n -> X] /\ h[n] \in X /\ g[<<n, h[n]>>] \in X
      BY <3>1
    <3>4. e \in [0..(n + 1) -> X] /\ e[0] = h[0]
      BY <3>2, <3>3
    <3>5. ASSUME NEW k \in 0..n PROVE e[k + 1] = g[<<k, e[k]>>]
      <4>1. e[k] = h[k]
        BY <3>2
      <4>2. CASE k = n
        <5>1. e[n + 1] = g[<<n, h[n]>>]
          BY <3>2
        <5> QED BY <4>1, <4>2, <5>1
      <4>3. CASE k # n
        <5>1. k \in 0..(n - 1) /\ e[k + 1] = h[k + 1]
          BY <3>2, <4>3
        <5> QED BY <3>1, <4>1, <5>1
      <4> QED BY <4>2, <4>3
    <3>6. Prefix(n + 1, e)
      <4>1. (n + 1) - 1 = n
        OBVIOUS
      <4> QED BY <3>1, <3>4, <3>5, <4>1
    <3> HIDE DEF Prefix
    <3> QED BY <3>6
  <2> HIDE DEF S
  <2> QED BY <2>1, <2>2, Ind
<1>2. \A n \in Nat : Prefix(n, H[n])
  <2> HIDE DEF Prefix
  <2> QED BY <1>1
<1>3. ASSUME NEW n \in Nat PROVE \A k \in 0..n : H[n][k] = H[n + 1][k]
  <2> DEFINE B == {k \in Nat : k <= n => H[n][k] = H[n + 1][k]}
  <2> HIDE DEF H
  <2>1. 0 \in B
    BY <1>2
  <2>2. ASSUME NEW k \in Nat, k \in B PROVE k + 1 \in B
    <3>1. ASSUME k + 1 <= n PROVE H[n][k + 1] = H[n + 1][k + 1]
      <4>1. k \in 0..(n - 1) /\ k \in 0..((n + 1) - 1)
        BY <3>1
      <4>2. H[n][k] = H[n + 1][k]
        BY <2>2, <3>1
      <4>3. H[n][k + 1] = g[<<k, H[n][k]>>]
        BY <4>1, <1>2
      <4>4. H[n + 1][k + 1] = g[<<k, H[n + 1][k]>>]
        BY <4>1, <1>2
      <4> QED BY <4>2, <4>3, <4>4
    <3> QED BY <3>1
  <2>3. Nat \subseteq B
    <3> HIDE DEF B
    <3> QED BY <2>1, <2>2, Ind
  <2> QED BY <2>3
<1>4. f \in [Nat -> X]
  <2> HIDE DEF H
  <2> QED BY <1>2
<1>5. f[0] = x0
  <2> HIDE DEF H
  <2> QED BY <1>2
<1>6. ASSUME NEW n \in Nat PROVE f[n + 1] = g[<<n, f[n]>>]
  <2> HIDE DEF H
  <2>1. H[n + 1][n + 1] = g[<<n, H[n + 1][n]>>]
    BY <1>2
  <2> QED BY <2>1, <1>3
<1>7. Iterates(f, X, x0, g)
  BY <1>4, <1>5, <1>6, Zenon DEF Iterates
<1> QED BY <1>7

\* f is the run of a loop of n rounds of g that starts in x0.
Loop(f, n, x0, g) ==
  /\ f = [k \in 0..n |-> f[k]] /\ f[0] = x0 /\ \A k \in 0..(n - 1) : f[k + 1] = g[f[k]]

\* A loop of a bounded number of rounds has a run, and the run stays in X.
LEMMA FiniteLoop ==
  ASSUME NEW n \in Nat, NEW X, NEW x0 \in X, NEW g \in [X -> X]
  PROVE  \E f : Loop(f, n, x0, g) /\ \A k \in 0..n : f[k] \in X
<1> DEFINE G == [x \in Nat \X X |-> g[x[2]]]
<1>1. G \in [Nat \X X -> X] /\ \A k \in Nat, x \in X : G[<<k, x>>] = g[x]
  OBVIOUS
<1> HIDE DEF G
<1>2. PICK h : Iterates(h, X, x0, G)
  BY <1>1, Iteration, Zenon
<1> DEFINE f == [k \in 0..n |-> h[k]]
<1>3. Loop(f, n, x0, g) /\ \A k \in 0..n : f[k] \in X
  <2>1. h[0] = x0 /\ \A k \in Nat : h[k] \in X /\ h[k + 1] = g[h[k]]
    BY <1>1, <1>2, Zenon DEF Iterates
  <2>2. f = [k \in 0..n |-> f[k]]
    OBVIOUS
  <2>3. f[0] = x0 /\ \A k \in 0..n : f[k] \in X
    BY <2>1
  <2>4. ASSUME NEW k \in 0..(n - 1) PROVE f[k + 1] = g[f[k]]
    <3>1. k \in 0..n /\ k + 1 \in 0..n /\ k \in Nat
      OBVIOUS
    <3> QED BY <2>1, <3>1
  <2> HIDE DEF f
  <2> QED BY <2>2, <2>3, <2>4, Zenon DEF Loop
<1> HIDE DEF f
<1> QED BY <1>3

-----------------------------------------------------------------------------
(* Powers of two; lib/Math.cc.                                             *)

\* pow2 (a power of two, as 1 << k computes it) satisfies its defining
\* equations.
LEMMA Pow2 ==
  /\ pow2[0] = 1
  /\ \A n \in Nat : pow2[n] \in Nat \ {0} /\ pow2[n + 1] = 2 * pow2[n]
<1> DEFINE g == [x \in Nat \X Nat |-> 2 * x[2]]
<1>1. g \in [Nat \X Nat -> Nat] /\ \A n, m \in Nat : g[<<n, m>>] = 2 * m
  OBVIOUS
<1> HIDE DEF g
<1>2. PICK f : Iterates(f, Nat, 1, g)
  <2>1. 1 \in Nat
    OBVIOUS
  <2> QED BY <1>1, <2>1, Iteration, Zenon
<1>3. f \in [Nat -> Nat] /\ f[0] = 1 /\ \A n \in Nat : f[n + 1] = g[<<n, f[n]>>]
  BY <1>2 DEF Iterates
<1>4. f = [k \in Nat |-> IF k = 0 THEN 1 ELSE 2 * f[k - 1]]
  <2>1. ASSUME NEW k \in Nat PROVE f[k] = IF k = 0 THEN 1 ELSE 2 * f[k - 1]
    <3>1. CASE k = 0
      BY <3>1, <1>3
    <3>2. CASE k # 0
      <4>1. k - 1 \in Nat /\ (k - 1) + 1 = k
        BY <3>2
      <4> QED BY <3>2, <4>1, <1>1, <1>3, Zenon
    <3> QED BY <3>1, <3>2
  <2> QED BY <1>3, <2>1
<1>5. pow2 = [k \in Nat |-> IF k = 0 THEN 1 ELSE 2 * pow2[k - 1]]
  BY <1>4, Zenon DEF pow2
<1>6. \A n \in Nat : pow2[n + 1] = 2 * pow2[n]
  BY <1>5
<1>7. pow2[0] = 1
  BY <1>5
<1> DEFINE S == {n \in Nat : pow2[n] \in Nat \ {0}}
<1>8. Nat \subseteq S
  <2>1. 0 \in S
    BY <1>7
  <2>2. \A n \in Nat : n \in S => n + 1 \in S
    BY <1>6
  <2> HIDE DEF S
  <2> QED BY <2>1, <2>2, Ind
<1> QED BY <1>6, <1>7, <1>8

\* Remainder zero and exact quotient say the same.
LEMMA Multiple ==
  ASSUME NEW d \in Nat \ {0}, NEW b \in Nat
  PROVE  /\ b % d = 0 => \E q \in Nat : b = q * d
         /\ \A q \in Nat : b = q * d => b % d = 0 /\ b \div d = q
<1>1. ASSUME b % d = 0 PROVE \E q \in Nat : b = q * d
  <2>1. b = (b \div d) * d /\ b \div d \in Nat
    BY <1>1
  <2> QED BY <2>1, Zenon
<1>2. ASSUME NEW q \in Nat PROVE (q * d) % d = 0 /\ (q * d) \div d = q
  OBVIOUS
<1> QED BY <1>1, <1>2

\* Two different multiples of d are at least d apart.
LEMMA Gap ==
  ASSUME NEW d \in Nat \ {0}, NEW x \in Nat, NEW y \in Nat, x * d < y * d
  PROVE  x + 1 <= y /\ (x + 1) * d <= y * d
<1>1. x < y
  <2>1. CASE y <= x
    <3>1. PICK k \in Nat : x = y + k
      <4>1. x - y \in Nat /\ x = y + (x - y)
        BY <2>1
      <4> QED BY <4>1
    <3>2. x * d = y * d + k * d /\ k * d \in Nat /\ y * d \in Nat
      BY <3>1
    <3> QED BY <3>2
  <2> QED BY <2>1
<1>2. PICK k \in Nat : y = (x + 1) + k
  <2>1. y - (x + 1) \in Nat /\ y = (x + 1) + (y - (x + 1))
    BY <1>1
  <2> QED BY <2>1
<1>3. y * d = (x + 1) * d + k * d /\ k * d \in Nat /\ (x + 1) * d \in Nat
  BY <1>2
<1> QED BY <1>1, <1>3

\* A smaller power of two divides a larger one.
LEMMA Pow2Divides ==
  ASSUME NEW o \in Nat, NEW n \in Nat, o <= n
  PROVE  \E m \in Nat \ {0} : pow2[n] = m * pow2[o]
<1> DEFINE S == {k \in Nat : \E m \in Nat \ {0} : pow2[o + k] = m * pow2[o]}
<1>1. 0 \in S
  <2>1. pow2[o + 0] = 1 * pow2[o]
    BY Pow2
  <2> QED BY <2>1
<1>2. ASSUME NEW k \in Nat, k \in S PROVE k + 1 \in S
  <2>1. PICK m \in Nat \ {0} : pow2[o + k] = m * pow2[o]
    BY <1>2
  <2>2. pow2[(o + k) + 1] = 2 * (m * pow2[o])
    BY <2>1, Pow2
  <2>3. pow2[o + (k + 1)] = (2 * m) * pow2[o] /\ 2 * m \in Nat \ {0}
    BY <2>2, Pow2
  <2> QED BY <2>3
<1>3. n - o \in S
  <2>1. Nat \subseteq S
    <3> HIDE DEF S
    <3> QED BY <1>1, <1>2, Ind
  <2> HIDE DEF S
  <2> QED BY <2>1
<1>4. o + (n - o) = n
  OBVIOUS
<1> QED BY <1>3, <1>4

\* Powers of two grow strictly, and faster than their exponents.
LEMMA Pow2Grows ==
  /\ \A a, b \in Nat : a < b => pow2[a] < pow2[b]
  /\ \A a, b \in Nat : a <= b => pow2[a] <= pow2[b]
  /\ \A n \in Nat : n < pow2[n]
<1>1. ASSUME NEW a \in Nat, NEW b \in Nat, a < b PROVE pow2[a] < pow2[b]
  <2>1. a + 1 \in Nat /\ a + 1 <= b
    BY <1>1
  <2>2. PICK m \in Nat \ {0} : pow2[b] = m * pow2[a + 1]
    BY <2>1, Pow2Divides
  <2>3. pow2[a + 1] = 2 * pow2[a] /\ pow2[a] \in Nat \ {0} /\ pow2[a + 1] \in Nat \ {0}
    BY <2>1, Pow2
  <2>4. PICK j \in Nat : m = j + 1
    <3>1. m - 1 \in Nat /\ m = (m - 1) + 1
      OBVIOUS
    <3> QED BY <3>1
  <2>5. PICK d \in Nat : d = pow2[a + 1]
    BY <2>3
  <2>6. pow2[b] >= pow2[a + 1] /\ pow2[b] \in Nat
    <3>1. (j + 1) * d = j * d + d /\ j * d \in Nat
      OBVIOUS
    <3> QED BY <2>2, <2>4, <2>5, <3>1
  <2> QED BY <2>3, <2>6
<1>2. ASSUME NEW a \in Nat, NEW b \in Nat, a <= b PROVE pow2[a] <= pow2[b]
  <2>1. pow2[a] \in Nat /\ pow2[b] \in Nat
    BY Pow2
  <2>2. CASE a < b
    BY <1>1, <2>1, <2>2
  <2>3. CASE a = b
    BY <2>1, <2>3
  <2> QED BY <1>2, <2>2, <2>3
<1>3. \A n \in Nat : n < pow2[n]
  <2> DEFINE S == {n \in Nat : n < pow2[n]}
  <2>1. 0 \in S
    BY Pow2
  <2>2. \A n \in Nat : n \in S => n + 1 \in S
    BY Pow2
  <2>3. Nat \subseteq S
    <3> HIDE DEF S
    <3> QED BY <2>1, <2>2, Ind
  <2> QED BY <2>3
<1> QED BY <1>1, <1>2, <1>3

\* pow2 turns sums into products.
LEMMA Pow2Sum ==
  ASSUME NEW a \in Nat, NEW b \in Nat
  PROVE  pow2[a + b] = pow2[a] * pow2[b]
<1> DEFINE S == {n \in Nat : pow2[a + n] = pow2[a] * pow2[n]}
<1>1. 0 \in S
  <2>1. a + 0 = a /\ pow2[a] \in Nat
    BY Pow2
  <2> QED BY <2>1, Pow2
<1>2. ASSUME NEW n \in Nat, n \in S PROVE n + 1 \in S
  <2>1. a + n \in Nat /\ a + (n + 1) = (a + n) + 1 /\ pow2[a] \in Nat /\ pow2[n] \in Nat
    BY Pow2
  <2>2. pow2[(a + n) + 1] = 2 * pow2[a + n] /\ pow2[n + 1] = 2 * pow2[n]
    BY <2>1, Pow2
  <2>3. pow2[a + n] = pow2[a] * pow2[n]
    BY <1>2
  <2>4. 2 * (pow2[a] * pow2[n]) = pow2[a] * (2 * pow2[n])
    BY <2>1
  <2>5. pow2[a + (n + 1)] = pow2[a] * pow2[n + 1]
    BY <2>1, <2>2, <2>3, <2>4
  <2> QED BY <2>5
<1>3. Nat \subseteq S
  <2> HIDE DEF S
  <2> QED BY <1>1, <1>2, Ind
<1> QED BY <1>3

\* log2() of lib/Math.cc is a natural number and inverts pow2.
LEMMA Log2 ==
  /\ \A x \in Nat : log2(x) \in Nat
  /\ log2(0) = 0
  /\ \A e \in Nat : log2(pow2[e]) = e
<1> DEFINE Bit(x, e) == pow2[e] <= (IF x = 0 THEN 1 ELSE x) /\ x < pow2[e + 1]
<1>1. ASSUME NEW x \in Nat PROVE \E e \in 0..x : Bit(x, e)
  <2> DEFINE T == {e \in Nat : x < pow2[e + 1]}
  <2>1. x \in T
    <3>1. x < pow2[x] /\ pow2[x] <= pow2[x + 1] /\ pow2[x] \in Nat /\ pow2[x + 1] \in Nat
      BY Pow2Grows, Pow2
    <3> QED BY <3>1
  <2>2. PICK e \in T : \A m \in T : e <= m
    <3> HIDE DEF T
    <3>1. T \in SUBSET Nat /\ T # {}
      BY <2>1, Zenon DEF T
    <3> QED BY <3>1, Least
  <2>3. e \in 0..x /\ x < pow2[e + 1]
    BY <2>1, <2>2
  <2>4. pow2[e] <= (IF x = 0 THEN 1 ELSE x)
    <3>1. CASE e = 0
      BY <3>1, Pow2
    <3>2. CASE e # 0
      <4>1. e - 1 \in Nat /\ (e - 1) + 1 = e /\ ~ (e <= e - 1)
        BY <2>3, <3>2
      <4>2. ~ (x < pow2[e])
        BY <4>1, <2>2
      <4>3. x # 0 /\ pow2[e] \in Nat
        BY <2>3, <3>2, Pow2
      <4> QED BY <4>2, <4>3
    <3> QED BY <3>1, <3>2
  <2> QED BY <2>3, <2>4
<1>2. ASSUME NEW x \in Nat PROVE log2(x) \in 0..x /\ Bit(x, log2(x))
  <2>1. log2(x) = CHOOSE e \in 0..x : Bit(x, e)
    BY DEF log2
  <2> HIDE DEF Bit
  <2> QED BY <1>1, <2>1, Zenon
<1>3. ASSUME NEW e \in Nat PROVE log2(pow2[e]) = e
  <2> DEFINE x == pow2[e]  l == log2(x)
  <2>1. x \in Nat \ {0} /\ l \in Nat /\ pow2[l] <= x /\ x < pow2[l + 1]
    BY <1>2, Pow2
  <2> HIDE DEF l
  <2>2. ~ (e < l)
    BY <2>1, Pow2Grows, Pow2
  <2>3. ~ (l + 1 <= e)
    BY <2>1, Pow2Grows, Pow2
  <2> QED BY <2>1, <2>2, <2>3 DEF l
<1>4. log2(0) \in 0..0
  BY <1>2
<1> QED BY <1>2, <1>3, <1>4

\* 2^e is the smallest power of two that is not below x.
RoundedUp(x, e) == pow2[e] >= x /\ (e = 0 \/ pow2[e - 1] < x)

\* round_up_to_pow_of_2() of lib/Math.cc returns the smallest power of two that
\* is not below its argument, for every argument.
LEMMA RoundUp ==
  ASSUME NEW x \in Nat
  PROVE  \E e \in 0..x : round_up_to_pow_of_2(x) = pow2[e] /\ RoundedUp(x, e)
<1> DEFINE T == {e \in Nat : pow2[e] >= x}
<1>1. x \in T
  <2>1. x < pow2[x] /\ pow2[x] \in Nat
    BY Pow2Grows, Pow2
  <2> QED BY <2>1
<1>2. PICK e \in T : \A m \in T : e <= m
  <2> HIDE DEF T
  <2>1. T \in SUBSET Nat /\ T # {}
    BY <1>1 DEF T
  <2> QED BY <2>1, Least
<1>3. e \in 0..x /\ pow2[e] >= x
  BY <1>1, <1>2
<1>4. e # 0 => pow2[e - 1] < x
  <2>1. SUFFICES ASSUME e # 0 PROVE pow2[e - 1] < x
    OBVIOUS
  <2>2. e - 1 \in Nat /\ ~ (e <= e - 1)
    BY <1>3, <2>1
  <2>3. pow2[e - 1] \in Nat /\ ~ (pow2[e - 1] >= x)
    BY <1>2, <2>2, Pow2
  <2> QED BY <2>3
<1>5. RoundedUp(x, e)
  BY <1>3, <1>4 DEF RoundedUp
<1>6. round_up_to_pow_of_2(x) = pow2[CHOOSE d \in 0..x : RoundedUp(x, d)]
  BY DEF round_up_to_pow_of_2, RoundedUp
<1> QED BY <1>3, <1>5, <1>6, Zenon

-----------------------------------------------------------------------------
(* Sequences without repetitions.                                          *)

\* Two sequences one after the other.
LEMMA Concatenated ==
  ASSUME NEW S, NEW a \in Seq(S), NEW b \in Seq(S)
  PROVE  /\ a \o b \in Seq(S) /\ Len(a \o b) = Len(a) + Len(b)
         /\ \A j \in 1..(Len(a) + Len(b)) :
              (a \o b)[j] = IF j <= Len(a) THEN a[j] ELSE b[j - Len(a)]
OBVIOUS

\* Removing the element at a place of a sequence without repetitions removes
\* just that element.
LEMMA RemovedAt ==
  ASSUME NEW S, NEW s \in Seq(S), IsInjective(s), NEW k \in DOMAIN s
  PROVE  /\ erase(s, k) \in Seq(S)
         /\ Range(erase(s, k)) = Range(s) \ {s[k]}
         /\ IsInjective(erase(s, k))
<1>1. k \in 1..Len(s) /\ DOMAIN s = 1..Len(s) /\ Len(s) \in Nat
  OBVIOUS
<1>2. \A j \in 1..Len(s) : s[j] = s[k] => j = k
  BY <1>1 DEF IsInjective
<1> DEFINE t == erase(s, k)
<1>3. /\ t \in Seq(S) /\ Len(t) = Len(s) - 1
      /\ \A j \in 1..(Len(s) - 1) : t[j] = IF j < k THEN s[j] ELSE s[j + 1]
  <2> DEFINE a == SubSeq(s, 1, k - 1)  c == SubSeq(s, k + 1, Len(s))
  <2>1. /\ a \in Seq(S) /\ Len(a) = k - 1 /\ \A j \in 1..(k - 1) : a[j] = s[j]
    BY <1>1
  <2>2. /\ c \in Seq(S) /\ Len(c) = Len(s) - k /\ \A j \in 1..(Len(s) - k) : c[j] = s[k + j]
    BY <1>1
  <2>3. t = a \o c
    BY DEF erase
  <2> HIDE DEF a, c, t
  <2>4. /\ t \in Seq(S) /\ Len(t) = Len(s) - 1
        /\ \A j \in 1..(Len(s) - 1) : t[j] = IF j <= k - 1 THEN a[j] ELSE c[j - (k - 1)]
    <3>1. /\ t \in Seq(S) /\ Len(t) = Len(a) + Len(c)
          /\ \A j \in 1..(Len(a) + Len(c)) : t[j] = IF j <= Len(a) THEN a[j] ELSE c[j - Len(a)]
      BY <2>1, <2>2, <2>3, Concatenated, Zenon
    <3> QED BY <1>1, <2>1, <2>2, <3>1
  <2>5. ASSUME NEW j \in 1..(Len(s) - 1) PROVE t[j] = IF j < k THEN s[j] ELSE s[j + 1]
    <3>1. CASE j < k
      BY <1>1, <2>1, <2>4, <3>1
    <3>2. CASE ~(j < k)
      <4>1. j - (k - 1) \in 1..(Len(s) - k) /\ k + (j - (k - 1)) = j + 1 /\ ~(j <= k - 1)
        BY <1>1, <3>2
      <4> QED BY <2>2, <2>4, <3>2, <4>1
    <3> QED BY <3>1, <3>2
  <2> QED BY <2>4, <2>5
<1> HIDE DEF t
<1>4. Range(t) = Range(s) \ {s[k]}
  <2>1. ASSUME NEW x \in Range(t) PROVE x \in Range(s) \ {s[k]}
    BY <2>1, <1>1, <1>2, <1>3 DEF Range
  <2>2. ASSUME NEW x \in Range(s) \ {s[k]} PROVE x \in Range(t)
    <3>1. PICK j \in 1..Len(s) : s[j] = x
      BY DEF Range
    <3>2. j # k
      BY <3>1, <1>1
    <3>3. CASE j < k
      <4>1. j \in 1..Len(t) /\ t[j] = x
        BY <3>1, <3>3, <1>3
      <4> QED BY <4>1, <1>3 DEF Range
    <3>4. CASE j > k
      <4>1. j - 1 \in 1..Len(t) /\ t[j - 1] = x
        BY <3>1, <3>4, <1>3
      <4> QED BY <4>1, <1>3 DEF Range
    <3> QED BY <3>2, <3>3, <3>4
  <2> QED BY <2>1, <2>2
<1>5. IsInjective(t)
  <2> SUFFICES ASSUME NEW i \in 1..(Len(s) - 1), NEW j \in 1..(Len(s) - 1), t[i] = t[j]
               PROVE  i = j
    BY <1>3 DEF IsInjective
  <2> DEFINE old(n) == IF n < k THEN n ELSE n + 1
  <2>1. old(i) \in DOMAIN s /\ old(j) \in DOMAIN s /\ s[old(i)] = s[old(j)]
    BY <1>1, <1>3
  <2>2. old(i) = old(j)
    BY <2>1 DEF IsInjective
  <2> QED BY <2>2, <1>1
<1> QED BY <1>3, <1>4, <1>5 DEF t

\* Removing an element from a sequence without repetitions removes just that
\* element.
LEMMA Removed ==
  ASSUME NEW S, NEW s \in Seq(S), IsInjective(s), NEW e \in Range(s)
  PROVE  /\ remove(s, e) \in Seq(S)
         /\ Range(remove(s, e)) = Range(s) \ {e}
         /\ IsInjective(remove(s, e))
<1>1. PICK k \in DOMAIN s : s[k] = e
  BY DEF Range
<1>2. \A j \in 1..Len(s) : s[j] = e => j = k
  BY <1>1 DEF IsInjective
<1>3. (CHOOSE i \in DOMAIN s : s[i] = e /\ \A j \in 1..(i - 1) : s[j] # e) = k
  <2>1. \A j \in 1..(k - 1) : s[j] # e
    BY <1>1, <1>2
  <2> QED BY <1>1, <1>2, <2>1
<1>4. remove(s, e) = erase(s, k)
  BY <1>1, <1>3 DEF remove
<1> QED BY <1>1, <1>4, RemovedAt

\* A new element at the front of a sequence without repetitions adds just that
\* element.
LEMMA PushFront ==
  ASSUME NEW S, NEW s \in Seq(S), IsInjective(s), NEW e \in S, e \notin Range(s)
  PROVE  /\ <<e>> \o s \in Seq(S)
         /\ Range(<<e>> \o s) = Range(s) \cup {e}
         /\ IsInjective(<<e>> \o s)
<1> DEFINE t == <<e>> \o s
<1>1. /\ t \in Seq(S) /\ Len(t) = Len(s) + 1 /\ Len(s) \in Nat
      /\ \A j \in 1..(Len(s) + 1) : t[j] = IF j = 1 THEN e ELSE s[j - 1]
  <2>1. <<e>> \in Seq(S) /\ Len(<<e>>) = 1 /\ <<e>>[1] = e
    OBVIOUS
  <2>2. /\ t \in Seq(S) /\ Len(t) = Len(<<e>>) + Len(s)
        /\ \A j \in 1..(Len(<<e>>) + Len(s)) :
             t[j] = IF j <= Len(<<e>>) THEN <<e>>[j] ELSE s[j - Len(<<e>>)]
    BY <2>1, Concatenated, Zenon
  <2> HIDE DEF t
  <2> QED BY <2>1, <2>2
<1> HIDE DEF t
<1>2. Range(t) = Range(s) \cup {e}
  <2>1. ASSUME NEW x \in Range(t) PROVE x \in Range(s) \cup {e}
    BY <1>1 DEF Range
  <2>2. ASSUME NEW x \in Range(s) PROVE x \in Range(t)
    <3>1. PICK j \in 1..Len(s) : s[j] = x
      BY DEF Range
    <3>2. j + 1 \in 1..Len(t) /\ t[j + 1] = x
      BY <1>1, <3>1
    <3> QED BY <3>2, <1>1 DEF Range
  <2>3. e \in Range(t)
    <3>1. 1 \in 1..Len(t) /\ t[1] = e
      BY <1>1
    <3> QED BY <3>1, <1>1 DEF Range
  <2> QED BY <2>1, <2>2, <2>3
<1>3. IsInjective(t)
  <2> SUFFICES ASSUME NEW i \in 1..(Len(s) + 1), NEW j \in 1..(Len(s) + 1), t[i] = t[j]
               PROVE  i = j
    BY <1>1 DEF IsInjective
  <2>1. \A n \in 2..(Len(s) + 1) : t[n] \in Range(s) /\ t[n] = s[n - 1] /\ n - 1 \in DOMAIN s
    BY <1>1 DEF Range
  <2>2. CASE i = 1 \/ j = 1
    BY <2>1, <2>2, <1>1
  <2>3. CASE i # 1 /\ j # 1
    <3>1. i - 1 = j - 1
      BY <2>1, <2>3 DEF IsInjective
    <3> QED BY <3>1
  <2> QED BY <2>2, <2>3
<1> QED BY <1>1, <1>2, <1>3 DEF t

\* A new element at the end of a sequence without repetitions adds just that
\* element.
LEMMA Appended ==
  ASSUME NEW S, NEW s \in Seq(S), IsInjective(s), NEW e \in S, e \notin Range(s)
  PROVE  /\ Append(s, e) \in Seq(S) /\ IsInjective(Append(s, e))
         /\ Range(Append(s, e)) = Range(s) \cup {e}
<1>1. /\ Append(s, e) \in Seq(S) /\ Len(s) \in Nat /\ DOMAIN s = 1..Len(s)
      /\ DOMAIN Append(s, e) = 1..(Len(s) + 1) /\ Append(s, e)[Len(s) + 1] = e
      /\ \A j \in 1..Len(s) : Append(s, e)[j] = s[j]
  OBVIOUS
<1>2. \A j \in 1..Len(s) : s[j] # e
  BY <1>1 DEF Range
<1>3. IsInjective(Append(s, e))
  BY <1>1, <1>2 DEF IsInjective
<1>4. Range(Append(s, e)) = Range(s) \cup {e}
  <2>1. \A j \in 1..(Len(s) + 1) : j \in 1..Len(s) \/ j = Len(s) + 1
    BY <1>1
  <2>2. \A j \in 1..Len(s) : j \in 1..(Len(s) + 1)
    BY <1>1
  <2>3. Len(s) + 1 \in 1..(Len(s) + 1)
    BY <1>1
  <2> QED BY <1>1, <2>1, <2>2, <2>3, Zenon DEF Range
<1> QED BY <1>1, <1>3, <1>4
=============================================================================
