---------------------------- MODULE NaturalLemmas ----------------------------
(***************************************************************************)
(* Facts about natural numbers that the proofs share: quotients and        *)
(* remainders by a divisor that is not a numeral (sectors, registers and   *)
(* descriptors cut numbers into digits), least elements, and induction.    *)
(***************************************************************************)
EXTENDS Integers, WellFoundedInduction, TLAPS

\* A number is its quotient and its remainder.
LEMMA QuotientRemainder ==
    ASSUME NEW n \in Nat, NEW d \in Nat \ {0}
    PROVE  /\ n \div d \in Nat
           /\ n % d \in 0..(d - 1)
           /\ n = d * (n \div d) + (n % d)
  BY SMTT(20)

\* What lies below a product, divided by one factor, lies below the other.
LEMMA QuotientBelow ==
    ASSUME NEW n \in Nat, NEW d \in Nat \ {0}, NEW m \in Nat, n < m * d
    PROVE  n \div d < m
<1>1. n \div d \in Nat /\ n % d \in Nat /\ n = d * (n \div d) + (n % d)
  BY QuotientRemainder
<1> DEFINE q == n \div d
<1>2. SUFFICES ASSUME m <= q PROVE FALSE
  BY <1>1
<1>3. d * m <= d * q
  <2> HIDE DEF q
  <2>1. q \in Nat
    BY <1>1 DEF q
  <2> QED
    BY <1>2, <2>1, SMTT(20)
<1>4. d * q <= n
  <2>1. d * q \in Nat
    BY <1>1, SMTT(20)
  <2> HIDE DEF q
  <2> QED
    BY <1>1, <2>1 DEF q
<1>5. d * m = m * d
  BY SMT
<1> QED
  <2>1. d * m \in Nat /\ d * q \in Nat
    BY <1>1, SMTT(20)
  <2> HIDE DEF q
  <2> QED
    BY <1>3, <1>4, <1>5, <2>1

\* A multiple and the divisor make the next multiple.
LEMMA NextMultiple ==
    ASSUME NEW n \in Nat, NEW d \in Nat \ {0}, n % d = 0
    PROVE  (n + d) % d = 0
<1> DEFINE q == n \div d
<1>1. q \in Nat /\ n = d * q
  BY QuotientRemainder
<1>2. (q + 1) * d = n + d
  <2> HIDE DEF q
  <2> QED
    BY <1>1, SMTT(20)
<1>3. ((q + 1) * d) % d = 0
  <2> HIDE DEF q
  <2> QED
    BY <1>1, SMTT(20)
<1> QED
  BY <1>2, <1>3

\* The quotient is the only number that leaves a remainder below the divisor.
LEMMA QuotientUnique ==
    ASSUME NEW n \in Nat, NEW d \in Nat \ {0}, NEW q \in Nat, NEW r \in 0..(d - 1),
           n = d * q + r
    PROVE  n \div d = q /\ n % d = r
<1> DEFINE p == n \div d
           s == n % d
<1>1. p \in Nat /\ s \in 0..(d - 1) /\ n = d * p + s
  BY QuotientRemainder
<1>2. d * (p - q) = r - s
  <2> HIDE DEF p, s
  <2>1. d * (p - q) = d * p - d * q /\ d * p \in Nat /\ d * q \in Nat
    BY <1>1, SMTT(20)
  <2> DEFINE dp == d * p
             dq == d * q
             pq == d * (p - q)
  <2> HIDE DEF dp, dq, pq
  <2>2. pq = dp - dq /\ dp \in Nat /\ dq \in Nat /\ n = dp + s /\ n = dq + r
    BY <1>1, <2>1, Zenon DEF dp, dq, pq
  <2>3. pq = r - s
    BY <1>1, <2>2
  <2> QED
    BY <2>3 DEF pq
<1>3. p - q = 0
  <2> HIDE DEF p, s
  <2> DEFINE e == p - q
  <2>1. e \in Int /\ d * e = r - s /\ r - s < d /\ r - s > -d
    BY <1>1, <1>2
  <2>2. CASE e >= 1
    <3>1. d * e >= d
      <4> HIDE DEF e
      <4> QED
        BY <2>1, <2>2, SMTT(20)
    <3> QED
      <4> HIDE DEF e
      <4> QED
        BY <1>1, <2>1, <3>1
  <2>3. CASE e <= -1
    <3>1. d * e <= -d
      <4> HIDE DEF e
      <4> QED
        BY <2>1, <2>3, SMTT(20)
    <3> QED
      <4> HIDE DEF e
      <4> QED
        BY <1>1, <2>1, <3>1
  <2> QED
    <3> HIDE DEF e
    <3>1. e = 0
      BY <2>1, <2>2, <2>3
    <3> QED
      BY <3>1 DEF e
<1>4. p = q
  <2> HIDE DEF p, s
  <2> QED
    BY <1>1, <1>3
<1>5. s = r
  <2>1. r - s = 0
    BY <1>2, <1>3, <1>4
  <2> HIDE DEF p, s
  <2> QED
    BY <1>1, <2>1
<1> QED
  BY <1>4, <1>5

\* Dividing by two factors one after the other divides by their product.
LEMMA QuotientOfQuotient ==
    ASSUME NEW n \in Nat, NEW d \in Nat \ {0}, NEW e \in Nat \ {0}
    PROVE  n \div (d * e) = (n \div d) \div e
<1> DEFINE q1 == n \div d
           r1 == n % d
           q2 == q1 \div e
           r2 == q1 % e
<1>1. q1 \in Nat /\ r1 \in 0..(d - 1) /\ n = d * q1 + r1
  BY QuotientRemainder
<1>2. q2 \in Nat /\ r2 \in 0..(e - 1) /\ q1 = e * q2 + r2
  <2> HIDE DEF q1
  <2> QED
    BY <1>1, QuotientRemainder
<1> HIDE DEF q1, r1, q2, r2
<1>3. d * e \in Nat \ {0}
  BY SMTT(20)
<1>4. d * r2 + r1 \in 0..(d * e - 1)
  <2>1. d * r2 + d <= d * e
    <3>1. r2 + 1 <= e /\ r2 \in Nat
      BY <1>2
    <3>2. d * (r2 + 1) <= d * e
      BY <3>1, SMTT(20)
    <3>3. d * (r2 + 1) = d * r2 + d
      BY <3>1, SMTT(20)
    <3> QED
      BY <3>2, <3>3
  <2> DEFINE x == d * r2
             y == d * e
  <2>2. x \in Nat /\ y \in Nat /\ x + d <= y
    BY <1>2, <2>1, SMTT(20)
  <2> HIDE DEF x, y
  <2>3. x + r1 \in 0..(y - 1)
    BY <1>1, <2>2
  <2> QED
    BY <2>3 DEF x, y
<1>5. n = (d * e) * q2 + (d * r2 + r1)
  BY <1>1, <1>2, SMTT(20)
<1> DEFINE de == d * e
           r == d * r2 + r1
<1>6. n \div de = q2
  <2>1. de \in Nat \ {0} /\ r \in 0..(de - 1) /\ n = de * q2 + r
    BY <1>3, <1>4, <1>5
  <2> HIDE DEF de, r
  <2> QED
    BY <1>2, <2>1, QuotientUnique
<1> QED
  BY <1>6 DEF q1, q2

\* A set of natural numbers that is not empty has a least element.
LEMMA LeastElement ==
    ASSUME NEW S \in SUBSET Nat, S # {}
    PROVE  \E m \in S : \A k \in S : m <= k
<1> DEFINE Less == {p \in Nat \X Nat : p[1] < p[2]}
<1>1. IsWellFoundedOn(Less, Nat)
  <2>1. OpToRel(<, Nat) = Less
    BY Zenon DEF OpToRel
  <2> QED
    BY <2>1, NatLessThanWellFounded
<1>2. PICK m \in S : \A k \in S : ~(<<k, m>> \in Less)
  <2> HIDE DEF Less
  <2> QED
    BY <1>1, WFMin
<1>3. \A k \in S : m <= k
  <2> SUFFICES ASSUME NEW k \in S, k < m
               PROVE  FALSE
    BY <1>2
  <2>1. <<k, m>> \in Less
    OBVIOUS
  <2> QED
    BY <1>2, <2>1
<1> QED
  BY <1>3

\* A set that holds 0 and the successor of every number in it holds them all: an
\* induction whose property is a set.
LEMMA SetInduction ==
    ASSUME NEW S \in SUBSET Nat, 0 \in S, \A n \in S : n + 1 \in S
    PROVE  S = Nat
<1> DEFINE T == Nat \ S
<1>1. ASSUME T # {}
      PROVE  FALSE
  <2>1. T \in SUBSET Nat
    OBVIOUS
  <2> HIDE DEF T
  <2>2. PICK m \in T : \A k \in T : m <= k
    BY <1>1, <2>1, LeastElement
  <2>3. m \in Nat /\ m \notin S /\ m # 0 /\ m - 1 \in Nat
    BY DEF T
  <2>4. m - 1 \in S
    <3>1. ~(m <= m - 1)
      BY <2>3
    <3> QED
      BY <2>2, <2>3, <3>1 DEF T
  <2>5. (m - 1) + 1 \in S
    BY <2>4
  <2> QED
    BY <2>3, <2>5
<1> QED
  BY <1>1

\* A function on the natural numbers with a given value at 0, each of the others made from
\* the one before.
Recursion(f, V, base, step) ==
    /\ f \in [Nat -> V]
    /\ f[0] = base
    /\ \A n \in Nat \ {0} : f[n] = step[<<n, f[n - 1]>>]

\* There is one.
LEMMA RecursiveFunction ==
    ASSUME NEW V, NEW base \in V, NEW step \in [Nat \X V -> V]
    PROVE  \E f : Recursion(f, V, base, step)
<1> DEFINE Good(f, m) == /\ f \in [Nat -> V] /\ f[0] = base
                         /\ \A n \in 1..m : f[n] = step[<<n, f[n - 1]>>]
           Reached == {m \in Nat : \E f : Good(f, m)}
<1>1. Reached = Nat
  <2>1. 0 \in Reached
    <3> DEFINE f == [n \in Nat |-> base]
    <3>1. Good(f, 0)
      OBVIOUS
    <3> QED  BY <3>1
  <2>2. ASSUME NEW m \in Reached
        PROVE  m + 1 \in Reached
    <3>1. PICK f : Good(f, m)
      OBVIOUS
    <3>2. m \in Nat
      OBVIOUS
    <3> DEFINE g == [n \in Nat |-> IF n = m + 1 THEN step[<<n, f[n - 1]>>] ELSE f[n]]
    <3>3. \A n \in Nat : g[n] = IF n = m + 1 THEN step[<<n, f[n - 1]>>] ELSE f[n]
      OBVIOUS
    <3>4. f[m] \in V /\ <<m + 1, f[m]>> \in Nat \X V /\ (m + 1) - 1 = m
      BY <3>1, <3>2
    <3>5. step[<<m + 1, f[m]>>] \in V
      BY <3>4
    <3>6. g \in [Nat -> V]
      BY <3>1, <3>4, <3>5
    <3> HIDE DEF g, Reached
    <3>7. g[0] = base
      <4>1. 0 # m + 1 /\ 0 \in Nat
        BY <3>2
      <4>2. g[0] = f[0]
        BY <3>3, <4>1
      <4> QED  BY <3>1, <4>2
    <3>8. ASSUME NEW n \in 1..(m + 1)
          PROVE  g[n] = step[<<n, g[n - 1]>>]
      <4>1. n \in Nat /\ n - 1 \in Nat /\ n - 1 # m + 1
        BY <3>2
      <4>2. g[n - 1] = f[n - 1]
        BY <3>3, <4>1
      <4>3. CASE n = m + 1
        BY <3>3, <4>1, <4>2, <4>3
      <4>4. CASE n # m + 1
        <5>1. n \in 1..m
          BY <3>2, <4>4
        <5> QED  BY <3>1, <3>3, <4>1, <4>2, <4>4, <5>1
      <4> QED  BY <4>3, <4>4
    <3>9. Good(g, m + 1)
      BY <3>6, <3>7, <3>8
    <3> HIDE DEF Good
    <3> QED  BY <3>2, <3>9 DEF Reached
  <2> HIDE DEF Good
  <2>3. Reached \in SUBSET Nat
    OBVIOUS
  <2> HIDE DEF Reached
  <2> QED  BY <2>1, <2>2, <2>3, SetInduction
<1>2. ASSUME NEW f, NEW g, NEW m \in Nat, NEW n \in Nat, Good(f, m), Good(g, n), m <= n
      PROVE  f[m] = g[m]
  <2> DEFINE Same == {l \in Nat : l <= m => f[l] = g[l]}
  <2>1. 0 \in Same
    BY <1>2
  <2>2. ASSUME NEW l \in Same
        PROVE  l + 1 \in Same
    <3> SUFFICES ASSUME l + 1 <= m
                 PROVE  f[l + 1] = g[l + 1]
      OBVIOUS
    <3>1. l \in Nat /\ l + 1 \in 1..m /\ l + 1 \in 1..n /\ (l + 1) - 1 = l /\ f[l] = g[l]
      BY <1>2
    <3>2. f[l + 1] = step[<<l + 1, f[l]>>] /\ g[l + 1] = step[<<l + 1, g[l]>>]
      BY <1>2, <3>1
    <3> QED  BY <3>1, <3>2
  <2>3. Same \in SUBSET Nat
    OBVIOUS
  <2>4. Same = Nat
    <3> HIDE DEF Same
    <3> QED  BY <2>1, <2>2, <2>3, SetInduction
  <2> QED  BY <2>4
<1> DEFINE G(m) == CHOOSE f : Good(f, m)
<1>3. ASSUME NEW m \in Nat
      PROVE  Good(G(m), m)
  <2>1. \E f : Good(f, m)
    BY <1>1
  <2> HIDE DEF Good
  <2> QED  BY <2>1
<1> DEFINE F == [n \in Nat |-> G(n)[n]]
<1>4. \A n \in Nat : F[n] = G(n)[n]
  BY Zenon
<1> HIDE DEF G, Reached
<1>5. F \in [Nat -> V]
  <2>1. \A n \in Nat : G(n)[n] \in V
    BY <1>3
  <2> QED  BY <2>1
<1>6. F[0] = base
  BY <1>3, <1>4
<1>7. ASSUME NEW n \in Nat \ {0}
      PROVE  F[n] = step[<<n, F[n - 1]>>]
  <2>1. n \in Nat /\ n - 1 \in Nat /\ n \in 1..n /\ n - 1 <= n
    OBVIOUS
  <2>2. G(n)[n] = step[<<n, G(n)[n - 1]>>]
    BY <1>3, <2>1
  <2>3. G(n - 1)[n - 1] = G(n)[n - 1]
    <3>1. Good(G(n), n) /\ Good(G(n - 1), n - 1)
      BY <1>3, <2>1
    <3> HIDE DEF Good, F
    <3> QED  BY <1>2, <2>1, <3>1
  <2>4. F[n] = G(n)[n] /\ F[n - 1] = G(n - 1)[n - 1]
    BY <1>4, <2>1
  <2> HIDE DEF F
  <2> QED  BY <2>2, <2>3, <2>4
<1> HIDE DEF F
<1>8. Recursion(F, V, base, step)
  BY <1>5, <1>6, <1>7 DEF Recursion
<1> QED  BY <1>8
=============================================================================
