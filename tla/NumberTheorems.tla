--------------------------- MODULE NumberTheorems ---------------------------
(***************************************************************************)
(* Proofs about Euclid and Powers: the recursive function gcd is defined   *)
(* for every two numbers and returns their greatest common divisor, and    *)
(* twoTo is defined for every number and grows faster than it.  Induction  *)
(* is a search for a least counterexample: a set of naturals that is not   *)
(* empty has a least element.                                              *)
(***************************************************************************)
EXTENDS Euclid, Powers, WellFoundedInduction, TLAPS

\* A set of naturals that is not empty has a least element.
LEMMA LeastNumber ==
  ASSUME NEW S \in SUBSET Nat, S # {}
  PROVE  \E n \in S : \A m \in S : n <= m
<1> DEFINE R == OpToRel(<, Nat)
<1>1. IsWellFoundedOn(R, Nat)
  BY NatLessThanWellFounded, Zenon
<1>2. PICK n \in S : \A m \in S : <<m, n>> \notin R
  <2> HIDE DEF R
  <2>1. QED
    BY <1>1, WFMin, Zenon
<1>3. \A m \in S : ~(m < n)
  BY <1>2 DEF OpToRel
<1>4. QED
  BY <1>3

\* What d divides are its multiples.
LEMMA MultipleOf ==
  ASSUME NEW d \in Nat \ {0}, NEW n \in Nat
  PROVE  Divides(d, n) <=> \E q \in Nat : n = d * q
<1>1. Divides(d, n) => n = d * (n \div d) /\ n \div d \in Nat
  BY DEF Divides
<1>2. ASSUME NEW q \in Nat, n = d * q PROVE n % d = 0
  BY <1>2
<1>3. QED
  BY <1>1, <1>2 DEF Divides

\* Division with remainder.
LEMMA RemainderOf ==
  ASSUME NEW a \in Nat, NEW b \in Nat \ {0}
  PROVE  a % b \in Nat /\ a % b < b /\ \E q \in Nat : a = b * q + (a % b)
<1>1. a = b * (a \div b) + (a % b) /\ a \div b \in Nat
  OBVIOUS
<1>2. a % b \in 0..(b - 1)
  OBVIOUS
<1>3. \E q \in Nat : a = b * q + (a % b)
  BY <1>1, Zenon
<1>4. QED
  BY <1>2, <1>3

-----------------------------------------------------------------------------
\* The common divisors of two numbers (every positive number divides 0).
CommonDivisors(a, b) == {d \in Nat \ {0} : Divides(d, a) /\ Divides(d, b)}

\* One call of gcd hands on two numbers with the same common divisors, ...
LEMMA SameDivisors ==
  ASSUME NEW a \in Nat, NEW b \in Nat \ {0}
  PROVE  CommonDivisors(a, b) = CommonDivisors(b, a % b)
<1> SUFFICES ASSUME NEW d \in Nat \ {0}
             PROVE  Divides(d, a) /\ Divides(d, b) <=> Divides(d, b) /\ Divides(d, a % b)
  BY DEF CommonDivisors
<1>1. PICK q \in Nat : a = b * q + (a % b)
  BY RemainderOf
<1>2. a % b \in Nat
  BY RemainderOf
<1>3. ASSUME NEW m \in Nat, NEW k \in Nat, b = d * m, a % b = d * k
      PROVE  \E n \in Nat : a = d * n
  <2>1. a = (d * m) * q + d * k
    BY <1>1, <1>3
  <2>2. a = d * (m * q + k) /\ m * q + k \in Nat
    BY <2>1
  <2>3. QED
    BY <2>2, Zenon
<1>4. ASSUME NEW m \in Nat, NEW k \in Nat, b = d * m, a = d * k
      PROVE  \E n \in Nat : a % b = d * n
  <2>1. a % b = d * k - (d * m) * q
    BY <1>1, <1>2, <1>4
  <2>2. a % b = d * (k - m * q)
    BY <2>1
  <2>3. k - m * q \in Nat
    BY <1>2, <2>2
  <2>4. QED
    BY <2>2, <2>3, Zenon
<1>5. ASSUME Divides(d, b), Divides(d, a % b) PROVE Divides(d, a)
  <2>1. PICK m \in Nat : b = d * m
    BY <1>5, MultipleOf
  <2>2. PICK k \in Nat : a % b = d * k
    BY <1>2, <1>5, MultipleOf
  <2>3. QED
    BY <1>3, <2>1, <2>2, MultipleOf
<1>6. ASSUME Divides(d, b), Divides(d, a) PROVE Divides(d, a % b)
  <2>1. PICK m \in Nat : b = d * m
    BY <1>6, MultipleOf
  <2>2. PICK k \in Nat : a = d * k
    BY <1>6, MultipleOf
  <2>3. QED
    BY <1>2, <1>4, <2>1, <2>2, MultipleOf
<1>7. QED
  BY <1>5, <1>6

\* d is the largest number of S.
IsLargest(d, S) == d \in S /\ \A e \in S : e <= d

\* ... and the last one gets a number that is the largest divisor of itself.
LEMMA DivisorsOfOne ==
  ASSUME NEW a \in Nat \ {0}
  PROVE  IsLargest(a, CommonDivisors(a, 0))
<1>1. ASSUME NEW d \in Nat \ {0} PROVE Divides(d, 0)
  BY <1>1 DEF Divides
<1>2. Divides(a, a)
  BY DEF Divides
<1>3. ASSUME NEW d \in Nat \ {0}, Divides(d, a) PROVE d <= a
  <2>1. d > a => a % d = a
    OBVIOUS
  <2>2. QED
    BY <1>3, <2>1 DEF Divides
<1>4. QED
  BY <1>1, <1>2, <1>3 DEF IsLargest, CommonDivisors

\* The largest number of S, when there is one.
Largest(S) == CHOOSE d : IsLargest(d, S)

\* The recursion of gcd defines a function: one that satisfies it is the function
\* that maps two numbers to their largest common divisor.
LEMMA GcdDefined ==
  ASSUME NEW a \in Nat, NEW b \in Nat
  PROVE  gcd[<<a, b>>] = IF b = 0 THEN a ELSE gcd[<<b, a % b>>]
<1> DEFINE G == [p \in Nat \X Nat |->
                  IF p[1] = 0 /\ p[2] = 0 THEN 0 ELSE Largest(CommonDivisors(p[1], p[2]))]
           Eqn(f) == f = [p \in Nat \X Nat |->
                           IF p[2] = 0 THEN p[1] ELSE f[<<p[2], p[1] % p[2]>>]]
<1>1. ASSUME NEW x \in Nat, NEW y \in Nat
      PROVE  G[<<x, y>>] = IF y = 0 THEN x ELSE G[<<y, x % y>>]
  <2>1. CASE x = 0 /\ y = 0
    BY <2>1
  <2>2. CASE x # 0 /\ y = 0
    <3>1. G[<<x, y>>] = Largest(CommonDivisors(x, 0))
      BY <2>2
    <3>2. IsLargest(x, CommonDivisors(x, 0))
      BY <2>2, DivisorsOfOne
    <3>3. ASSUME NEW d, IsLargest(d, CommonDivisors(x, 0)) PROVE d = x
      BY <3>2, <3>3 DEF IsLargest, CommonDivisors
    <3>4. QED
      BY <2>2, <3>1, <3>2, <3>3 DEF Largest
  <2>3. CASE y # 0
    <3>1. x % y \in Nat
      BY <2>3, RemainderOf
    <3>2. G[<<x, y>>] = Largest(CommonDivisors(x, y))
      BY <2>3
    <3>3. G[<<y, x % y>>] = Largest(CommonDivisors(y, x % y))
      BY <2>3, <3>1
    <3>4. QED
      BY <2>3, <3>2, <3>3, SameDivisors
  <2>4. QED
    BY <2>1, <2>2, <2>3
<1>2. Eqn(G)
  <2> HIDE DEF G
  <2>1. \A p \in Nat \X Nat : G[p] = IF p[2] = 0 THEN p[1] ELSE G[<<p[2], p[1] % p[2]>>]
    BY <1>1
  <2>2. G = [p \in Nat \X Nat |-> G[p]]
    BY DEF G
  <2>3. QED
    BY <2>1, <2>2
<1>3. Eqn(gcd)
  <2> HIDE DEF G
  <2>1. QED
    BY <1>2 DEF gcd
<1>4. QED
  BY <1>3

\* gcd(a, b) is the largest common divisor: in a least counterexample b is not 0,
\* but then the pair of the next call would be a smaller one.
THEOREM GcdIsLargest ==
  ASSUME NEW a \in Nat, NEW b \in Nat, a # 0 \/ b # 0
  PROVE  IsLargest(gcd[<<a, b>>], CommonDivisors(a, b))
<1> DEFINE Wrong(x, y) == (x # 0 \/ y # 0) /\ ~IsLargest(gcd[<<x, y>>], CommonDivisors(x, y))
           T == {y \in Nat : \E x \in Nat : Wrong(x, y)}
<1>1. ASSUME T # {} PROVE FALSE
  <2>1. PICK y \in T : \A m \in T : y <= m
    BY <1>1, LeastNumber
  <2>2. PICK x \in Nat : Wrong(x, y)
    BY <2>1
  <2>3. CASE y = 0
    BY <2>2, <2>3, GcdDefined, DivisorsOfOne
  <2>4. CASE y # 0
    <3>1. x % y \in Nat /\ x % y < y
      BY <2>4, RemainderOf
    <3>2. Wrong(y, x % y)
      BY <2>2, <2>4, <3>1, GcdDefined, SameDivisors
    <3>3. x % y \in T
      BY <3>1, <3>2
    <3>4. QED
      BY <2>1, <3>1, <3>3
  <2>5. QED
    BY <2>3, <2>4
<1>2. QED
  BY <1>1

\* gcd(a, b) is a positive number that divides a and b, and no larger number up to
\* either of them does: what Euclid promises holds of any two intervals of which one
\* is not 0.
THEOREM GcdCorrect ==
  ASSUME NEW a \in Nat, NEW b \in Nat, a # 0 \/ b # 0
  PROVE  gcd[<<a, b>>] \in Nat \ {0} /\ IsGcd(gcd[<<a, b>>], a, b)
<1> DEFINE d == gcd[<<a, b>>]
<1>1. IsLargest(d, CommonDivisors(a, b))
  BY GcdIsLargest
<1> HIDE DEF d
<1>2. d \in Nat \ {0} /\ Divides(d, a) /\ Divides(d, b)
  BY <1>1 DEF IsLargest, CommonDivisors
<1>3. ASSUME NEW e \in (d + 1)..(IF a > b THEN a ELSE b), Divides(e, a), Divides(e, b)
      PROVE  FALSE
  BY <1>1, <1>2, <1>3 DEF IsLargest, CommonDivisors
<1>4. IsGcd(d, a, b)
  BY <1>2, <1>3 DEF IsGcd
<1>5. QED
  BY <1>2, <1>4 DEF d

-----------------------------------------------------------------------------
(* The powers of two.                                                       *)

\* f is the table of the powers from 0 to n.
IsTable(f, n) ==
  /\ f \in [0..n -> Nat] /\ f[0] = 1
  /\ \A i \in 1..n : f[i] = 2 * f[i - 1]

\* Every table has a longer one ...
LEMMA TableExists ==
  ASSUME NEW n \in Nat
  PROVE  \E f : IsTable(f, n)
<1> DEFINE T == {m \in Nat : ~\E f : IsTable(f, m)}
<1>1. ASSUME T # {} PROVE FALSE
  <2>1. PICK m \in T : \A k \in T : m <= k
    BY <1>1, LeastNumber
  <2>2. CASE m = 0
    <3>1. IsTable([i \in 0..0 |-> 1], 0)
      BY DEF IsTable
    <3>2. QED
      BY <2>1, <2>2, <3>1
  <2>3. CASE m # 0
    <3>1. m - 1 \in Nat /\ m - 1 \notin T
      BY <2>1, <2>3
    <3>2. PICK f : IsTable(f, m - 1)
      BY <3>1
    <3> DEFINE g == [i \in 0..m |-> IF i = m THEN 2 * f[m - 1] ELSE f[i]]
    <3>3. IsTable(g, m)
      BY <2>1, <2>3, <3>2 DEF IsTable
    <3>4. QED
      BY <2>1, <3>3
  <2>4. QED
    BY <2>2, <2>3
<1>2. QED
  BY <1>1

\* ... that agrees with it.
LEMMA TablesAgree ==
  ASSUME NEW n \in Nat, NEW m \in Nat, NEW f, NEW g, IsTable(f, n), IsTable(g, m)
  PROVE  \A i \in Nat : i <= n /\ i <= m => f[i] = g[i]
<1> DEFINE T == {i \in Nat : i <= n /\ i <= m /\ f[i] # g[i]}
<1>1. ASSUME T # {} PROVE FALSE
  <2>1. PICK i \in T : \A k \in T : i <= k
    BY <1>1, LeastNumber
  <2>2. i # 0
    BY <2>1 DEF IsTable
  <2>3. i - 1 \in Nat /\ i - 1 \notin T
    BY <2>1, <2>2
  <2>4. QED
    BY <2>1, <2>2, <2>3 DEF IsTable
<1>2. QED
  BY <1>1

\* The table of the powers from 0 to n.
Table(n) == CHOOSE f : IsTable(f, n)

\* The tables together are a function that satisfies the recursion of twoTo, so twoTo
\* is one: a number for each exponent, doubling from 1.
LEMMA TwoToDefined ==
  /\ twoTo \in [Nat -> Nat]
  /\ twoTo[0] = 1
  /\ \A n \in Nat \ {0} : twoTo[n] = 2 * twoTo[n - 1]
<1> DEFINE H == [n \in Nat |-> Table(n)[n]]
           Eqn(f) == f = [n \in Nat |-> IF n = 0 THEN 1 ELSE 2 * f[n - 1]]
<1>1. \A n \in Nat : IsTable(Table(n), n)
  BY TableExists DEF Table
<1>2. ASSUME NEW n \in Nat
      PROVE  H[n] \in Nat /\ H[n] = IF n = 0 THEN 1 ELSE 2 * H[n - 1]
  <2>1. CASE n = 0
    BY <1>1, <2>1 DEF IsTable
  <2>2. CASE n # 0
    <3>1. n - 1 \in Nat
      BY <2>2
    <3>2. Table(n - 1)[n - 1] = Table(n)[n - 1]
      BY <1>1, <3>1, TablesAgree
    <3>3. Table(n)[n] = 2 * Table(n)[n - 1] /\ Table(n)[n] \in Nat
      BY <1>1, <2>2 DEF IsTable
    <3>4. QED
      BY <2>2, <3>1, <3>2, <3>3
  <2>3. QED
    BY <2>1, <2>2
<1>3. Eqn(H) /\ H \in [Nat -> Nat]
  <2>1. H = [n \in Nat |-> H[n]]
    OBVIOUS
  <2> HIDE DEF H
  <2>2. QED
    BY <1>2, <2>1
<1>4. Eqn(twoTo)
  <2> HIDE DEF H
  <2>1. QED
    BY <1>3 DEF twoTo
<1>5. ASSUME NEW n \in Nat, twoTo[n] \notin Nat PROVE FALSE
  <2> DEFINE T == {m \in Nat : twoTo[m] \notin Nat}
  <2>1. PICK m \in T : \A k \in T : m <= k
    BY <1>5, LeastNumber
  <2>2. m # 0
    BY <1>4, <2>1
  <2>3. m - 1 \in Nat /\ m - 1 \notin T
    BY <2>1, <2>2
  <2>4. QED
    BY <1>4, <2>1, <2>2, <2>3
<1>6. QED
  BY <1>4, <1>5

\* A power exceeds its exponent, and the next one and those after it are at least
\* twice as large.
LEMMA TwoToGrows ==
  /\ \A n \in Nat : twoTo[n] > n
  /\ \A m, n \in Nat : m < n => 2 * twoTo[m] <= twoTo[n]
<1>1. ASSUME NEW n \in Nat, ~(twoTo[n] > n) PROVE FALSE
  <2> DEFINE T == {k \in Nat : ~(twoTo[k] > k)}
  <2>1. PICK k \in T : \A i \in T : k <= i
    BY <1>1, LeastNumber
  <2>2. k # 0
    BY <2>1, TwoToDefined
  <2>3. k - 1 \in Nat /\ k - 1 \notin T
    BY <2>1, <2>2
  <2>4. QED
    BY <2>1, <2>2, <2>3, TwoToDefined
<1>2. ASSUME NEW m \in Nat, NEW n \in Nat, m < n, ~(2 * twoTo[m] <= twoTo[n])
      PROVE  FALSE
  <2> DEFINE T == {k \in Nat : m < k /\ ~(2 * twoTo[m] <= twoTo[k])}
  <2>1. PICK k \in T : \A i \in T : k <= i
    BY <1>2, LeastNumber
  <2>2. k - 1 \in Nat /\ k - 1 \notin T /\ m <= k - 1
    BY <2>1
  <2>3. twoTo[k] = 2 * twoTo[k - 1] /\ twoTo[m] \in Nat /\ twoTo[k - 1] \in Nat
    BY <2>1, <2>2, TwoToDefined
  <2>4. QED
    BY <2>1, <2>2, <2>3
<1>3. QED
  BY <1>1, <1>2
=============================================================================
