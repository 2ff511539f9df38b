------------------------------ MODULE NatFacts ------------------------------
(***************************************************************************)
(* Facts about numbers that the proofs share: quotients and remainders     *)
(* with a divisor that is not known, for pages, rings and bytes, and least *)
(* and greatest elements, for arguments by the first counterexample.       *)
(***************************************************************************)
EXTENDS Integers, WellFoundedInduction, TLAPS

\* Multiples of m are at least m apart.
LEMMA MultiplesApart ==
    ASSUME NEW m \in Nat \ {0}, NEW d \in Int, d # 0
    PROVE  m * d >= m \/ m * d =< 0 - m
<1>1. CASE d >= 1
  <2>1. PICK e \in Nat : d = 1 + e
    <3>1. d - 1 \in Nat BY <1>1
    <3> QED BY <3>1
  <2>2. m * d = m + m * e BY <2>1
  <2>3. m * e \in Nat BY <2>1
  <2> QED BY <2>2, <2>3
<1>2. CASE d =< 0 - 1
  <2>1. PICK e \in Nat : d = (0 - 1) - e
    <3>1. (0 - 1) - d \in Nat BY <1>2
    <3> QED BY <3>1
  <2>2. m * d = (0 - m) - m * e BY <2>1
  <2>3. m * e \in Nat BY <2>1
  <2> QED BY <2>2, <2>3
<1> QED BY <1>1, <1>2

\* Quotient and remainder exist,
LEMMA DivModDef ==
    ASSUME NEW m \in Nat \ {0}, NEW x \in Int
    PROVE  /\ x % m \in 0 .. m - 1 /\ x \div m \in Int
           /\ x = m * (x \div m) + (x % m)
           /\ x \in Nat => x \div m \in Nat /\ x % m =< x
<1>1. x % m \in 0 .. m - 1 /\ x \div m \in Int /\ x = m * (x \div m) + (x % m) OBVIOUS
<1>2. x \in Nat => x \div m \in Nat /\ x % m =< x BY SMT
<1> QED BY <1>1, <1>2

\* and there is only one of each.
LEMMA DivModUnique ==
    ASSUME NEW m \in Nat \ {0}, NEW q \in Int, NEW r \in 0 .. m - 1
    PROVE  (m * q + r) % m = r /\ (m * q + r) \div m = q
<1> DEFINE x == m * q + r
<1>0. x \in Int OBVIOUS
<1> HIDE DEF x
<1>1. x % m \in 0 .. m - 1 /\ x \div m \in Int /\ x = m * (x \div m) + (x % m) BY <1>0
<1>2. PICK p \in Int : p = x \div m BY <1>1
<1>3. PICK s \in 0 .. m - 1 : s = x % m BY <1>1
<1>4. m * q + r = m * p + s BY <1>1, <1>2, <1>3 DEF x
<1>5. p = q
  <2>1. m * (p - q) = r - s BY <1>4
  <2>2. SUFFICES ASSUME p # q PROVE FALSE OBVIOUS
  <2>3. p - q \in Int /\ p - q # 0 BY <2>2
  <2> QED BY <2>1, <2>3, MultiplesApart
<1> QED BY <1>4, <1>5, <1>2, <1>3 DEF x

\* Adding a multiple of the divisor changes the quotient only.
LEMMA DivModAdd ==
    ASSUME NEW m \in Nat \ {0}, NEW x \in Int, NEW n \in Int
    PROVE  (x + m * n) % m = x % m /\ (x + m * n) \div m = (x \div m) + n
<1>1. PICK q \in Int, r \in 0 .. m - 1 : x = m * q + r /\ r = x % m /\ q = x \div m
  <2>1. x % m \in 0 .. m - 1 /\ x \div m \in Int /\ x = m * (x \div m) + (x % m)
    BY DivModDef
  <2> QED BY <2>1
<1>2. x + m * n = m * (q + n) + r BY <1>1
<1>3. q + n \in Int OBVIOUS
<1>4. (m * (q + n) + r) % m = r /\ (m * (q + n) + r) \div m = q + n
  BY <1>3, DivModUnique
<1> QED BY <1>1, <1>2, <1>4

\* A number less than the divisor is its own remainder.
LEMMA ModSmall ==
    ASSUME NEW m \in Nat \ {0}, NEW r \in 0 .. m - 1
    PROVE  r % m = r /\ r \div m = 0
<1>1. (m * 0 + r) % m = r /\ (m * 0 + r) \div m = 0 BY DivModUnique
<1>2. m * 0 + r = r OBVIOUS
<1> QED BY <1>1, <1>2

\* In a sum, a term may be replaced by its remainder.
LEMMA ModSum ==
    ASSUME NEW m \in Nat \ {0}, NEW a \in Int, NEW b \in Int
    PROVE  ((a % m) + b) % m = (a + b) % m
<1>1. PICK q \in Int, r \in 0 .. m - 1 : a = m * q + r /\ r = a % m
  <2>1. a % m \in 0 .. m - 1 /\ a \div m \in Int /\ a = m * (a \div m) + (a % m)
    BY DivModDef
  <2> QED BY <2>1
<1>2. a + b = (r + b) + m * q BY <1>1
<1>3. ((r + b) + m * q) % m = (r + b) % m
  <2>1. r + b \in Int OBVIOUS
  <2> QED BY <2>1, DivModAdd
<1> QED BY <1>1, <1>2, <1>3

\* A smaller number has no larger quotient.
LEMMA DivMonotone ==
    ASSUME NEW m \in Nat \ {0}, NEW x \in Int, NEW y \in Int, x =< y
    PROVE  x \div m =< y \div m
<1>1. PICK q \in Int, r \in 0 .. m - 1 : x = m * q + r /\ q = x \div m
  <2>1. x % m \in 0 .. m - 1 /\ x \div m \in Int /\ x = m * (x \div m) + (x % m)
    BY DivModDef
  <2> QED BY <2>1
<1>2. PICK p \in Int, s \in 0 .. m - 1 : y = m * p + s /\ p = y \div m
  <2>1. y % m \in 0 .. m - 1 /\ y \div m \in Int /\ y = m * (y \div m) + (y % m)
    BY DivModDef
  <2> QED BY <2>1
<1>3. SUFFICES ASSUME p < q PROVE FALSE BY <1>1, <1>2
<1>4. q - p \in Int /\ q - p # 0 BY <1>3
<1>5. m * (q - p) =< s - r BY <1>1, <1>2
<1>6. m * (q - p) >= m \/ m * (q - p) =< 0 - m BY <1>4, MultiplesApart
<1>7. m * (q - p) > 0 BY <1>3
<1> QED BY <1>5, <1>6, <1>7

LEMMA LessRelation ==
    ASSUME NEW x \in Nat, NEW y \in Nat, y < x
    PROVE  <<y, x>> \in OpToRel(<, Nat)
BY DEF OpToRel

\* A set of numbers has a least element,
LEMMA LeastElement ==
    ASSUME NEW S, S \subseteq Nat, S # {}
    PROVE  \E x \in S : \A y \in S : x =< y
<1>1. \E x \in S : \A y \in S : ~(<<y, x>> \in OpToRel(<, Nat))
  BY NatLessThanWellFounded, WFMin, Zenon
<1>3. PICK x \in S : \A y \in S : ~(<<y, x>> \in OpToRel(<, Nat)) BY <1>1
<1>4. ASSUME NEW y \in S PROVE x =< y
  <2>1. x \in Nat /\ y \in Nat OBVIOUS
  <2>2. y < x => <<y, x>> \in OpToRel(<, Nat) BY <2>1, LessRelation
  <2>3. ~(y < x) BY <2>2, <1>3, Zenon
  <2> QED BY <2>1, <2>3
<1> QED BY <1>4

\* and a greatest one, if it has a bound.
LEMMA GreatestElement ==
    ASSUME NEW n \in Nat, NEW S, S \subseteq 0 .. n, S # {}
    PROVE  \E x \in S : \A y \in S : y =< x
<1> DEFINE T == {n - x : x \in S}
<1>1. T \subseteq Nat /\ T # {}
  <2>1. \A x \in S : x \in 0 .. n OBVIOUS
  <2>2. \A x \in S : n - x \in Nat BY <2>1
  <2> QED BY <2>2
<1> HIDE DEF T
<1>2. PICK t \in T : \A u \in T : t =< u BY <1>1, LeastElement
<1>3. PICK x \in S : t = n - x BY <1>2 DEF T
<1>4. \A y \in S : n - y \in T BY DEF T
<1>5. \A y \in S : n - x =< n - y BY <1>2, <1>3, <1>4
<1>6. \A y \in S : y \in Int BY SMT
<1> QED BY <1>3, <1>5, <1>6

\* Multiplication by a positive number keeps the order.
LEMMA MulMonotone ==
    ASSUME NEW m \in Nat \ {0}, NEW x \in Int, NEW y \in Int
    PROVE  /\ x =< y <=> x * m =< y * m
           /\ x < y <=> x * m < y * m
           /\ x * m \in Int /\ y * m \in Int
<1>1. x * m \in Int /\ y * m \in Int OBVIOUS
<1>2. CASE x = y BY <1>1, <1>2
<1>3. CASE x # y
  <2>1. CASE x < y
    <3>1. PICK e \in Nat : y = x + e /\ e > 0
      <4>1. y - x \in Nat /\ y = x + (y - x) /\ y - x > 0 BY <2>1
      <4> QED BY <4>1
    <3>2. y * m = x * m + e * m /\ e * m > 0 BY <3>1
    <3> QED BY <1>1, <2>1, <3>2
  <2>2. CASE y < x
    <3>1. PICK e \in Nat : x = y + e /\ e > 0
      <4>1. x - y \in Nat /\ x = y + (x - y) /\ x - y > 0 BY <2>2
      <4> QED BY <4>1
    <3>2. x * m = y * m + e * m /\ e * m > 0 BY <3>1
    <3> QED BY <1>1, <2>2, <3>2
  <2> QED BY <1>3, <2>1, <2>2
<1> QED BY <1>2, <1>3
=============================================================================
