-------------------------------- MODULE Ordenes --------------------------------
(***************************************************************************)
(* Finite ordered sets: the place each element has, and the greatest of a  *)
(* set of numbers.  The registries of Innovacion and the vectors of Epoca  *)
(* are filled in such an order.                                            *)
(***************************************************************************)
EXTENDS Integers, FiniteSets, FiniteSetTheorems, FunctionTheorems, WellFoundedInduction, TLAPS

OrdenTotal(R, S) ==
    /\ \A p \in S : <<p, p>> \notin R
    /\ \A p, q, r \in S : <<p, q>> \in R /\ <<q, r>> \in R => <<p, r>> \in R
    /\ \A p, q \in S : p = q \/ <<p, q>> \in R \/ <<q, p>> \in R

\* The elements before one of a finite ordered set are fewer than the set, and
\* fewer than those before a later one.
LEMMA Rangos ==
    ASSUME NEW S, IsFiniteSet(S), NEW R, OrdenTotal(R, S)
    PROVE  /\ \A p \in S : Cardinality({q \in S : <<q, p>> \in R}) \in 0 .. Cardinality(S) - 1
           /\ \A p, r \in S : Cardinality({q \in S : <<q, p>> \in R})
                                = Cardinality({q \in S : <<q, r>> \in R}) => p = r
<1> DEFINE antes(p) == {q \in S : <<q, p>> \in R}
<1>1. ASSUME NEW p \in S
      PROVE  /\ IsFiniteSet(antes(p)) /\ Cardinality(antes(p)) \in Nat
             /\ Cardinality(antes(p)) < Cardinality(S)
  <2>1. antes(p) \in SUBSET S /\ antes(p) # S
    BY DEF OrdenTotal
  <2>2. Cardinality(S) \in Nat
    BY FS_CardinalityType
  <2> HIDE DEF antes
  <2>3. IsFiniteSet(antes(p)) /\ Cardinality(antes(p)) <= Cardinality(S)
          /\ Cardinality(antes(p)) # Cardinality(S)
    BY <2>1, FS_Subset
  <2>4. Cardinality(antes(p)) \in Nat
    BY <2>3, FS_CardinalityType
  <2> QED BY <2>2, <2>3, <2>4
<1>2. ASSUME NEW p \in S, NEW r \in S, <<p, r>> \in R
      PROVE  Cardinality(antes(p)) # Cardinality(antes(r))
  <2>1. antes(p) \in SUBSET antes(r) /\ antes(p) # antes(r)
    <3>1. p \in antes(r) /\ p \notin antes(p)
      BY <1>2 DEF OrdenTotal
    <3>2. \A q \in antes(p) : q \in antes(r)
      BY <1>2 DEF OrdenTotal
    <3> HIDE DEF antes
    <3> QED BY <3>1, <3>2
  <2>2. IsFiniteSet(antes(r))
    BY <1>1
  <2> HIDE DEF antes
  <2> QED BY <2>1, <2>2, FS_Subset
<1>3. ASSUME NEW p \in S, NEW r \in S, Cardinality(antes(p)) = Cardinality(antes(r))
      PROVE  p = r
  <2>1. p = r \/ <<p, r>> \in R \/ <<r, p>> \in R
    BY DEF OrdenTotal
  <2> HIDE DEF antes
  <2> QED BY <1>2, <1>3, <2>1
<1>4. Cardinality(S) \in Nat
  BY FS_CardinalityType
<1> HIDE DEF antes
<1>5. /\ \A p \in S : Cardinality(antes(p)) \in 0 .. Cardinality(S) - 1
      /\ \A p, r \in S : Cardinality(antes(p)) = Cardinality(antes(r)) => p = r
  BY <1>1, <1>3, <1>4
<1> QED BY <1>5 DEF antes

\* Every place is taken by some element.
LEMMA RangosTodos ==
    ASSUME NEW S, IsFiniteSet(S), NEW R, OrdenTotal(R, S)
    PROVE  \A k \in 0 .. Cardinality(S) - 1 :
             \E p \in S : Cardinality({q \in S : <<q, p>> \in R}) = k
<1> DEFINE n == Cardinality(S)
           f == [p \in S |-> Cardinality({q \in S : <<q, p>> \in R})]
<1>1. n \in Nat
  BY FS_CardinalityType
<1>2. /\ \A p \in S : f[p] \in 0 .. n - 1
      /\ \A p, r \in S : f[p] = f[r] => p = r
  BY Rangos
<1>3. f \in [S -> 0 .. n - 1]
  BY <1>2
<1> HIDE DEF f, n
<1>4. f \in Injection(S, 0 .. n - 1)
  BY <1>2, <1>3 DEF Injection, IsInjective
<1>5. IsFiniteSet(0 .. n - 1) /\ Cardinality(0 .. n - 1) = n
  BY <1>1, FS_Interval
<1>6. f \in Surjection(S, 0 .. n - 1)
  BY <1>4, <1>5, FS_Injection DEF n
<1>7. \A k \in 0 .. n - 1 : \E p \in S : f[p] = k
  BY <1>6 DEF Surjection
<1> QED BY <1>7 DEF f, n

\* the same, the place of an element being a number of its own
Rango(p, S, R) == Cardinality({q \in S : <<q, p>> \in R})

LEMMA RangosPropios ==
    ASSUME NEW S, IsFiniteSet(S), NEW R, OrdenTotal(R, S)
    PROVE  /\ \A p \in S : Rango(p, S, R) \in 0 .. Cardinality(S) - 1
           /\ \A p, r \in S : Rango(p, S, R) = Rango(r, S, R) => p = r
<1>1. /\ \A p \in S : Cardinality({q \in S : <<q, p>> \in R}) \in 0 .. Cardinality(S) - 1
      /\ \A p, r \in S : Cardinality({q \in S : <<q, p>> \in R})
                           = Cardinality({q \in S : <<q, r>> \in R}) => p = r
  BY Rangos
<1> QED BY <1>1 DEF Rango

\* every place is some element's
Tomados(S, R) == \A k \in 0 .. Cardinality(S) - 1 : \E p \in S : Rango(p, S, R) = k

LEMMA RangosTomados ==
    ASSUME NEW S, IsFiniteSet(S), NEW R, OrdenTotal(R, S)
    PROVE  Tomados(S, R)
<1>1. \A k \in 0 .. Cardinality(S) - 1 :
        \E p \in S : Cardinality({q \in S : <<q, p>> \in R}) = k
  BY RangosTodos
<1> QED BY <1>1 DEF Tomados, Rango

\* A set of numbers that has one, and none above n, has a greatest.
LEMMA Mayor ==
    ASSUME NEW n \in Nat, NEW S \in SUBSET (0 .. n), S # {}
    PROVE  \E m \in S : \A x \in S : x <= m
<1> DEFINE T == {n - x : x \in S}
           R == OpToRel(<, Nat)
<1>1. T \subseteq Nat /\ T # {}
  <2>1. \A x \in S : x \in 0 .. n
    OBVIOUS
  <2>2. \A x \in S : n - x \in Nat
    BY <2>1
  <2> QED BY <2>2
<1>2. \A x, y \in Nat : <<x, y>> \in R <=> x < y
  BY DEF OpToRel
<1>3. IsWellFoundedOn(R, Nat)
  BY NatLessThanWellFounded
<1> HIDE DEF R
<1>4. PICK t \in T : \A y \in T : ~(<<y, t>> \in R)
  <2> HIDE DEF T
  <2> QED BY <1>1, <1>3, WFMin
<1>5. PICK m \in S : t = n - m
  OBVIOUS
<1>6. ASSUME NEW x \in S PROVE x <= m
  <2>1. n - x \in T /\ n - x \in Nat /\ t \in Nat
    BY <1>1
  <2>2. ~(n - x < t)
    BY <2>1, <1>2, <1>4
  <2> QED BY <2>2, <1>5
<1> QED BY <1>6

\* A set of naturals that has one has a least.
LEMMA Primero ==
    ASSUME NEW S \in SUBSET Nat, S # {}
    PROVE  \E m \in S : \A x \in S : m <= x
<1> DEFINE R == OpToRel(<, Nat)
<1>1. \A x, y \in Nat : <<x, y>> \in R <=> x < y
  BY DEF OpToRel
<1>2. IsWellFoundedOn(R, Nat)
  BY NatLessThanWellFounded
<1> HIDE DEF R
<1>3. PICK m \in S : \A x \in S : ~(<<x, m>> \in R)
  BY <1>2, WFMin
<1>4. ASSUME NEW x \in S PROVE m <= x
  <2>1. x \in Nat /\ m \in Nat
    OBVIOUS
  <2>2. ~(x < m)
    BY <2>1, <1>1, <1>3
  <2> QED BY <2>1, <2>2
<1> QED BY <1>4

=============================================================================
