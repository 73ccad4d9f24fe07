------------------------------ MODULE Extremes ------------------------------
(***************************************************************************)
(* The first and the last of a set of numbers, for the choices of first    *)
(* and last entries that the code makes in lists.                          *)
(***************************************************************************)
EXTENDS Integers, WellFoundedInduction, TLAPS

\* A non-empty set of naturals has a least element.
LEMMA LeastNat ==
  ASSUME NEW T, T \subseteq Nat, T # {}
  PROVE  \E x \in T : \A y \in T : x <= y
<1> DEFINE R == OpToRel(<, Nat)
<1>1. IsWellFoundedOn(R, Nat)
  BY NatLessThanWellFounded DEF R
<1>2. R = {ss \in Nat \X Nat : ss[1] < ss[2]}
  BY DEF OpToRel
<1> HIDE DEF R
<1>3. \E x \in T : \A y \in T : <<y, x>> \notin R
  BY <1>1, WFMin
<1>4. \A x, y \in Nat : <<y, x>> \in R <=> y < x
  BY <1>2
<1>5. \A x, y \in Nat : ~ (y < x) => x <= y
  OBVIOUS
<1>6. QED
  BY <1>3, <1>4, <1>5

\* A set of numbers up to a bound has a greatest element.
LEMMA GreatestBelow ==
  ASSUME NEW L \in Nat, NEW T, T \subseteq 1..L, T # {}
  PROVE  \E x \in T : \A y \in T : y <= x
<1> DEFINE U == {d \in 0..L : L - d \in T}
<1>1. U \subseteq Nat /\ U # {}
  <2>1. PICK x \in T : TRUE
    OBVIOUS
  <2>2. x \in 1..L /\ L - x \in 0..L /\ L - (L - x) = x
    OBVIOUS
  <2>3. L - x \in U
    BY <2>2
  <2>4. U \subseteq Nat
    OBVIOUS
  <2>5. QED
    BY <2>3, <2>4
<1>2. PICK u \in U : \A v \in U : u <= v
  BY <1>1, LeastNat
<1>3. L - u \in T
  OBVIOUS
<1>4. \A y \in T : y <= L - u
  <2>1. SUFFICES ASSUME NEW y \in T PROVE y <= L - u
    OBVIOUS
  <2>2. y \in 1..L /\ L - y \in 0..L /\ L - (L - y) = y
    OBVIOUS
  <2>3. u <= L - y
    BY <1>2, <2>2
  <2>4. u \in 0..L
    OBVIOUS
  <2>5. QED
    BY <2>2, <2>3, <2>4
<1>5. QED
  BY <1>3, <1>4
=============================================================================
