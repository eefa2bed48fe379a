------------------------------ MODULE LeastNumber ------------------------------
(***************************************************************************)
(* A set of numbers that is not empty has a least one: what the models'    *)
(* CHOOSE for the first, the oldest or the newest of a set rests on.       *)
(***************************************************************************)
EXTENDS FiniteSetTheorems, TLAPS

\* The sets 0..x for x in S, up to some n in S, are ordered by inclusion; a least of
\* them is that of the least number.
LEMMA Least ==
    ASSUME NEW S, S \subseteq Nat, S # {}
    PROVE  \E x \in S : \A y \in S : x <= y
<1>1. PICK n \in S : TRUE
  OBVIOUS
<1> DEFINE W == {0..x : x \in {z \in S : z <= n}}
<1>2. IsWellFoundedOn(StrictSubsetOrdering(0..n), SUBSET (0..n))
  <2>1. IsFiniteSet(0..n)
    BY <1>1, FS_Interval
  <2> QED BY <2>1, FS_StrictSubsetOrderingWellFounded, FS_FiniteSubsetsOfFinite, Zenon
<1>3. W \subseteq SUBSET (0..n) /\ W # {}
  BY <1>1
<1>4. PICK w \in W : \A v \in W : <<v, w>> \notin StrictSubsetOrdering(0..n)
  <2> HIDE DEF W
  <2> QED BY <1>2, <1>3, WFMin, Zenon
<1>5. PICK x \in S : x <= n /\ w = 0..x
  BY <1>4
<1>6. ASSUME NEW y \in S, y < x PROVE FALSE
  <2>1. 0..y \in W
    BY <1>1, <1>5, <1>6
  <2>2. 0..y \subseteq 0..x /\ x \in 0..x /\ x \notin 0..y
    BY <1>5, <1>6
  <2> QED BY <1>3, <1>4, <1>5, <2>1, <2>2 DEF StrictSubsetOrdering
<1> QED BY <1>5, <1>6
================================================================================
