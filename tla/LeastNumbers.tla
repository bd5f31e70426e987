----------------------------- MODULE LeastNumbers -----------------------------
(***************************************************************************)
(* What stands in for induction in the proofs: of the numbers that a claim *)
(* fails of, one is the least.                                             *)
(***************************************************************************)
EXTENDS Naturals, FiniteSetTheorems, WellFoundedInduction, TLAPS

\* Strict inclusion is well-founded on finite sets, and 0 .. n orders as n does.
LEMMA LeastNumber ==
    ASSUME NEW T, T \subseteq Nat, T # {}
    PROVE  \E m \in T : \A n \in T : m <= n
<1> DEFINE Downs == {0 .. n : n \in T}
<1>1. Downs \subseteq FiniteSubsetsOf(Nat) /\ Downs # {}
  <2>1. \A n \in T : IsFiniteSet(0 .. n) /\ 0 .. n \subseteq Nat
    BY FS_Interval
  <2>2. Downs \subseteq FiniteSubsetsOf(Nat)
    BY <2>1, Zenon DEF FiniteSubsetsOf
  <2>3. \A n \in T : 0 .. n \in Downs
    OBVIOUS
  <2>4. Downs # {}
    <3> HIDE DEF Downs
    <3> QED BY <2>3
  <2> QED BY <2>2, <2>4
<1>2. PICK D \in Downs : \A E \in Downs : <<E, D>> \notin StrictSubsetOrdering(Nat)
  <2> HIDE DEF Downs
  <2> QED BY <1>1, FS_StrictSubsetOrderingWellFounded, WFMin
<1>3. PICK m \in T : D = 0 .. m
  OBVIOUS
<1>4. ASSUME NEW n \in T, ~ (m <= n) PROVE FALSE
  <2>1. 0 .. n \in Downs /\ 0 .. n \subseteq 0 .. m /\ 0 .. n # 0 .. m
    BY <1>4
  <2> QED BY <1>1, <1>2, <1>3, <2>1 DEF StrictSubsetOrdering, FiniteSubsetsOf
<1> QED BY <1>4
=============================================================================
