------------------------------ MODULE Counting ------------------------------
(***************************************************************************)
(* What FiniteSetTheorems says of the number of elements of a finite set,  *)
(* as far as the proofs use it, as one formula.  A lemma that counts       *)
(* assumes CountFacts; a proof module proves it from the library once,     *)
(* before the theorems that rest on such lemmas.                           *)
(***************************************************************************)
EXTENDS Integers, FiniteSets

CountsFew == IsFiniteSet({}) /\ Cardinality({}) = 0 /\ \A x : IsFiniteSet({x}) /\ Cardinality({x}) = 1
CountsType == \A S : IsFiniteSet(S) => Cardinality(S) \in Nat /\ (Cardinality(S) = 0 <=> S = {})
CountsAdd ==
  \A S, x : IsFiniteSet(S) =>
    /\ IsFiniteSet(S \cup {x})
    /\ Cardinality(S \cup {x}) = IF x \in S THEN Cardinality(S) ELSE Cardinality(S) + 1
CountsRemove ==
  \A S, x : IsFiniteSet(S) =>
    /\ IsFiniteSet(S \ {x})
    /\ Cardinality(S \ {x}) = IF x \in S THEN Cardinality(S) - 1 ELSE Cardinality(S)
CountsPart ==
  \A S, T : IsFiniteSet(S) /\ T \subseteq S =>
    /\ IsFiniteSet(T) /\ Cardinality(T) <= Cardinality(S)
    /\ Cardinality(S) = Cardinality(T) => S = T
CountFacts == CountsFew /\ CountsType /\ CountsAdd /\ CountsRemove /\ CountsPart
=============================================================================
