--------------------------- MODULE MCCaseAggregate ---------------------------
(* A small case for TLC. *)
EXTENDS CaseAggregate, TLC

DecisionSymmetry == {p @@ q : p \in Permutations(Recommendations), q \in Permutations(Dispositions)}
=============================================================================
