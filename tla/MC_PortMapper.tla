---------------------------- MODULE MC_PortMapper ----------------------------
EXTENDS PortMapper, TLC

Sym == Permutations(Services)

(* Nothing is claimed once an operator command freed a port, and one lapse *)
(* is enough to leave every other claim's scope.                           *)
Bound == Cardinality(lapse) <= 1 /\ ~OperatorWrote

=============================================================================
