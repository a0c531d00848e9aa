------------------------------ MODULE MCRouting ------------------------------
(* Routing for TLC. *)
EXTENDS Routing, TLC

CONSTANTS a, b

(* One model group with two deployments. *)
MCGroup == <<<<a, b>>>>

(* A model group and a smaller one to degrade to. *)
MCDegrade == <<<<a>>, <<b>>>>

Symmetry == Permutations(Calls)
=============================================================================
