------------------------------ MODULE MCEngine ------------------------------
(* Engine.tla for TLC: the calls of execute() are interchangeable.         *)
EXTENDS Engine, TLC

Symmetry == Permutations(Worker)

=============================================================================
