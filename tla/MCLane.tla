------------------------------- MODULE MCLane -------------------------------
(* Lane.tla for TLC.  Runs are interchangeable.                            *)
EXTENDS Lane, TLC

CONSTANTS a, b, c, d

Symmetry == Permutations(Run)

=============================================================================
