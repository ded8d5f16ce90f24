------------------------------ MODULE MCService ------------------------------
(* Service.tla for TLC: the requests are model values.                     *)
EXTENDS Service

CONSTANTS p, q, d

=============================================================================
