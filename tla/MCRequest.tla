------------------------------ MODULE MCRequest ------------------------------
(* Values and symmetry for model-checking Request.                         *)
EXTENDS Request, TLC

CONSTANTS r1, r2

Perms == Permutations({r1, r2})
=============================================================================
