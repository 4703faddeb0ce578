------------------------------- MODULE MCTickle -------------------------------
(* Values and symmetry for model-checking Tickle.                          *)
EXTENDS Tickle, TLC

CONSTANTS w1, w2, w3, a, b, c

Perms3 == Permutations({w1, w2, w3}) \cup Permutations({a, b, c})
=============================================================================
