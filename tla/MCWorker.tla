------------------------------- MODULE MCWorker -------------------------------
(* Values and symmetry for model-checking Worker.                          *)
EXTENDS Worker, TLC

CONSTANTS p0, p1, p2, t0, t1

Perms == Permutations({p1, p2})
=============================================================================
