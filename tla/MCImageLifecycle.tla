-------------------------- MODULE MCImageLifecycle --------------------------
(* Small instances of ImageLifecycle: a chain c -> b -> a of dynamic images. *)
EXTENDS ImageLifecycleProofs, TLC

CONSTANTS a, b, c, v1, v2, v3, t1, t2

Chain == [l \in Lib |-> IF l = b THEN {a} ELSE IF l = c THEN {b} ELSE {}]

Symmetry == Permutations(Var) \cup Permutations(Thread)
=============================================================================
