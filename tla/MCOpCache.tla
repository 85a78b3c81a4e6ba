----------------------------- MODULE MCOpCache -----------------------------
(* Model checking of OpCache. *)
EXTENDS OpCache

\* No definition names an array.
ArraySymmetry == Permutations(Array)
=============================================================================
