----------------------------- MODULE MCSessions -----------------------------
(* Model checking of Sessions: requests are interchangeable.               *)
EXTENDS Sessions, TLC

Symmetry == Permutations(Requests)
=============================================================================
