------------------------------ MODULE MCTasks -------------------------------
(* Model checking of Tasks: requests and executions are interchangeable.    *)
EXTENDS Tasks, TLC

Symmetry == Permutations(Handlers) \union Permutations(Workers)
=============================================================================
