----------------------------- MODULE MCRecovery -----------------------------
EXTENDS Recovery, TLC

\* Goroutines are interchangeable.
Symmetry == Permutations(Workers) \union Permutations(Pollers)

=============================================================================
