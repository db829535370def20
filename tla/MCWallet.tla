------------------------------ MODULE MCWallet ------------------------------
(* Model checking of Wallet: the goroutines are alike.                      *)
EXTENDS Wallet, TLC

Symmetry == Permutations(Requests)
=============================================================================
