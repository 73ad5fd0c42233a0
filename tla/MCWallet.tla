------------------------------ MODULE MCWallet ------------------------------
(***************************************************************************)
(* Small instances of Wallet for TLC.                                      *)
(***************************************************************************)
EXTENDS WalletInvariant, TLC

CONSTANTS c1, c2, w1, w2, ann, bob

Symmetry == Permutations(Clients) \cup Permutations(Crons)
=============================================================================
