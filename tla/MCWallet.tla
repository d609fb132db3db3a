------------------------------ MODULE MCWallet ------------------------------
(* A small instance of Wallet for TLC. *)
EXTENDS WalletProperties, TLC

CONSTANTS h1, h2, c1

MCQuotas == {-1, 1}
MCEdits == {-1}
HandlerSymmetry == Permutations(Handlers)
=============================================================================
