---------------------------- MODULE MCWalletEnrich -----------------------------
(* WalletEnrich as TLC runs it: all constants are given in the configurations. *)
EXTENDS WalletEnrich

===============================================================================
