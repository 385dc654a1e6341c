------------------------------- MODULE MCWallet -------------------------------
(* Wallet for TLC: two coins, bitcoin the first of the market. *)
EXTENDS Wallet

CONSTANTS bitcoin, ether

MCTwoCoins == <<bitcoin, ether>>

=============================================================================
