----------------------------- MODULE MCCoinAdd -----------------------------
(* Limits that hold a value, or only zero and less, and limits that are crossed. *)
EXTENDS CoinAdd

MCLimits == {[atl |-> 1, ath |-> 2], [atl |-> 0, ath |-> 1], [atl |-> 3, ath |-> 1]}
=============================================================================
