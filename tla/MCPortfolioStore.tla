-------------------------- MODULE MCPortfolioStore --------------------------
(* PortfolioStore on small instances.                                       *)
EXTENDS PortfolioStore

CONSTANTS phone, tablet, bitcoin, ether

MCCoin == {bitcoin, ether}
OneCoin == {bitcoin}
One == {1}
=============================================================================
