---------------------------- MODULE MCValuation ----------------------------
(* Prices around the places where cutString rounds, once or twice, or goes too *)
(* far, in tenths of a thousandth: 0.0046 is rounded to 0.005 and then to 0.01. *)
(* Half a piece makes a row that is no number of hundredths.                  *)
EXTENDS Valuation

MCPrices ==
    {[size |-> n, whole |-> FALSE] :
        n \in {45, 46, 1100, 9960, 10054, 99946, 100000}}
        \union {[size |-> n, whole |-> TRUE] : n \in {50000, 100000}}

MCHoldings ==
    {[quantity |-> 5, cost |-> 500], [quantity |-> 10, cost |-> 50000],
     [quantity |-> 40, cost |-> 200]}
=============================================================================
