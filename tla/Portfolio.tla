------------------------------ MODULE Portfolio ------------------------------
(***************************************************************************)
(* What the portfolio of an account promises to its user: adds and deletes  *)
(* are requested, and each request either takes effect, at one moment and   *)
(* on everything the account then holds, or has no effect at all.           *)
(***************************************************************************)
EXTENDS Integers, Sequences

CONSTANTS
    Client,
    Coin,
    Lot   \* what can be added: a coin, a quantity and its cost

VARIABLES
    holdings,  \* holdings[k]: the quantity of coin k and what it cost
    requests   \* requests[c]: the requests of client c not yet decided

state == <<holdings, requests>>

Nothing == [qty |-> 0, cost |-> 0]
Request == [kind: {"add"}, lot: Lot] \cup [kind: {"delete"}, coin: Coin]

Init ==
    /\ holdings = [k \in Coin |-> Nothing]
    /\ requests = [c \in Client |-> <<>>]

Ask(c) ==
    /\ \E r \in Request : requests' = [requests EXCEPT ![c] = Append(@, r)]
    /\ UNCHANGED holdings

Decide(c) ==
    /\ requests[c] # <<>>
    /\ requests' = [requests EXCEPT ![c] = Tail(@)]

Buy(c) ==
    LET lot == Head(requests[c]).lot
    IN  /\ Decide(c)
        /\ Head(requests[c]).kind = "add"
        /\ holdings' = [holdings EXCEPT ![lot.id] =
                           [qty |-> @.qty + lot.qty, cost |-> @.cost + lot.cost]]

Sell(c) ==
    /\ Decide(c)
    /\ Head(requests[c]).kind = "delete"
    /\ holdings' = [holdings EXCEPT ![Head(requests[c]).coin] = Nothing]

\* The portfolio could not be read.
Fail(c) == Decide(c) /\ UNCHANGED holdings

\* The client stopped.
Quit(c) ==
    /\ requests' = [requests EXCEPT ![c] = <<>>]
    /\ UNCHANGED holdings

Next == \E c \in Client : Ask(c) \/ Buy(c) \/ Sell(c) \/ Fail(c) \/ Quit(c)

Spec == Init /\ [][Next]_state

=============================================================================
