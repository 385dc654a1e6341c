--------------------------- MODULE PortfolioStore ---------------------------
(***************************************************************************)
(* FirebaseManager and the Firestore client under it, for one account.     *)
(*                                                                         *)
(* The portfolio is ONE document, users/<uid>, whose field "coins" is the   *)
(* whole list.  add and delete read it (getDocument), compute the new list  *)
(* in the completion, and overwrite the document (setData): nothing is      *)
(* transactional.  A client is one installation of the app that is signed   *)
(* in to the account; its calls are answered in the order they were made,   *)
(* and a completion runs on the main queue some time after its snapshot was *)
(* taken.  setData appends to the persisted queue of mutations of the       *)
(* client, is visible to that client at once, and reaches the server later. *)
(*                                                                         *)
(* Data.  Prices and quantities are decimal strings in the code.  Here a    *)
(* quantity is a positive integer and an entry keeps its cost, quantity     *)
(* times price, so the weighted mean price of add is a sum of costs and     *)
(* nothing is rounded.                                                      *)
(***************************************************************************)
EXTENDS Integers, Sequences, FiniteSets, SequencesExt

CONSTANTS
    Client,       \* installations signed in to the account
    Coin,         \* coin identifiers
    NoCoin,       \* the coin of a call that names none
    Quantity,     \* the quantities a user may enter
    MinPrice,     \* lowest price accepted (all-time low of the coin)
    MaxPrice,     \* highest price accepted (all-time high of the coin)
    MaxCalls,     \* bound: calls made in a behaviour
    MaxInFlight,  \* bound: calls a client leaves outstanding
    MayReject     \* whether the server may refuse a write

ASSUME CoinAssumption == NoCoin \notin Coin
ASSUME QuantityAssumption == Quantity \subseteq Nat \ {0}
ASSUME PriceAssumption == MinPrice \in Nat \ {0} /\ MaxPrice \in Nat
ASSUME BoundAssumption == MaxCalls \in Nat /\ MaxInFlight \in Nat
ASSUME RejectAssumption == MayReject \in BOOLEAN

VARIABLES
    account,   \* whether the account exists
    remote,    \* the document on the server
    cache,     \* cache[c]: the document c last had from the server
    pending,   \* pending[c]: the writes of c the server has not answered
    inflight,  \* inflight[c]: the calls of c whose completion has not run
    shown,     \* shown[c]: the coins the screens of c were last given
    calls,     \* history: number of calls made
    bought     \* history: bought[k], quantity of k in the adds that ran

vars == <<account, remote, cache, pending, inflight, shown, calls, bought>>

-----------------------------------------------------------------------------
(* Entries, documents, calls and writes.                                    *)

Entry == [id: Coin, qty: Nat, cost: Nat]
Doc == [exists: BOOLEAN, coins: Seq(Entry)]

NoDoc == [exists |-> FALSE, coins |-> <<>>]
Document(coins) == [exists |-> TRUE, coins |-> coins]

NoEntry == [id |-> NoCoin, qty |-> 0, cost |-> 0]

\* The lots a user can add: CoinAdd accepts a positive quantity at a price
\* between the limits of the coin.
Lot == {[id |-> k, qty |-> q, cost |-> q * p] :
            k \in Coin, q \in Quantity, p \in MinPrice..MaxPrice}

\* "sent": no snapshot yet; "answered": completion queued with a snapshot;
\* "failed": completion queued with an error (nil portfolio).
State == {"sent", "answered", "failed"}

Call ==
    [kind: {"create", "get"}, lot: {NoEntry}, state: State, coins: Seq(Entry)]
        \cup [kind: {"add"}, lot: Lot, state: State, coins: Seq(Entry)]
        \cup [kind: {"delete"}, lot: Entry, state: State, coins: Seq(Entry)]

\* A write is the list it stores; base (the list it was computed from) and
\* sold (the coins its delete removed) are history.
Write == [coins: Seq(Entry), base: Seq(Entry), sold: SUBSET Coin]

NewCall(kind, lot) ==
    [kind |-> kind, lot |-> lot, state |-> "sent", coins |-> <<>>]

Told(call, state, coins) ==
    [kind |-> call.kind, lot |-> call.lot, state |-> state, coins |-> coins]

-----------------------------------------------------------------------------
(* What add and delete compute.                                             *)

Held(coins, k) == \E i \in 1..Len(coins) : coins[i].id = k

\* The first entry of k: both loops stop there.
Position(coins, k) ==
    CHOOSE i \in 1..Len(coins) :
        coins[i].id = k /\ \A j \in 1..(i - 1) : coins[j].id # k

\* Variants of Merged with a defect: the quantity subtracted, the quantity of
\* the entry taken twice, the sum of the costs not divided by the quantity.
MergedNegative(entry, lot) ==
    [entry EXCEPT !.qty = @ - 2 * lot.qty, !.cost = @ + lot.cost]

MergedTwice(entry, lot) ==
    [entry EXCEPT !.qty = @ + @, !.cost = @ + lot.cost]

MergedUndivided(entry, lot) ==
    [entry EXCEPT !.qty = @ + lot.qty,
                  !.cost = (@ + lot.cost) * (entry.qty + lot.qty)]

\* Quantities add up, the price becomes the weighted mean.
Merged(entry, lot) ==
    [id |-> entry.id, qty |-> entry.qty + lot.qty, cost |-> entry.cost + lot.cost]

\* Variant with a defect: isCoinExist never set.
WithLotAlwaysNew(coins, lot) == Append(coins, lot)

WithLot(coins, lot) ==
    IF Held(coins, lot.id)
    THEN LET i == Position(coins, lot.id)
         IN  [coins EXCEPT ![i] = Merged(@, lot)]
    ELSE Append(coins, lot)

\* Variant with a defect: the last entry removed instead of the one found.
WithoutLast(coins, k) == Front(coins)

Without(coins, k) == RemoveAt(coins, Position(coins, k))

-----------------------------------------------------------------------------
(* The view of a client: its last unanswered write hides what it was told.  *)

\* Variant with a defect: the writes not yet sent are not laid over.
OverlayNothing(c, doc) == doc

Overlay(c, doc) ==
    IF pending[c] = <<>> THEN doc ELSE Document(Last(pending[c]).coins)

Visible(c) == Overlay(c, remote)

-----------------------------------------------------------------------------
Init ==
    /\ account = FALSE
    /\ remote = NoDoc
    /\ cache = [c \in Client |-> NoDoc]
    /\ pending = [c \in Client |-> <<>>]
    /\ inflight = [c \in Client |-> <<>>]
    /\ shown = [c \in Client |-> <<>>]
    /\ calls = 0
    /\ bought = [k \in Coin |-> 0]

-----------------------------------------------------------------------------
(* Calls.                                                                   *)

\* A call is put behind the calls the client already has outstanding.
Start(c, call) ==
    /\ calls < MaxCalls
    /\ Len(inflight[c]) < MaxInFlight
    /\ calls' = calls + 1
    /\ inflight' = [inflight EXCEPT ![c] = Append(@, call)]

\* Sign-up succeeded on the server; its completion will create the document.
CreateUser(c) ==
    /\ ~account
    /\ account' = TRUE
    /\ Start(c, Told(NewCall("create", NoEntry), "answered", <<>>))
    /\ UNCHANGED <<remote, cache, pending, shown, bought>>

\* The client shows the screens of the account.  The one that signs up gets
\* there in the completion that also creates the document.
SignedIn(c) ==
    /\ account
    /\ \A i \in 1..Len(inflight[c]) : inflight[c][i].kind # "create"

\* getPortfolio for a screen.
GetPortfolio(c) ==
    /\ SignedIn(c)
    /\ Start(c, NewCall("get", NoEntry))
    /\ UNCHANGED <<account, remote, cache, pending, shown, bought>>

\* add(coinForAdding:), called with a lot that passed the checks of CoinAdd.
Add(c, lot) ==
    /\ SignedIn(c)
    /\ Start(c, NewCall("add", lot))
    /\ UNCHANGED <<account, remote, cache, pending, shown, bought>>

\* Variant with a defect: the wallet keeps the entry it asked to delete.
DeleteKeepsRow(c, i) ==
    /\ SignedIn(c)
    /\ i \in 1..Len(shown[c])
    /\ Start(c, NewCall("delete", shown[c][i]))
    /\ UNCHANGED <<account, remote, cache, pending, shown, bought>>

\* delete(id:), called for an entry of the list the wallet holds, which
\* loses it before the call (deleteCoinFromPortfolio).
Delete(c, i) ==
    /\ SignedIn(c)
    /\ i \in 1..Len(shown[c])
    /\ Start(c, NewCall("delete", shown[c][i]))
    /\ shown' = [shown EXCEPT ![c] = RemoveAt(@, i)]
    /\ UNCHANGED <<account, remote, cache, pending, bought>>

-----------------------------------------------------------------------------
(* The answer to getDocument.  Listeners are called in the order they were  *)
(* added, so the oldest unanswered call of the client is the next.          *)

NextAsked(c, i) ==
    /\ i \in 1..Len(inflight[c])
    /\ inflight[c][i].state = "sent"
    /\ \A j \in 1..(i - 1) : inflight[c][j].state # "sent"

Answer(c, i, state, coins) ==
    inflight' = [inflight EXCEPT ![c][i] = Told(@, state, coins)]

\* The server answers: its document becomes the cached one, and the writes
\* of the client that it has not answered yet are laid over it.
AnswerOnline(c) ==
    \E i \in 1..Len(inflight[c]) :
        /\ NextAsked(c, i)
        /\ Answer(c, i, "answered", Visible(c).coins)
        /\ cache' = [cache EXCEPT ![c] = remote]
        /\ UNCHANGED <<account, remote, pending, shown, calls, bought>>

\* The server cannot be reached: the local view answers, when there is one.
AnswerFromCache(c) ==
    \E i \in 1..Len(inflight[c]) :
        /\ NextAsked(c, i)
        /\ Overlay(c, cache[c]).exists
        /\ Answer(c, i, "answered", Overlay(c, cache[c]).coins)
        /\ UNCHANGED <<account, remote, cache, pending, shown, calls, bought>>

\* Neither is there: an error, and getPortfolio completes with nil.
AnswerError(c) ==
    \E i \in 1..Len(inflight[c]) :
        /\ NextAsked(c, i)
        /\ ~Overlay(c, cache[c]).exists
        /\ Answer(c, i, "failed", <<>>)
        /\ UNCHANGED <<account, remote, cache, pending, shown, calls, bought>>

-----------------------------------------------------------------------------
(* Completions, on the main queue, in the order of the answers.             *)

Ready(c, kind) ==
    /\ inflight[c] # <<>>
    /\ Head(inflight[c]).kind = kind
    /\ Head(inflight[c]).state = "answered"

Finish(c) == inflight' = [inflight EXCEPT ![c] = Tail(@)]

\* setData: queued behind the earlier writes of the client.
SetData(c, coins, base, sold) ==
    pending' = [pending EXCEPT
                  ![c] = Append(@, [coins |-> coins, base |-> base, sold |-> sold])]

\* createUserDocumentAndCoinsArrayInDB: an empty list, nothing is read.
RunCreate(c) ==
    /\ Ready(c, "create")
    /\ Finish(c)
    /\ SetData(c, <<>>, <<>>, {})
    /\ UNCHANGED <<account, remote, cache, shown, calls, bought>>

\* The screens take the portfolio.
RunGet(c) ==
    /\ Ready(c, "get")
    /\ Finish(c)
    /\ shown' = [shown EXCEPT ![c] = Head(inflight[c]).coins]
    /\ UNCHANGED <<account, remote, cache, pending, calls, bought>>

RunAdd(c) ==
    LET call == Head(inflight[c])
    IN  /\ Ready(c, "add")
        /\ Finish(c)
        /\ SetData(c, WithLot(call.coins, call.lot), call.coins, {})
        /\ bought' = [bought EXCEPT ![call.lot.id] = @ + call.lot.qty]
        /\ UNCHANGED <<account, remote, cache, shown, calls>>

\* The loop finds the coin and stores the list without it.
RunDelete(c) ==
    LET call == Head(inflight[c])
    IN  /\ Ready(c, "delete")
        /\ Held(call.coins, call.lot.id)
        /\ Finish(c)
        /\ SetData(c, Without(call.coins, call.lot.id), call.coins, {call.lot.id})
        /\ UNCHANGED <<account, remote, cache, shown, calls, bought>>

\* The loop ends without a match: nothing is stored.
RunDeleteMiss(c) ==
    LET call == Head(inflight[c])
    IN  /\ Ready(c, "delete")
        /\ call.coins # <<>>
        /\ ~Held(call.coins, call.lot.id)
        /\ Finish(c)
        /\ UNCHANGED <<account, remote, cache, pending, shown, calls, bought>>

\* The process is gone: calls and screens with it.  The cache and the queue
\* of writes are on disk.
Stop(c) ==
    /\ inflight' = [inflight EXCEPT ![c] = <<>>]
    /\ shown' = [shown EXCEPT ![c] = <<>>]
    /\ UNCHANGED <<account, remote, cache, pending, calls, bought>>

\* 0...count - 1 is not a range when the list is empty: the program traps.
DeleteWillTrap(c) == Ready(c, "delete") /\ Head(inflight[c]).coins = <<>>

TrapDelete(c) == DeleteWillTrap(c) /\ Stop(c)

\* Variant with a defect: a nil portfolio never reaches the completion.
RunFailedNever(c) == FALSE

\* guard var portfolio = portfolio else {return}: the call has no effect.
RunFailed(c) ==
    /\ inflight[c] # <<>>
    /\ Head(inflight[c]).state = "failed"
    /\ Finish(c)
    /\ UNCHANGED <<account, remote, cache, pending, shown, calls, bought>>

\* The user or the system kills the app.
Kill(c) == Stop(c)

-----------------------------------------------------------------------------
(* The queue of writes.                                                     *)

Dequeue(c) == pending' = [pending EXCEPT ![c] = Tail(@)]

\* Variant with a defect: an acknowledged write stays in the queue.
UploadKeepsWrite(c) ==
    /\ pending[c] # <<>>
    /\ remote' = Document(Head(pending[c]).coins)
    /\ cache' = [cache EXCEPT ![c] = remote']
    /\ UNCHANGED <<account, pending, inflight, shown, calls, bought>>

\* The server takes the oldest write, whatever its document was by then.
Upload(c) ==
    /\ pending[c] # <<>>
    /\ remote' = Document(Head(pending[c]).coins)
    /\ cache' = [cache EXCEPT ![c] = remote']
    /\ Dequeue(c)
    /\ UNCHANGED <<account, inflight, shown, calls, bought>>

\* The server takes it, but the stream ends before its answer is read: the write
\* stays at the head of the queue and is sent again.
UploadUnanswered(c) ==
    /\ pending[c] # <<>>
    /\ remote' = Document(Head(pending[c]).coins)
    /\ UNCHANGED <<account, cache, pending, inflight, shown, calls, bought>>

\* The server refuses it for good: the client forgets it.
Reject(c) ==
    /\ MayReject
    /\ pending[c] # <<>>
    /\ Dequeue(c)
    /\ UNCHANGED <<account, remote, cache, inflight, shown, calls, bought>>

-----------------------------------------------------------------------------
Calls(c) ==
    \/ CreateUser(c)
    \/ GetPortfolio(c)
    \/ \E lot \in Lot : Add(c, lot)
    \/ \E i \in 1..Len(shown[c]) : Delete(c, i)

Answers(c) == AnswerOnline(c) \/ AnswerFromCache(c) \/ AnswerError(c)

Completions(c) ==
    \/ RunCreate(c) \/ RunGet(c) \/ RunAdd(c)
    \/ RunDelete(c) \/ RunDeleteMiss(c) \/ TrapDelete(c) \/ RunFailed(c)

Next ==
    \E c \in Client :
        Calls(c) \/ Answers(c) \/ Completions(c)
            \/ Upload(c) \/ UploadUnanswered(c) \/ Reject(c) \/ Kill(c)

Spec == Init /\ [][Next]_vars

\* A listener is raised once the client is connected or has given up trying,
\* the main queue runs what it is given, and the write stream of a client is
\* retried until the server has answered.  Nothing makes a user act, nor the
\* server refuse.
Fairness ==
    \A c \in Client :
        /\ WF_vars(Answers(c))
        /\ WF_vars(Completions(c))
        /\ WF_vars(Upload(c))

FairSpec == Spec /\ Fairness

-----------------------------------------------------------------------------
(* Properties.                                                              *)

TypeOK ==
    /\ account \in BOOLEAN
    /\ remote \in Doc
    /\ cache \in [Client -> Doc]
    /\ pending \in [Client -> Seq(Write)]
    /\ inflight \in [Client -> Seq(Call)]
    /\ shown \in [Client -> Seq(Entry)]
    /\ calls \in 0..MaxCalls
    /\ bought \in [Coin -> Nat]

\* Every list of coins there is, wherever it is kept.
CallLists ==
    UNION {{inflight[c][n].coins : n \in 1..Len(inflight[c])} : c \in Client}

WriteLists ==
    UNION {UNION {{pending[c][n].coins, pending[c][n].base} :
                      n \in 1..Len(pending[c])} : c \in Client}

Lists ==
    {remote.coins} \cup {cache[c].coins : c \in Client}
        \cup {shown[c] : c \in Client} \cup CallLists \cup WriteLists

\* No list holds a coin twice.  add and delete change the first entry only,
\* the wallet shows one row per coin: a second entry would be invisible.
NoCoinTwice(coins) ==
    \A i, j \in 1..Len(coins) : coins[i].id = coins[j].id => i = j

OneEntryPerCoin == \A coins \in Lists : NoCoinTwice(coins)

\* However often a coin was merged, on however many devices, its quantity is
\* positive (the divisor of the mean price) and its price is one a user
\* could have entered.
PricesHold(coins) ==
    \A i \in 1..Len(coins) :
        /\ coins[i].qty > 0
        /\ MinPrice * coins[i].qty <= coins[i].cost
        /\ coins[i].cost <= MaxPrice * coins[i].qty

MeanPriceInRange == \A coins \in Lists : PricesHold(coins)

\* A retry, a stale list or a write laid over itself never counts a lot
\* twice: no list holds more of a coin than the adds that ran brought.
WithinBought(coins) ==
    \A i \in 1..Len(coins) : coins[i].qty <= bought[coins[i].id]

NothingInvented == \A coins \in Lists : WithinBought(coins)

\* What a list holds of a coin.
Amount(coins, k) ==
    IF Held(coins, k) THEN coins[Position(coins, k)].qty ELSE 0

\* The server loses some of a coin only when the user deleted that coin, or
\* by a write computed from a list that another write has replaced since.
LossHasACause ==
    [][\A k \in Coin :
          Amount(remote'.coins, k) < Amount(remote.coins, k) =>
              \E c \in Client :
                  /\ pending[c] # <<>>
                  /\ \/ k \in Head(pending[c]).sold
                     \/ Head(pending[c]).base # remote.coins]_vars

\* A client that stays reachable answers every call and empties its queue of
\* writes: no completion waits for ever.
CallsEnd ==
    \A c \in Client : (inflight[c] # <<>>) ~> (inflight[c] = <<>>)

WritesLand ==
    \A c \in Client : (pending[c] # <<>>) ~> (pending[c] = <<>>)

\* One device that waits for each call before the next, with a server that
\* refuses nothing: a delete never finds the portfolio empty, which would
\* stop the program.
DeleteFindsCoins == \A c \in Client : ~DeleteWillTrap(c)

-----------------------------------------------------------------------------
(* The promise of the module Portfolio, for one device that waits for each  *)
(* call: a request is an add or a delete whose completion has not run, and  *)
(* what the account holds is what the device sees.                          *)

Changes(call) == call.kind \in {"add", "delete"}

AsRequest(call) ==
    IF call.kind = "add" THEN [kind |-> "add", lot |-> call.lot]
                         ELSE [kind |-> "delete", coin |-> call.lot.id]

\* A device that waits for each call has one at most.
Requests(c) ==
    IF inflight[c] # <<>> /\ Changes(Head(inflight[c]))
    THEN <<AsRequest(Head(inflight[c]))>>
    ELSE <<>>

HoldingIn(coins, k) ==
    IF Held(coins, k)
    THEN LET i == Position(coins, k) IN [qty |-> coins[i].qty, cost |-> coins[i].cost]
    ELSE [qty |-> 0, cost |-> 0]

Promise == INSTANCE Portfolio WITH
    holdings <- [k \in Coin |-> HoldingIn(Visible(CHOOSE c \in Client : TRUE).coins, k)],
    requests <- [c \in Client |-> Requests(c)]

\* Every add and every delete takes effect at most once, at one moment, in
\* the order of the calls, on all that the account then holds.
KeepsThePromise == Promise!Spec

=============================================================================
