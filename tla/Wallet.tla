-------------------------------- MODULE Wallet --------------------------------
(***************************************************************************)
(* The wallet screen: WalletViewPresenter, its table, the price requests of *)
(* APICaller and the calls it makes on the portfolio store.                 *)
(*                                                                         *)
(* Three lists stand behind the rows: data, the coins of the portfolio in   *)
(* the order they were bought; viewData, the priced coins of the last       *)
(* answer in the order of the market; and viewCellData, the rows, computed  *)
(* from both.  data changes on the main thread and asks for prices; the     *)
(* delegate queue of URLSession takes the answers, one at a time, and reads *)
(* data again for each coin while it makes the rows.                        *)
(*                                                                         *)
(* A call on the store is a reading, and a completion that runs later on    *)
(* the main thread and overwrites the account with what it makes of that    *)
(* reading.  With two calls outstanding the account may have changed        *)
(* between the two.  What is read is what this device sees (PortfolioStore: *)
(* the document with its own writes laid over), kept here as one list.      *)
(*                                                                         *)
(* Data.  A coin stands for its entry; quantities, prices and images are    *)
(* left out.  The market's order is that of Market.                         *)
(***************************************************************************)
EXTENDS Integers, Sequences, SequencesExt

CONSTANTS
    Market,      \* the coins, in the order in which the service lists them
    MaxActs,     \* bound: acts of the user
    MaxCalls,    \* bound: calls on the store outstanding
    MaxPrices,   \* bound: price requests outstanding
    MayFail      \* whether the store and the service may fail

Coin == ToSet(Market)

ASSUME MarketAssumption == Market \in Seq(Coin) /\ Market # <<>> /\ IsInjective(Market)
ASSUME BoundAssumption == /\ MaxActs \in Nat /\ MaxCalls \in Nat
                          /\ MaxPrices \in Nat
ASSUME FailureAssumption == MayFail \in BOOLEAN

VARIABLES
    portfolio,     \* the coins of the account
    calls,         \* the calls on the store that have read nothing yet
    answers,       \* those that have, and what: their completions have not run
    data,          \* the coins of the portfolio, as the screen knows them
    prices,        \* the price requests not yet answered: the coins of each
    viewData,      \* the coins of the last answer
    viewCellData,  \* the rows
    background,    \* what the delegate queue has yet to do of an answer
    rows,          \* the rows the table counts on
    reload,        \* a reload of the table is queued on the main thread
    refreshing,    \* the refresh control spins
    acts,          \* acts of the user so far: see MaxActs
    lost,          \* history: an answer failed, or came without some coin, since
                   \* data was read from the store with no answer under way
    behind,        \* history: data was not read from the store since it changed,
                   \* or a completion used a reading that was no longer true
    failed         \* history: a reading failed while the refresh control spun

vars == <<portfolio, calls, answers, data, prices, viewData, viewCellData, background,
          rows, reload, refreshing, acts, lost, behind, failed>>

store == <<portfolio, calls, answers>>
lists == <<data, viewData, viewCellData>>
table == <<rows, reload, refreshing>>
history == <<acts, lost, behind, failed>>

-----------------------------------------------------------------------------
Call == [kind: {"get"}] \cup [kind: {"add", "delete"}, coin: Coin]

Get == [kind |-> "get"]
Add(k) == [kind |-> "add", coin |-> k]
Delete(k) == [kind |-> "delete", coin |-> k]

\* The coins that a call found, if it could read at all.
AnswerTo == [call: Call, read: BOOLEAN, coins: Seq(Coin)]

Found(call, coins) == [call |-> call, read |-> TRUE, coins |-> coins]
Unread(call) == [call |-> call, read |-> FALSE, coins |-> <<>>]

\* The calls outstanding, oldest first.
Outstanding == [n \in DOMAIN answers |-> answers[n].call] \o calls

\* What the delegate queue does of an answer: it makes a row for each coin left,
\* then it sets the rows and sums them up.
Idle == [step |-> "idle", left |-> <<>>, made |-> <<>>]
Making(left, made) == [step |-> "making", left |-> left, made |-> made]
Summing == [step |-> "summing", left |-> <<>>, made |-> <<>>]

\* Coins in the order in which the service lists them.
InOrder(coins) ==
    \A i, j \in DOMAIN coins :
        i < j => \E m, n \in DOMAIN Market :
                     m < n /\ Market[m] = coins[i] /\ Market[n] = coins[j]

\* The service lists the coins asked for in its own order; asked for none, it
\* lists all of them or none.
Listed(ids) ==
    {coins \in SeqOf(Coin, Len(Market)) : ToSet(coins) = ToSet(ids) /\ InOrder(coins)}

Listings(ids) == IF ids = <<>> THEN {Market, <<>>} ELSE Listed(ids)

\* The list without a coin, of which it has one entry at most.
Without(coins, k) ==
    IF Contains(coins, k)
    THEN RemoveAt(coins, CHOOSE i \in 1..Len(coins) : coins[i] = k)
    ELSE coins

-----------------------------------------------------------------------------
Init ==
    /\ portfolio \in {coins \in SeqOf(Coin, Len(Market)) : IsInjective(coins)}
    /\ calls = <<Get>> /\ answers = <<>>
    /\ data = <<>> /\ viewData = <<>> /\ viewCellData = <<>>
    /\ prices = <<>>
    /\ background = Idle
    /\ rows = 0 /\ reload = FALSE /\ refreshing = FALSE
    /\ acts = 0 /\ lost = FALSE /\ behind = TRUE /\ failed = FALSE

\* The program stops and the screen is loaded again; the account keeps its coins.
Restart ==
    /\ calls' = <<Get>> /\ answers' = <<>>
    /\ data' = <<>> /\ viewData' = <<>> /\ viewCellData' = <<>>
    /\ prices' = <<>> /\ background' = Idle
    /\ rows' = 0 /\ reload' = FALSE /\ refreshing' = FALSE
    /\ lost' = FALSE /\ behind' = TRUE /\ failed' = FALSE
    /\ UNCHANGED <<portfolio, acts>>

-----------------------------------------------------------------------------
(* What the user does. *)

Act ==
    /\ acts < MaxActs
    /\ acts' = acts + 1

Start(call) ==
    /\ Len(calls) + Len(answers) < MaxCalls
    /\ calls' = Append(calls, call)
    /\ UNCHANGED answers

ReadingUnderWay == \E n \in DOMAIN Outstanding : Outstanding[n] = Get

\* The didSet of data: the prices of the coins it holds now are asked for.
SetData(coins) ==
    /\ data' = coins
    /\ Len(prices) < MaxPrices
    /\ prices' = Append(prices, coins)

\* Pull to refresh: getData.
Refresh ==
    /\ Act
    /\ Start(Get)
    /\ refreshing' = TRUE
    /\ UNCHANGED <<portfolio, lists, prices, background, rows, reload, lost, behind,
                   failed>>

\* A coin is bought on the screen of a coin.
Buy(k) ==
    /\ Act
    /\ Start(Add(k))
    /\ UNCHANGED <<portfolio, lists, prices, background, table, lost, behind,
                   failed>>

\* Variant: the coin is deleted from the store but stays in data.
SwipeKeepsCoin(i) ==
    /\ Act
    /\ i \in 1..rows
    /\ i \in DOMAIN data
    /\ Start(Delete(data[i]))
    /\ SetData(data)
    /\ behind' = (behind \/ ReadingUnderWay)
    /\ UNCHANGED <<portfolio, viewData, viewCellData, background, table, lost, failed>>

\* Row i is swiped: the i-th coin of data is deleted, whatever the row shows.
Swipe(i) ==
    /\ Act
    /\ i \in 1..rows
    /\ i \in DOMAIN data
    /\ Start(Delete(data[i]))
    /\ SetData(RemoveAt(data, i))
    /\ behind' = (behind \/ ReadingUnderWay)
    /\ UNCHANGED <<portfolio, viewData, viewCellData, background, table, lost, failed>>

-----------------------------------------------------------------------------
(* The store answers the oldest call, and its completion runs in turn. *)

\* getDocument, or its failure, of which a call with nobody signed in, that
\* returns at once, is the shortest.
Read ==
    /\ calls # <<>>
    /\ calls' = Tail(calls)
    /\ \/ answers' = Append(answers, Found(Head(calls), portfolio))
       \/ MayFail /\ answers' = Append(answers, Unread(Head(calls)))
    /\ UNCHANGED <<portfolio, lists, prices, background, table, history>>

Ready(kind) ==
    /\ answers # <<>>
    /\ Head(answers).read
    /\ Head(answers).call.kind = kind

Seen == Head(answers).coins

Subject == Head(answers).call.coin

\* The completion of the oldest answer runs.
Complete == answers' = Tail(answers) /\ UNCHANGED calls

\* Another completion has changed the account since the call read it.
Overtaken == Seen # portfolio

RunGet ==
    /\ Ready("get")
    /\ Complete
    /\ SetData(Seen)
    /\ behind' = (calls' # <<>> \/ answers' # <<>> \/ Overtaken)
    /\ lost' = (lost /\ ~(prices = <<>> /\ background = Idle))
    /\ UNCHANGED <<portfolio, viewData, viewCellData, background, table, acts,
                   failed>>

RunAdd ==
    /\ Ready("add")
    /\ Complete
    /\ portfolio' = IF Contains(Seen, Subject) THEN Seen ELSE Append(Seen, Subject)
    /\ behind' = TRUE
    /\ UNCHANGED <<lists, prices, background, table, acts, lost, failed>>

\* The list that was read is stored without the coin; nothing is stored if it
\* was not there.
RunDelete ==
    /\ Ready("delete")
    /\ Seen # <<>>
    /\ Complete
    /\ portfolio' = IF Contains(Seen, Subject) THEN Without(Seen, Subject) ELSE portfolio
    /\ behind' = (behind \/ Overtaken)
    /\ UNCHANGED <<lists, prices, background, table, acts, lost, failed>>

\* The loop runs over 0...count - 1, which is no range when nothing is held.
DeleteTraps ==
    /\ Ready("delete")
    /\ Seen = <<>>
    /\ Restart

\* The portfolio could not be read: the completion returns.
RunFailed ==
    /\ answers # <<>>
    /\ ~Head(answers).read
    /\ Complete
    /\ behind' = TRUE
    /\ failed' = (failed \/ refreshing)
    /\ UNCHANGED <<portfolio, lists, prices, background, table, acts, lost>>

-----------------------------------------------------------------------------
(* Prices, on the delegate queue. *)

\* An answer sets viewData; when some image cannot be read its coin is missing.
Answer(i) ==
    /\ background = Idle
    /\ prices' = RemoveAt(prices, i)
    /\ \E listed \in Listings(prices[i]) :
           \/ /\ viewData' = listed
              /\ UNCHANGED lost
           \/ /\ MayFail
              /\ \E k \in Coin : viewData' = Without(listed, k)
              /\ lost' = TRUE
    /\ background' = Making(viewData', <<>>)
    /\ UNCHANGED <<store, data, viewCellData, table, acts, behind,
                   failed>>

\* An answer that fails or cannot be decoded brings nothing.
Lose(i) ==
    /\ MayFail
    /\ prices' = RemoveAt(prices, i)
    /\ lost' = TRUE
    /\ UNCHANGED <<store, lists, background, table, acts, behind,
                   failed>>

\* Variant: a row for every coin of the answer.
MakeAnyRow ==
    /\ background.step = "making"
    /\ background.left # <<>>
    /\ background' = Making(Tail(background.left),
                            Append(background.made, Head(background.left)))
    /\ UNCHANGED <<store, lists, prices, table, history>>

\* One coin of viewData: a row if data holds the coin now.
MakeRow ==
    LET k == Head(background.left)
    IN  /\ background.step = "making"
        /\ background.left # <<>>
        /\ background' = Making(Tail(background.left),
                                IF Contains(data, k) THEN Append(background.made, k)
                                ELSE background.made)
        /\ UNCHANGED <<store, lists, prices, table, history>>

\* Variant: the rows are added to the ones there are.
SetMoreRows ==
    /\ background.step = "making"
    /\ background.left = <<>>
    /\ viewCellData' = viewCellData \o background.made
    /\ background' = Summing
    /\ UNCHANGED <<store, data, viewData, prices, table, history>>

SetRows ==
    /\ background.step = "making"
    /\ background.left = <<>>
    /\ viewCellData' = background.made
    /\ background' = Summing
    /\ UNCHANGED <<store, data, viewData, prices, table, history>>

\* Variant: no reload for an empty wallet.
SumUpIfAny ==
    /\ background = Summing
    /\ background' = Idle
    /\ reload' = (reload \/ viewCellData # <<>>)
    /\ UNCHANGED <<store, lists, prices, rows, refreshing, history>>

\* The didSet of viewCellData ends by queueing the labels and a reload.
SumUp ==
    /\ background = Summing
    /\ background' = Idle
    /\ reload' = TRUE
    /\ UNCHANGED <<store, lists, prices, rows, refreshing, history>>

\* configure, on the main queue; several of them act as one.
Reload ==
    /\ reload
    /\ reload' = FALSE
    /\ rows' = Len(viewCellData)
    /\ refreshing' = FALSE
    /\ failed' = FALSE
    /\ UNCHANGED <<store, lists, prices, background, acts, lost, behind>>

-----------------------------------------------------------------------------
\* A row is swiped or displayed that its list no longer has, or data is set
\* while the delegate queue reads it.
Trap ==
    /\ \/ rows > Len(data)
       \/ rows > Len(viewCellData)
       \/ background # Idle
          /\ (rows > 0 \/ Ready("get"))
    /\ Restart

Acts ==
    \/ Refresh
    \/ \E k \in Coin : Buy(k)
    \/ \E i \in DOMAIN data : Swipe(i)

Completion == RunGet \/ RunAdd \/ RunDelete \/ DeleteTraps \/ RunFailed

BackgroundStep == MakeRow \/ SetRows \/ SumUp

Next ==
    \/ Acts
    \/ Read
    \/ Completion
    \/ \E i \in DOMAIN prices : Answer(i) \/ Lose(i)
    \/ BackgroundStep
    \/ Reload
    \/ Trap

Spec == Init /\ [][Next]_vars

\* The store answers or fails, the service answers each request unless the
\* answer is lost, the delegate queue and the main queue go on.
FairSpec ==
    /\ Spec
    /\ WF_vars(Read)
    /\ WF_vars(Completion)
    /\ WF_vars(\E i \in DOMAIN prices : Answer(i))
    /\ WF_vars(BackgroundStep)
    /\ WF_vars(Reload)

-----------------------------------------------------------------------------
TypeOK ==
    /\ portfolio \in Seq(Coin) /\ IsInjective(portfolio)
    /\ calls \in Seq(Call)
    /\ answers \in Seq(AnswerTo)
    /\ \A n \in DOMAIN answers : IsInjective(answers[n].coins)
    /\ data \in Seq(Coin) /\ prices \in Seq(Seq(Coin))
    /\ viewData \in Seq(Coin) /\ viewCellData \in Seq(Coin)
    /\ background \in [step: {"idle", "making", "summing"},
                       left: Seq(Coin), made: Seq(Coin)]
    /\ rows \in Nat /\ acts \in 0..MaxActs
    /\ reload \in BOOLEAN /\ refreshing \in BOOLEAN
    /\ lost \in BOOLEAN /\ behind \in BOOLEAN /\ failed \in BOOLEAN

Quiet == calls = <<>> /\ answers = <<>> /\ prices = <<>> /\ background = Idle /\ ~reload

\* The table never counts on other rows than there are without a reload on its
\* way, so that an index out of range needs one that has not run yet.
RowsCatchUp ==
    rows # Len(viewCellData) => reload \/ background = Summing

\* When nothing is under way and no answer was lost, no row is left of a coin
\* that the wallet no longer holds, in whatever order the answers came.
NoGhostRow ==
    Quiet /\ ~lost => ToSet(viewCellData) \subseteq ToSet(data)

\* When moreover the last answer was about the coins that the wallet holds,
\* there is one row for each of them, in the order of the market.
EveryCoinHasItsRow ==
    Quiet /\ ~lost /\ ToSet(viewData) = ToSet(data) =>
        viewCellData \in Listed(data) /\ rows = Len(data)

\* Once the calls have ended, the wallet holds what the account holds, row for
\* row, though data loses a coin before the account does: if nothing was bought
\* since it was last read, no call failed, nothing was deleted while a reading
\* was under way, and no deletion was computed from a list that another had
\* changed meanwhile.
HoldsThePortfolio == Outstanding = <<>> /\ ~behind => data = portfolio

\* Types, and a table that catches up.
RowsConsistent == TypeOK /\ RowsCatchUp

\* Pulling to refresh ends, unless the reading failed, or the answer it waits
\* for was lost.
RefreshEnds == refreshing ~> (~refreshing \/ failed \/ lost)

=============================================================================
