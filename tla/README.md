# A TLA+ development of the crypto wallet tracker

The program is an iOS app (Swift, under `project/project`) that lists the coins
of a market, lets a signed-in user record what he bought, and shows what it is
worth. This directory specifies the parts of it in which several things happen
at once, model-checks them with TLC and proves their safety properties with
TLAPS. Below the app it follows the one read and the one write that the app uses
through the vendored Firestore client, down to its streams.

Paths below are relative to `project/project` of the repository; those of the
Firestore client to `project/Pods/FirebaseFirestore/Firestore/core/src`.

## 1. Inventory

| Component | State | Operations | Interacts with |
|---|---|---|---|
| **Portfolio store** `Firebase/FirebaseManager.swift` | one Firestore document per user, `users/<uid>`, whose field `coins` is the whole portfolio; in the client a cache and a persisted queue of writes | `getPortfolio`, `add`, `delete`, `createUserDocumentAndCoinsArrayInDB` | called by Wallet, CoinAdd, SignUp; calls the Firestore client |
| **Coins list** `CoinListModule` | `viewData`, `tempViewData`, `isSearching`, `numberOfPage`, `chosenTypeOfSort`, `tempChosenTypeOfSort` | refresh, sort, search, cancel, next page, row tapped | APICaller; opens Coin details |
| **Wallet** `WalletModule` | `data`, `viewData`, `viewCellData` | `getData`, `deleteCoinFromPortfolio`, price answers, total, chart | FirebaseManager, APICaller, Pie chart |
| **APICaller** | requests under way; the flag `joke` of a look-up | `doRequest`, `getIDs`, `buildURLString` | the price service, on the delegate queue of URLSession |
| **CoinModelParser** | none | `parseToViewModels` (drops a coin without image), `cutString` | Coins list, Wallet, Pie chart |
| **CoinAdd** | the coin's limits, two texts, the error label | `alertAction`, `checkIsInRange`, `checkForFilledFills` | FirebaseManager.add |
| **Pie chart** | a copy of the wallet's rows | cut and add up | opened by Wallet |
| **SignIn, SignUp, Settings, TabBar, AppDelegate** | Firebase's current user, text fields, the keychain, the stack of screens | log in, biometry, sign up, sign out | Firebase Auth, KeychainWrapper, Validation, FirebaseManager |
| **Validation, KeychainWrapper** | none; the system keychain | checks on texts; get and set | SignIn, SignUp |
| **Firestore: write path** `core/sync_engine`, `remote/remote_store`, `write_stream`, `stream`, `grpc_stream`, `local/leveldb_mutation_queue` | queue of mutations on disk, pipeline of ten, stream state, idle and back-off timers, close count | `WriteMutations`, fill, handshake, result, close, restart of the network | Portfolio store above, the server below |
| **Firestore: read path** `api/document_reference`, `core/event_manager`, `query_listener`, `event_listener`, `remote/remote_event`, `online_state_tracker` | listeners, view, watch target, online state with its timer | listen, first event, remove, target changes, failures | as above |
| **Firestore and Firebase Auth: credentials** `credentials/firebase_auth_credentials_provider_apple.mm`, `FIRAuth.m` | current user, token counter, a queue of writes per user | change of user, token fetched, stream restarted | Session above, write path below |
| **Coin details, interface elements, extensions** | what they were given; appearance | show, layout, formatting | all screens |
| **The other pods** | | | vendored |

What makes it hard.

* The store is read, changed and written back as a whole, without a
  transaction, from any number of devices, online or not, with completions that
  run late and writes that wait on disk.
* The two list screens are changed by the main thread and by URLSession's
  delegate queue without a lock, ask for answers that come in any order or not
  at all, and drive a table that learns of each change later. A look-up is
  waited for in an empty loop on the main thread.
* Screens are presented over one another and never taken away, so that answers
  to requests find their screen covered, or the user changed.
* An amount becomes a text and a number again up to four times on its way to the
  chart.
* Three queues (FIRAuth's, the main one, the client's worker queue) learn one
  after the other who is signed in, while tokens are fetched over the same
  queues.
* A write is known to its stream only by its place: an answer names no write. A
  stream can be closed in every state, by the server, the network, a timer, the
  end of the process or a change of user.
* A listener lives for one event, on two queues, and shares a target with other
  calls for the same document.

What makes each part correct:

* store: a coin has one entry; its quantity and mean price are what was bought;
  nothing is lost but by a deletion or an overwrite; every call is answered;
* coins list: the rows are the asked pages, in order; Cancel brings them back;
  the table is never out of date without a reload coming; nothing hangs;
* wallet: the rows are the coins held; what is held is what the store has; a
  refresh ends; the total, its colour and the chart say the same thing;
* adding: a dialog sends one lot or none, and a mean price stays an ordinary
  number as long as the lots are made of such;
* session: the screens, the keychain and a new document belong to the user that
  is signed in or was until Firebase Auth signed him out by force, and a tap is
  always answered;
* write path: writes are answered one by one, in order, none skipped, none lost;
* read path: a call is answered once, and what counts as in sync was read after
  it was asked for;
* credentials: no write is sent with another user's token, and none is lost for
  having waited for its user.

## 2. Modules

| Module | What it is |
|---|---|
| `Portfolio` | the abstract promise: an add or a delete takes effect at one moment on all the account holds, or not at all |
| `PortfolioStore` | FirebaseManager over the Firestore client, any number of devices; refines `Portfolio` for one device that waits |
| `CoinsList` | the coins list, its two threads and its requests |
| `Wallet` | the wallet screen, and its calls on the store: readings and completions |
| `Valuation` | rows, total, colour and chart, through the texts in between |
| `CoinAdd` | the dialog, and the kinds of numbers it lets through to the merge |
| `Session` | screens, requests of sign-in and sign-up, biometry, keychain |
| `WriteQueue` | the abstract promise of the write path |
| `WriteStream` | the write path; refines `WriteQueue` |
| `DocumentGet` | the read path |
| `Credentials` | the user as the three queues know him, and his queue of writes |
| `...Proofs` | the theorems about the module of that name, for TLAPS; see section 4 |
| `AmountProofs` | those about `CoinAdd` and `Valuation` |
| `MC...` | small instances, for TLC |

How they fit together. Each module assumes of the one below what that one shows:

* `Wallet` takes from the store what `PortfolioStore` has of it on one device with
  several calls outstanding: each reads, in turn, what the device sees, and its
  completion overwrites that later on. It does not take the promise of
  `Portfolio`, a call that takes effect at one moment: that holds only for a
  device that waits for each call (`KeepsThePromise`, `Store_serial`), and a user
  who swipes two rows need not wait.
* `CoinAdd` is about the kinds of numbers that a merge makes of two others. There
  the store answers at once; its property speaks of all the lots there ever were,
  so that it does not matter which of them a reading had seen.
* `PortfolioStore` takes from the client a queue of writes that is served in
  order, at least once each, each answered: `WriteQueue`, which `WriteStream`
  refines. A write that is served and whose answer is lost is its
  `UploadUnanswered`.
* `PortfolioStore` takes a reading that is answered once, from the server, from
  the cache or not at all: `CallsAreHeldOnce` and `GetsEnd` of `DocumentGet`.
* `PortfolioStore` speaks of one account. That the writes of another user never
  get into its queue, but for a user who changes between a call and its
  answer, is `WritesKeepTheirUser` of `Credentials`; that on a main screen
  somebody is signed in, or was until he was signed out by force, is a part of
  `SessionConsistent` of `Session`. In the second case `getPortfolio`, `add` and
  `delete` return at once and call nobody back: for the wallet a call that failed
  (`Read` of `Wallet`, its second disjunct).
* `WriteStream` takes a token that comes and is its user's: `StreamConsistent`
  of `Credentials`.

Names ending in a description of a defect and commented *Variant* (for example
`WithLotAlwaysNew`) are not part of a specification. Each is a plausible slip in
the definition that follows it, under which a property was seen to fail, so that
the property is known to say something about the code.

Properties whose name ends in *Consistent* (and a few others) are conjunctions
of named parts, each with its own comment; a run checks them together.

### PortfolioStore

A client `c` is an installation signed in to the account. `inflight[c]` holds
its calls whose completion has not run. A call is started (`GetPortfolio`, `Add`,
`Delete`, `CreateUser`), gets a snapshot (`AnswerOnline`, `AnswerFromCache`,
`AnswerError`), and its completion runs later on the main queue (`RunGet`,
`RunAdd`, `RunDelete`, `RunDeleteMiss`, `TrapDelete`, `RunFailed`, `RunCreate`).
So other completions and the writes of other devices come between a snapshot
and the `setData` computed from it, as they do in the program. Listeners are
raised in the order they were added, which makes `inflight` a queue.

`SetData` appends to `pending[c]`, the queue of mutations kept on disk; `Overlay`
lays its last write over whatever the client reads; `Upload` and `Reject` are
the server's answers to the oldest one, and `UploadUnanswered` is an answer that
is lost: the write has landed and stays in the queue, to land again later, on
top of what other devices wrote between. `Kill` and `TrapDelete` (the range
`0...count - 1` of an empty list) lose the calls and the screens, not the queue.

Prices and quantities are decimal texts in the code. A model entry has an
integer quantity and the cost (quantity times price), so that the weighted mean
of `add` is a sum and nothing is rounded. Departures: rounding of `Double`;
entries that cannot be parsed (the app writes none); the history variables
`bought`, and `base` and `sold` of a write, which no guard reads.

### CoinsList

`main` and `background` hold what is left to do of a handler of the main thread
and of an answer on the delegate queue, as sequences of steps: an assignment to
`viewData`, the `didSet` that follows it, the assignment to `isSearching`, a
look-up, a request. A gesture starts when `main` is empty; what it computes
before its first such step is one action with it. An append on the delegate queue
reads the list in `Answer` and stores it in `BackgroundStore`, so an update of
the main thread between the two is overwritten, as it may be in the program. The
data race itself may also end the program (`Trap`, as does an index out of
range); the screen is then loaded again.

Blocks stand for rows: a page, or what was found for a text. That some coins of
an answer are dropped is seen only when all of them are (`found = <<>>`). The
reloads queued on the main thread act as one (`reload`): a reload that finds
nothing new has no effect but to stop the refresh control a little earlier.
`LookupsFail` covers the look-up that never completes, be it that its request
fails in transport or that an optimizing compiler reads `joke` only once.

`calm` is history. It is true as long as each gesture came after the answer to
the one before it, no answer failed or was empty, no order was picked between
the opening of the search bar and a search, and Cancel was used to end a search.
Outside these conditions `ListInOrder` fails, and the sequences that break it
are hazards of this code: a page lost leaves a gap, a row displayed twice asks
for two pages, Cancel without a search brings back the list before its last
change, and the order that Cancel restores need not be that of the list it
restores.

### Wallet

A call on the store is in `calls` until it has read what the account holds
(`Read`), in `answers` until its completion runs (`RunGet`, `RunAdd`, `RunDelete`,
`RunFailed`), and a completion stores what it makes of what was read. Two calls
may both have read before either has stored: the second deletion of two then
brings the coin of the first back to the account, while `data` has lost both
(`Overtaken`). `Wallet` adds to that the three lists of the screen, the price
requests, the rows and the reloads. The delegate queue goes through an answer coin by coin (`MakeRow`), reading `data`
each time, then sets the rows, then queues the reload. `Swipe(i)` deletes the
`i`-th coin of `data`, as the code does, whatever coin row `i` shows: rows are in
market order and `data` in the order of purchase. The service lists the coins
asked for in its own order (`Listed`: the coins of the answer, in market order,
are said, not selected one by one, so that the proofs can speak of them). `lost`,
`behind` and `failed` are history and say when the screen has no means to be
right, or to stop refreshing: after a lost answer, after the portfolio changed
in a way the screen has not read or a completion used a reading that was no
longer true, and after a reading failed under the refresh control. The program
stops and the screen is loaded again (`Restart`) when an index is out of range,
when `data` is set while the delegate queue reads it (`Trap`), and when a delete
finds the portfolio empty (`DeleteTraps`).

### Valuation

The number in a text is in thousandths. A `Double` is a number of grains, of
which a thousandth has `Fine`, and a bit that says whether it is whole; a
quantity is in parts of a piece, of which there are `Fine` too, so that half a
coin is a quantity and its row need not be a number of hundredths. `cutString`
leaves a whole `Double` as it is. Any other it rounds twice, to thousandths
(`Thousandths`) and to two places (`TwoPlaces`), so that 0.0046 becomes 0.01, off
by 0.0054; then it strips zeros from the end, through the point and into the
number (`Stripped`, the loop as a recursive function), so that 10.001 becomes the
text 1, and a sum that misses 10 by its last bit does as well (`LosesDigits`). What
lies halfway may go either way, and a sum or product of decimal fractions that
is a whole number on paper may come out whole or not (`Doubles`).

Rows are quantity times the cut text of a price, the label is the sum of the
rows, the slices of the chart are cut from the rows, the text in its hole from
the sum of the slices. A coin that the answer does not have, or whose image
could not be loaded, has no row (`PricesCome` chooses the coins `listed`), though
what it cost is still counted: so a gain may be shown as a loss, and the
properties measure the total against the coins that have a row, and promise
green only for a gain of these over all that was spent. A loss is never shown as
a gain, whatever rows are missing. The error of rounding twice is at most 0.0055
for each piece, in the total, and for each row that is no number of hundredths,
in the chart. Lost digits only make an amount less: the properties say so for
every price, and that nothing is lost where no amount is next to a multiple of
ten. Amounts are not negative, and not so great or small that a `Double` fails.

### CoinAdd

Two texts, each by what `Double(_)` and the checks make of it: nothing, words,
an ordinary number, one so great that a product overflows or so small that it
vanishes (`1e-323`), infinity. The dialog
stays after an error and closes after it has sent a lot. The range of prices is
made of the limits that came with the coin, and `atl...ath` stops the program
when they are crossed (`TapTraps`). `entry` is the kind of the merged price and
quantity: the range of quantities takes in all that is above zero and infinity,
so that the weighted mean may be infinite, zero or not a number, and a price may
be tiny if the lowest price is zero. `odd` is history: the kinds of such numbers
in the coin's lots. A mean of ordinary prices and quantities is taken to be
ordinary. The store answers at once here; what can come between is in
`PortfolioStore`. While the alert is being dismissed no further tap is modelled.

### Session

`screens` are all the screens made and `stack` those on display; nothing in the
program takes one away but the user who swipes the sign-up sheet. UIKit presents
only from the screen on top (`CanPresent`), so that an answer which finds its
screen covered shows nothing. A form is the kind of its texts: an account's, none
of any account, invalid, empty. A request changes FIRAuth's user when it is
answered, and its completion runs later on the main queue (`AcceptSignIn`,
`RunSignedIn`); the completion of sign-up empties the document of whoever is
signed in then (`RunCreated`). FIRAuth may take its user off by itself, when a
token is renewed and the service says that he or his token is no longer valid
(`SignOutByForce`, `FIRUser.m:1492`): no screen of the app observes that, so a main
screen stays with nobody signed in, and `forced` remembers why. Biometry ends on a queue of its own. `haste`
counts the gestures made on a form before an answer had come, and `crossed`
says that one of them was a tap: with two requests under way the program may show
one user's screens to another, and some properties make no claim then.

### WriteStream and WriteQueue

Every handler runs on the worker queue and is one action: `WriteMutations` adds
to the queue on disk and to the pipeline, starts the stream or writes to it;
`ResumeStart` opens it with its token, `ReadHandshake` sends the pipeline,
`ReadResult` takes an answer for the first batch, `CloseWithError` keeps or
rejects the first one, starts a back-off and starts again. `sent` and `replies`
are the two directions of the call; `failing` is a write that failed and waits on
the worker queue, next or behind a read that came before it: in both cases the
answers behind it are thrown away, as `FastFinishCompletionsBlocking` does. The
process may end (`Restart`), the network be restarted, the connection break, and a
token be refused. Assumed of the outside: the server ends no call with the
status OK, and serves no call that the client has left.

`WriteQueue` has a queue, what the server took of it, and a log. `Promise` maps
to it: the writes taken are those answered on the present call. The refinement
says that a write leaves the queue by its own answer or by a refusal, from the
front, and that the server takes writes in the order of the queue, again those
whose answers were lost. No answer can be given to another write, none can be
skipped, and an older document is never left on the server.

### DocumentGet

`GetDocument` gives the worker queue a listener, which is removed and muted when
its first event runs on the main queue. The first listener adds the target, and
starts the stream and the timer of the online state, or writes to the stream
that is open; the next ones join the view. `expected` counts the target's
outstanding responses, so that messages for an earlier target of the same
document are told from those for this one. The online state decides when a call
stops waiting for the server (`Waiting`): the timer, or a failure of the stream,
raises the cached document, or an error if there is none, to the listeners that
wait, in the order in which they were added (`WaitingOnes`). Left out: existence
filters and resume tokens (one document, one target), limbo documents, and local
writes, which `PortfolioStore` lays over.

### Credentials

`auth` is FIRAuth's user, `current` SyncEngine's. A change is posted to the main
queue, counted there by the provider (`RunUser`), passed on to the worker queue
and ends in `HandleCredentialChange`, which swaps the queue of writes and
restarts the stream. A token is asked for with the counter and the stream's
close count; FIRAuth takes the user it finds when its turn comes (`FindUser`),
and the token is asked for again if the counter has moved. A call of `add` takes
its user's id when it is made and writes when its reading is answered; `raced`
says that the user changed between. Such a write goes to the queue of the other
user, and the rules of the database refuse it.

Two checks guard the stream, the counter and the close count. Each was seen to
suffice alone for `StreamIsTheUsers`, so neither is a variant.

## 3. Runs

All twelve are started with two workers and end within five minutes.

| Run | Bounds | What it shows |
|---|---|---|
| `Store_devices` | 2 devices, 2 coins, 5 calls, 2 outstanding per device, refusals, lost answers | `OneEntryPerCoin`, `NothingInvented`, `LossHasACause` under every interleaving |
| `Store_serial` | 1 device, 2 coins, prices 1 and 2, 5 calls, 1 outstanding; fairness | `KeepsThePromise` (refinement of `Portfolio`), `DeleteFindsCoins`, `MeanPriceInRange`, `CallsEnd`, `WritesLand` |
| `List_screen` | 2 orders, 1 text, 3 pages, 2 requests, 4 gestures, lost look-ups; fairness | `ScreenConsistent` (`RowsCatchUp`, `NoSearchWithoutBar`), `ListInOrder`, `MainComesBack`, `RefreshEnds` |
| `Wallet_rows` | 2 coins, any portfolio at first, 3 acts, 2 calls, 2 price requests, failures; fairness | `RowsConsistent`, `NoGhostRow`, `EveryCoinHasItsRow`, `HoldsThePortfolio`, `RefreshEnds` |
| `Valuation_screens` | 2 coins, each with a row or without, 9 prices around the places where texts round or lose digits, 3 holdings, one of half a piece, tenths of a thousandth | `WorthIsRight` (`TotalIsClose`, `ColourTellsTheGain`), `ChartAgreesWithWallet` |
| `CoinAdd_lots` | 4 dialogs, three pairs of limits, one of them crossed, all kinds of texts | `DialogConsistent` (`OpenHasSentNothing`), `SpoiltByItsLots` |
| `Session_screens` | 2 accounts, 3 screens, 2 requests, 1 end of the process, 1 hasty gesture, signing out by force at any time; fairness | `SessionConsistent` (`SignedInOnMain`), `DisplayIsTheUsers` (`SignedOutStaysOut`, `WalletIsTheUsers`), `KeychainWasAccepted`, `OnlyNewAreEmptied`, `TapsEnd` |
| `Stream_faults` | 5 writes, the third refused, pipeline of 4, 3 faults; fairness | `KeepsThePromise` (refinement of `WriteQueue`), `PipelineConsistent`, `AnswersMatch`, `WritesAccountedFor` (`GivenUpWasServed`, `AcceptedWasApplied`, `AnsweredOnce`, `NewestWins`), `WritesEnd` |
| `Get_streams` | 3 calls, 2 versions of the document, 1 fault; fairness | `OnlineConsistent`, `CallsAreHeldOnce`, `SyncedIsFresh`, `TargetsAgree`, `GetsEnd` |
| `Credentials_users` | 2 accounts, 1 call, 3 changes of user, 1 renewed token; fairness | `StreamConsistent` (`StreamIsTheUsers`), `WritesKeepTheirUser` (`WritesStayWithTheirUser`, `OnlyRacedRefused`), `WritesLand` |
| `Stream_blame` | 4 writes, 1 fault | violates `OnlyRefusedRejected`, see below |
| `Get_timer` | 2 calls, no fault | violates `TimedWhileTrying`, see below |

Why the bounds are enough.

* Store: two writers suffice for a lost update, two outstanding calls on one
  device for two adds on one snapshot; five calls are an account, two adds, a
  reading and a deletion: enough for a deletion of a coin that is gone while
  another is held. The waits of several calls on one device are `Get_streams`'.
* List: three pages are needed for a gap between two, two requests for answers
  in the wrong order; four gestures include opening the bar, searching,
  cancelling and one more, before or after.
* Wallet: two coins tell the order of purchase from that of the market and one
  row from another's; the first portfolio may hold any of them in either order,
  so that three acts are two deletions on one reading and a refresh that brings
  back what the second left, or a deletion, a purchase and a refresh.
* Valuation: two coins for sums whose parts are rounded, and for one with a row
  and one without; the prices are on both sides of a half hundredth (0.0045 and
  0.0046, of which only the second is rounded up twice), of one and of ten, whole
  and not; half a piece at 0.11 makes a row of 0.055.
* CoinAdd: two huge lots whose quantities add up to infinity make the mean price
  zero and one more makes it no number at all, three dialogs; the fourth is one
  that was cancelled, or a lot before a deletion.
* Session: three screens are a form, a main screen and the form after signing
  out (the last gesture may make a fourth); one hasty gesture is a second tap, or
  other texts, while the first are under way. The theorems hold for any number,
  such as typing other texts and sending them too.
* WriteStream: the pipeline is smaller than the number of writes, so that it is
  full and filled again; the refused one is neither the first nor the last; three
  faults break a call, its successor and what is started again after that.
* DocumentGet: three calls are one that is answered, one that joins it and one
  that comes when the target is removed and added again; the document changes
  once, so that old and new messages differ.
* Credentials: three changes are there, back and there again, while the tokens
  of the first stay are under way.

`CHECK_DEADLOCK FALSE` in all runs but those of the store and of `Valuation`: the
bounds let the model stop where the program would wait for the user, or where no
fault is left. An app can always be killed, and a chart always be opened.

Fairness. What is assumed is what the queues and the servers do when nobody
stops them; nothing is assumed of users, faults, refusals or timers.
`Store_serial`: a listener is raised (once connected, or when the client gives
up and uses the cache), the main queue runs its blocks, and the write stream is
retried until answered: the last two are `GetsEnd` and `WritesEnd` one level
down. `List_screen`: both threads go on and a look-up is answered unless it is
lost; the reload is strongly fair because the main queue serves its blocks in
turn with the user's gestures, which disable it again and again. It does not
assume that requests are answered. `Wallet_rows`: the store decides or fails,
a price request is answered or lost. `Session_screens`: the service answers,
requests having a timeout, and the main queue runs. `Stream_faults`,
`Get_streams`: the worker queue (and the main one) runs what it is given, tokens
come, delays end, and the server reads and answers; faults are finitely many.
`Credentials_users`: the two queues run, tokens are fetched, an open stream is
served.

Findings. Two runs show the code doing what a comment in it denies; both are in
the vendored client.

* `Stream_blame`. `HandleWriteError` (`remote/remote_store.cc:504`) gives up the
  first write of the pipeline when the stream ends with a permanent error: "the
  request itself was the problem". When a later write was refused while the answer
  to an earlier one waited behind a failed write, that answer has been thrown
  away and the earlier write, applied by the server, is the one given up. Its
  caller is told of a failure. `GivenUpWasServed`, a part of `WritesAccountedFor`,
  shows that no write is lost that way, and the theorem
  `OnlyThrownAwayAnswersMislead` that the blame goes wrong in no other.
* `Get_timer`. `StopListening` (`remote/remote_store.cc:187`) sets the online
  state to Unknown when the last listener leaves a stream that is not open; the
  next `Listen` finds the stream started and starts no timer. That call waits
  with no bound but the stream's own failure, where
  `remote/online_state_tracker.h:37` promises a time-out. The theorem
  `OnlyALateListenerIsUntimed` says that no other step leaves a call without it.

## 4. Proofs

Every safety property that a passing run checks is also a theorem: for all values
of the constants, from the assumptions stated with them in each module and from
nothing else, unless a hypothesis is named below. For the two findings a theorem
says when the property that fails does so.
The assumptions say what kind of value a constant is. Those with content: prices
are at least 1 and quantities positive (the ranges of the dialog), the market
lists a coin once and is not empty, a page number is no text, the pipeline takes
one write at least, the bound on the requests of the coins list is one at least,
since it asks as it loads, and a `Double` that is said to be whole is so.

In each proof the theorem rests on an invariant, `Spec => []IndInv`, from the
three facts that it holds at first, is kept by every step (one lemma or one step
of the proof for each action), and implies the property. The invariants
were checked with TLC first, on the instances of section 3, but for the few parts
that TLC cannot evaluate (a list or a function is said to exist).

**`PortfolioStoreProofs`**

| Theorem | States |
|---|---|
| `TypeCorrect` | `TypeOK` |
| `EachCoinOnce` | `OneEntryPerCoin` |
| `MeanPriceBetweenLimits` | `MeanPriceInRange` |
| `NeverMoreThanBought` | `NothingInvented` |
| `LossesHaveACause` | `LossHasACause`, an action property |
| `DeleteNeverTraps` | `DeleteFindsCoins`, for one device |
| `StoreKeepsThePromise` | `KeepsThePromise` (the refinement of `Portfolio`), for one device |

The inductive invariant is the conjunction of the first four. They need each
other: that the merge finds the only entry of a coin needs `OneEntryPerCoin`, and
the bounds on quantities need the types. Each speaks of all the lists there are
(on the server, cached, queued, in a snapshot, on a screen). The proof first shows
which lists a step can make: one that there was, an empty one, one with an entry
less, one with a lot more. Then it shows what each of these does to the entries.
Writes that land twice (`UploadUnanswered`) are included. `LossHasACause` follows
for each step that changes the server: an upload puts there the list of a write,
and what that list lacks it lacks by its own deletion or for its stale base.

The last two have a hypothesis, `OneDevice(c)`: `c` is the only client, has one
call outstanding at most, and the server refuses no write. It is the instance of
`Store_serial`, with any coins, quantities, prices and number of calls. Without
it both are false, which is what the hazards of the store are about: two calls
on one snapshot lose an update. Under it `Waits` is invariant: an answered call
was told just what the device sees (`Visible`: cache and own writes), a delete
under way names a coin of that list which is no longer a row, and the rows of the
screens are of that list. The refinement maps the account to what the device
sees and the call under way to its request, if it changes anything. A completion
that runs is `Portfolio`'s `Buy`, `Sell` or `Fail`, the end of the process its
`Quit`, and an upload changes nothing that is seen.

**`WalletProofs`**

| Theorem | States |
|---|---|
| `NoRowOfALostCoin` | `NoGhostRow` |
| `TableCatchesUp` | `RowsConsistent` |
| `WalletIsTheAccount` | `HoldsThePortfolio` |
| `EveryCoinIsShown` | `EveryCoinHasItsRow` |

`NoGhostRow` is not inductive, since rows of lost coins are there while an
answer is under way. The invariant adds what holds when no price request is
outstanding: the rows made so far from the answer at hand, or set from it, are
of coins in `data`. Every change of `data` sends a request and voids the claim.
`EveryCoinHasItsRow` adds to it that the rows made and the coins left are together
the answer, in market order, so that no coin is passed over when `data` is read
for each. `HoldsThePortfolio` is about the deletions under way, whether they have
read yet or not: they lead, one after the other, from what the account holds to
what the wallet holds (`Leads`), unless a call of another kind waits. A completion
follows that way only if what it read is what the account still holds; with two
deletions on one reading the second does not, and the wallet is `behind`.

**`CoinsListProofs`**

| Theorem | States |
|---|---|
| `ScreenCatchesUp` | `ScreenConsistent` |
| `ListStaysInOrder` | `ListInOrder` |

Both say what may be left of a handler. For the first, with both threads at the
list in any order (`ScreenInv`): a handler asks once and has room for it, a search
begins only under the bar, the end of a search is left to do when the bar is
closed and the search still on, and no handler that the look-up may cut short has
such an end to lose. The second speaks of the behaviours where `calm` holds.
There `Trusted` is invariant: the list is being emptied, lacks the page asked for,
or is whole; a search is opening, is on, or is closing; in each of these the steps
left of the handler, the request, the answer and the steps left of it are among a
few, and only one thread has anything to do.

**`WriteStreamProofs`**

| Theorem | States |
|---|---|
| `PipelineIsConsistent` | `PipelineConsistent` |
| `AnswersFindTheirWrites` | `AnswersMatch` |
| `EveryWriteIsAccountedFor` | `WritesAccountedFor` |
| `StreamKeepsThePromise` | `KeepsThePromise` (the refinement of `WriteQueue`) |
| `OnlyThrownAwayAnswersMislead` | `BlameFollowsARefusal`, an action property stated with the proof: a write is given up only when the server refused one, and is that one unless the answer to it was thrown away behind a failed write |

The invariant says where each message of a call is. Before the handshake there is
at most the handshake itself. After it the answers not read and the writes not
read are the pipeline, place by place; when the call has ended the answers are
still its front, and what the server refused is next behind them. The pipeline is
the front of the queue, and the queue the last so many of the writes made. Answers
name no write, so this is all that tells them apart. Each action is then a step
of `WriteQueue` or leaves its state alone.

**`CredentialsProofs`**

| Theorem | States |
|---|---|
| `StreamOfTheUser` | `StreamConsistent` |
| `NoWriteChangesHands` | `WritesKeepTheirUser` |

News of a user goes through the blocks of the main queue and the tasks of the
worker queue. The invariant says of every place in the two queues who will be
known as the user when it is reached: the last one named before it or, if none
is, the one SyncEngine has. A token that will be let through, and a write whose
call saw no change, are of the user known at their place.

**`DocumentGetProofs`**

| Theorem | States |
|---|---|
| `OnlineIsWhatWasHeard` | `OnlineConsistent` |
| `NoStaleSync` | `SyncedIsFresh` |
| `ClientAndServerAgree` | `TargetsAgree` |
| `CallsEndOnce` | `CallsAreHeldOnce` |
| `OnlyALateListenerIsUntimed` | `UntimedComesLate`, an action property stated with the proof: `TimedWhileTrying` is lost only by the first listener on a stream that was started for one that has gone, and not heard from |

Two invariants. `Connected` says what is on its way: nothing without an open
stream; on one, requests that take turns, and as many responses as the client
counts, so that a document with no response behind it was sent for the target
there is. `Attended` says where each call is: its task, its listener, its events
and its answer; an error is the last event of its call, and a muted one has its
answer.

**`SessionProofs`**

| Theorem | States |
|---|---|
| `MainScreensHaveAUser` | `SessionConsistent` |
| `DisplayFollowsTheUser` | `DisplayIsTheUsers` |
| `KeychainHoldsAccepted` | `KeychainWasAccepted` |
| `NoPortfolioIsEmptied` | `OnlyNewAreEmptied` |

That somebody is signed in behind a main screen, or was signed out by force,
needs to be known of the answers still to come (`AnswersFindTheUser`): with nobody
signed in and not by force, an accepted answer finds its form covered, since Sign
Out has put a main screen over it that nothing takes away. The other three make a claim for a user who waits for each answer.
For him one thing is under way at a time and belongs to the screen on display
(`OneAtATime`), and who is signed in on a form is so since the launch.

**`AmountProofs`**

| Theorem | States |
|---|---|
| `DialogSendsOneLot` | `DialogConsistent` of `CoinAdd` |
| `OnlyUnusualLotsSpoil` | `SpoiltByItsLots` of `CoinAdd` |
| `CutStringIsClose` | what `CutString` of any `Double` may be: a number of hundredths, off by 0.0055 at most, for it is rounded twice, unless digits are lost, and then only less; exact for a number of hundredths |
| `TotalAndColourAreRight` | `WorthIsRight` of `Valuation` |
| `ChartShowsTheTotal` | `ChartAgreesWithWallet` of `Valuation`, an action property |

`SpoiltByItsLots` is not inductive: a quantity that is tiny though no lot was would
bring the price down. The invariant adds that a quantity is tiny only by such a
lot. The proof goes by the tables of the kinds of numbers: what makes a product
vanish or overflow, and a sum or a mean of two.

`WorthIsRight` is not inductive either, as it does not say what the total is made
of. `ScreensInv` does: each row is its quantity times a text of the price sent, and
the label is that of the sum of the rows. The rest is about the operators, and is by
induction: on the number for the loop of `cutString`, on the finite set of coins
for totals. An induction theorem with an operator for the property cannot be
instantiated by the provers, so the ones used here take a set for it: a set of
naturals (`NaturalsBySteps`, from `LeastNatural`, which is the well-founded order
of the library) or a set of subsets (`SubsetsBySteps`). `MapThenSumSet` chooses one
recursive function on the subsets; `TableExists` shows that there is one, and
`TotalFromTable` that the one chosen holds the sum of every subset. A bound on
every amount is then one on the totals (`TotalsWithin`), and totals of hundredths
are hundredths (`TotalTens`), which is why cutting the sum of the slices again
loses nothing but digits before the point.

Only model-checked.

* Liveness: `CallsEnd`, `WritesLand`, `MainComesBack`, `RefreshEnds`, `WritesEnd`,
  `GetsEnd`, `TapsEnd`. Fairness and `ENABLED` are out of its reach.
* That the fairness of the detailed specifications gives that of the abstract
  ones is not claimed: `Portfolio` and `WriteQueue` are refined as to safety.

## 5. Plan

Done, in this order: `Portfolio` and `PortfolioStore`, its first proofs,
`CoinsList`, `Wallet` and a first theorem about it, `WriteQueue` and
`WriteStream`, `DocumentGet`, `Session`, `Credentials`, `Valuation`, `CoinAdd`; then
the proofs of `WriteStream`, `Credentials`, `CoinAdd`, `Wallet`, `Session`,
`DocumentGet`, `PortfolioStore`, `CoinsList` and `Valuation`, and the exact cause of
the two findings. Left is one composition: `Wallet` over `PortfolioStore` with two
devices, in place of an account that only this wallet changes.

## 6. Not modelled

* Coin details and the interface elements: they show what they are given and
  keep no state that changes. Layout, appearance, labels, the keyboard.
* The regular expressions of `ValidationProvider`, by whose outcome alone texts
  are told apart; failures of the keychain.
* `APICaller.getAllCryptoData`, which nothing calls. `SignInPresenter` beyond
  the navigation.
* Of the Firestore client everything the app does not use: queries, listeners
  that stay, transactions, bundles, limbo documents, garbage collection of the
  cache, several targets. Of FIRAuth the providers other than password,
  multi-factor, links and its storage.
* The other pods (gRPC, BoringSSL, abseil, leveldb, Realm, Charts, ...). Realm is
  linked but used by no source of the app. These pods are nearly all of the
  lines of C, C++ and Objective-C in the repository; the app itself is some sixty
  Swift files, and the modules stay with what it calls.
