------------------------------ MODULE CoinsList ------------------------------
(***************************************************************************)
(* The screen of all coins: CoinsListViewPresenter, its table, and the      *)
(* requests of APICaller behind it.                                         *)
(*                                                                         *)
(* Two threads work on the same lists without a lock.  The main thread runs *)
(* the handlers of the user's gestures and the reloads of the table; the    *)
(* delegate queue of URLSession runs the answers, one at a time.  Each       *)
(* assignment to viewData is two steps here, the store and the didSet that  *)
(* follows it, so that the other thread can come between them.              *)
(*                                                                         *)
(* Data.  An answer brings a block of rows: a page of the market in some    *)
(* order, or the coins found for a text.  A block stands for its rows, so   *)
(* a list is a sequence of blocks and the last row belongs to the last one. *)
(*                                                                         *)
(* An append reads the list, and writes it back in a later step.  Two       *)
(* threads at the list at once may also end the program: see Trap.          *)
(***************************************************************************)
EXTENDS Integers, Sequences, SequencesExt

CONSTANTS
    TypeOfSort,   \* the orders a user can choose
    marketCap,    \* the order the screen starts with
    Query,        \* the texts a user searches
    None,         \* no order saved yet
    LastPage,     \* the page after which no other is asked (58 in the code)
    MaxRequests,  \* bound: requests waiting for an answer
    MaxGestures,  \* bound: gestures of the user
    LookupsFail   \* whether the look-up of a text may end without a word to
                  \* the loop that waits for it

ASSUME SortAssumption == marketCap \in TypeOfSort /\ None \notin TypeOfSort
ASSUME PageAssumption == LastPage \in Nat \ {0}
ASSUME QueryAssumption == Query \cap Nat = {}
ASSUME BoundAssumption == MaxRequests \in Nat \ {0} /\ MaxGestures \in Nat
                         /\ LookupsFail \in BOOLEAN

VARIABLES
    isSearching,           \* the list holds the answer to a search
    numberOfPage,          \* the last page asked for
    viewData,              \* the list
    tempViewData,          \* the list that Cancel brings back
    chosenTypeOfSort,
    tempChosenTypeOfSort,  \* the order that Cancel brings back, or None
    active,                \* the search bar is open
    main,                  \* what the main thread has yet to do of a handler
    background,            \* what the delegate queue has yet to do of an answer
    requests,              \* requests sent and not answered
    lookup,                \* the look-up a search waits for
    rows,                  \* the rows the table counts on
    reload,                \* a reload of the table is queued on the main thread
    refreshing,            \* the refresh control spins
    gestures,              \* gestures made: see MaxGestures
    calm                   \* history: see Quiet

vars == <<isSearching, numberOfPage, viewData, tempViewData, chosenTypeOfSort,
          tempChosenTypeOfSort, active, main, background, requests, lookup,
          rows, reload, refreshing, gestures, calm>>

-----------------------------------------------------------------------------
Block == [sort: TypeOfSort, part: (1..LastPage) \cup Query]

\* A request names the block that its answer brings.
PageRequest(sort, n) == [sort |-> sort, part |-> n]
SearchRequest(sort, text) == [sort |-> sort, part |-> text]

\* The steps of a thread.
Store(list) == [op |-> "store", list |-> list]        \* viewData = list
Keep(old) == [op |-> "keep", list |-> old]            \* its didSet
BeginSearch == [op |-> "search", value |-> TRUE]     \* isSearching = true
EndSearch == [op |-> "search", value |-> FALSE]      \* isSearching = false
LookUp == [op |-> "lookup"]                           \* getIDs, waited for
Ask(request) == [op |-> "ask", request |-> request]

Reset(sort) == <<Store(<<>>), Ask(PageRequest(sort, 1))>>

FindText(sort, text) == <<LookUp, Ask(SearchRequest(sort, text))>>

-----------------------------------------------------------------------------
\* Nothing asked before is still under way.
Settled == requests = <<>> /\ background = <<>>

\* History.  calm says that the list can be trusted: since it was last asked
\* for from page 1 with nothing else under way, no answer was lost or came
\* back empty, and no gesture came before the answer to the one before it.
Quiet(condition) == calm' = (calm /\ Settled /\ condition)

Init ==
    /\ isSearching = FALSE
    /\ numberOfPage = 1
    /\ viewData = <<>>
    /\ tempViewData = <<>>
    /\ chosenTypeOfSort = marketCap
    /\ tempChosenTypeOfSort = None
    /\ active = FALSE
    /\ main = Reset(marketCap)
    /\ background = <<>>
    /\ requests = <<>>
    /\ lookup = "none"
    /\ rows = 0
    /\ reload = FALSE
    /\ refreshing = FALSE
    /\ gestures = 0
    /\ calm = TRUE

-----------------------------------------------------------------------------
(* Gestures.  Each is a handler that the main thread starts when it is free. *)

Free ==
    /\ main = <<>>
    /\ Len(requests) < MaxRequests
    /\ gestures < MaxGestures
    /\ gestures' = gestures + 1

lists == <<viewData, tempViewData, isSearching>>
engine == <<background, requests, lookup, rows, reload>>

\* Pull to refresh.
Refresh ==
    /\ Free
    /\ refreshing' = TRUE
    /\ IF isSearching
       THEN /\ \E text \in Query :
                   main' = <<Store(<<>>)>> \o FindText(chosenTypeOfSort, text)
            /\ Quiet(TRUE)
            /\ UNCHANGED numberOfPage
       ELSE /\ main' = Reset(chosenTypeOfSort)
            /\ calm' = Settled
            /\ numberOfPage' = 1
    /\ UNCHANGED <<lists, engine, chosenTypeOfSort, tempChosenTypeOfSort, active>>

\* A row of the picker: the list is asked for again, unless nothing changes.
PickSort(sort) ==
    /\ Free
    /\ chosenTypeOfSort' = sort
    /\ \/ /\ isSearching
          /\ \E text \in Query : main' = <<Store(<<>>)>> \o FindText(sort, text)
          /\ Quiet(TRUE)
          /\ UNCHANGED numberOfPage
       \/ /\ ~isSearching
          /\ sort # chosenTypeOfSort
          /\ numberOfPage' = 1
          /\ main' = Reset(sort)
          /\ calm' = Settled
       \/ /\ ~isSearching
          /\ sort = chosenTypeOfSort
          /\ UNCHANGED <<main, numberOfPage, calm>>
    /\ UNCHANGED <<lists, engine, tempChosenTypeOfSort, active, refreshing>>

\* Variant: the order is not saved.
BeginEditingForgets ==
    /\ Free
    /\ active' = TRUE
    /\ calm' = (calm /\ (isSearching => tempChosenTypeOfSort = chosenTypeOfSort))
    /\ UNCHANGED <<lists, engine, main, numberOfPage, chosenTypeOfSort,
                   tempChosenTypeOfSort, refreshing>>

\* The search bar takes the focus, at first or again.
BeginEditing ==
    /\ Free
    /\ active' = TRUE
    /\ tempChosenTypeOfSort' = chosenTypeOfSort
    /\ calm' = (calm /\ (isSearching => tempChosenTypeOfSort = chosenTypeOfSort))
    /\ UNCHANGED <<lists, engine, main, numberOfPage, chosenTypeOfSort, refreshing>>

\* Variant: the search is on before the list is emptied.
SearchFlagFirst(text) ==
    /\ Free
    /\ active
    /\ main' = <<BeginSearch, Store(<<>>)>> \o FindText(chosenTypeOfSort, text)
    /\ Quiet(isSearching \/ tempChosenTypeOfSort = chosenTypeOfSort)
    /\ UNCHANGED <<lists, engine, numberOfPage, chosenTypeOfSort,
                   tempChosenTypeOfSort, active, refreshing>>

\* The search key.
Search(text) ==
    /\ Free
    /\ active
    /\ main' = <<Store(<<>>), BeginSearch>> \o FindText(chosenTypeOfSort, text)
    /\ Quiet(isSearching \/ tempChosenTypeOfSort = chosenTypeOfSort)
    /\ UNCHANGED <<lists, engine, numberOfPage, chosenTypeOfSort,
                   tempChosenTypeOfSort, active, refreshing>>

\* Cancel: the list kept before the search, then the order kept before it,
\* then the end of the search.  The order is restored first by its didSet,
\* which asks for the list again when no search is on and the order differs.
Cancel ==
    LET sort == tempChosenTypeOfSort
        again == sort # None /\ ~isSearching /\ sort # chosenTypeOfSort
    IN  /\ Free
        /\ active
        /\ active' = FALSE
        /\ chosenTypeOfSort' = IF sort = None THEN chosenTypeOfSort ELSE sort
        /\ numberOfPage' = IF again THEN 1 ELSE numberOfPage
        /\ main' = (IF tempViewData # <<>> THEN <<Store(tempViewData)>> ELSE <<>>)
                       \o (IF again THEN Reset(sort) ELSE <<>>)
                       \o (IF sort = None THEN <<>> ELSE <<EndSearch>>)
        /\ calm' = (Settled /\ (again \/ (calm /\ isSearching)))
        /\ UNCHANGED <<lists, engine, tempChosenTypeOfSort, refreshing>>

\* The last row is displayed: the next page is asked for.
DisplayLastRow ==
    /\ Free
    /\ viewData # <<>>
    /\ Len(viewData) <= rows
    /\ ~isSearching
    /\ numberOfPage < LastPage
    /\ numberOfPage' = numberOfPage + 1
    /\ main' = <<Ask(PageRequest(chosenTypeOfSort, numberOfPage + 1))>>
    /\ Quiet(TRUE)
    /\ UNCHANGED <<lists, engine, chosenTypeOfSort, tempChosenTypeOfSort,
                   active, refreshing>>

Gestures ==
    \/ Refresh
    \/ \E sort \in TypeOfSort : PickSort(sort)
    \/ BeginEditing
    \/ \E text \in Query : Search(text)
    \/ Cancel
    \/ DisplayLastRow

-----------------------------------------------------------------------------
(* The main thread goes on with its handler. *)

Does(thread, op) == thread # <<>> /\ Head(thread).op = op

gesture == <<numberOfPage, chosenTypeOfSort, tempChosenTypeOfSort, active, gestures>>

MainStore ==
    /\ Does(main, "store")
    /\ viewData' = Head(main).list
    /\ main' = <<Keep(viewData)>> \o Tail(main)
    /\ UNCHANGED <<gesture, engine, tempViewData, isSearching, refreshing, calm>>

\* Variant: the table is reloaded only outside a search.
KeptSilently(old) ==
    /\ reload' = (reload \/ ~isSearching)
    /\ tempViewData' = IF isSearching THEN tempViewData ELSE old

\* The didSet of viewData, on either thread.
Kept(old) ==
    /\ reload' = TRUE
    /\ tempViewData' = IF isSearching THEN tempViewData ELSE old

MainKeep ==
    /\ Does(main, "keep")
    /\ Kept(Head(main).list)
    /\ main' = Tail(main)
    /\ UNCHANGED <<gesture, background, requests, lookup, rows, viewData,
                   isSearching, refreshing, calm>>

MainSetSearching ==
    /\ Does(main, "search")
    /\ isSearching' = Head(main).value
    /\ main' = Tail(main)
    /\ UNCHANGED <<gesture, engine, viewData, tempViewData, refreshing, calm>>

\* getIDs is sent and its answer is waited for in a loop; a text that makes no
\* URL sends nothing, and the handler ends there.
MainLookUp ==
    /\ Does(main, "lookup")
    /\ \/ /\ lookup = "none"
          /\ lookup' = "asked"
          /\ UNCHANGED main
       \/ /\ lookup = "none"
          /\ main' = <<>>
          /\ UNCHANGED lookup
       \/ /\ lookup = "answered"
          /\ lookup' = "none"
          /\ main' = Tail(main)
    /\ UNCHANGED <<gesture, lists, background, requests, rows, reload,
                   refreshing, calm>>

MainAsk ==
    /\ Does(main, "ask")
    /\ requests' = Append(requests, Head(main).request)
    /\ main' = Tail(main)
    /\ UNCHANGED <<gesture, lists, background, lookup, rows, reload, refreshing, calm>>

MainStep == MainStore \/ MainKeep \/ MainSetSearching \/ MainLookUp \/ MainAsk

\* The reload that the didSets queued; several of them act as one.
Reload ==
    /\ main = <<>>
    /\ reload
    /\ reload' = FALSE
    /\ rows' = Len(viewData)
    /\ refreshing' = FALSE
    /\ UNCHANGED <<gesture, lists, main, background, requests, lookup, calm>>

-----------------------------------------------------------------------------
(* The delegate queue, and the answers that reach it in any order. *)

\* Variant: an answer that cannot be decoded does not end the wait.
LookupAnswerMaybe ==
    /\ lookup = "asked"
    /\ background = <<>>
    /\ lookup' \in {"answered", "dropped"}
    /\ UNCHANGED <<gesture, lists, main, background, requests, rows, reload,
                   refreshing, calm>>

\* The answer to a look-up, whether or not it can be decoded.
LookupAnswer ==
    /\ lookup = "asked"
    /\ background = <<>>
    /\ lookup' = "answered"
    /\ UNCHANGED <<gesture, lists, main, background, requests, rows, reload,
                   refreshing, calm>>

\* A look-up that fails in transport returns before the completion: the main
\* thread waits for ever.
LookupLost ==
    /\ LookupsFail
    /\ lookup = "asked"
    /\ lookup' = "lost"
    /\ UNCHANGED <<gesture, lists, main, background, requests, rows, reload,
                   refreshing, calm>>

\* An answer: a page is appended to the list as it is now, the coins found
\* replace it.  Every coin may be dropped on the way, for want of its image.
Answer(i) ==
    /\ background = <<>>
    /\ \E found \in {<<requests[i]>>, <<>>} :
           /\ background' = <<Store(IF requests[i].part \in Query
                                    THEN found ELSE viewData \o found)>>
           /\ calm' = (calm /\ found # <<>>)
    /\ requests' = RemoveAt(requests, i)
    /\ UNCHANGED <<gesture, lists, main, lookup, rows, reload, refreshing>>

\* A request that fails, or whose answer cannot be decoded, brings nothing.
Lose(i) ==
    /\ requests' = RemoveAt(requests, i)
    /\ calm' = FALSE
    /\ UNCHANGED <<gesture, lists, main, background, lookup, rows, reload, refreshing>>

BackgroundStore ==
    /\ Does(background, "store")
    /\ viewData' = Head(background).list
    /\ background' = <<Keep(viewData)>>
    /\ UNCHANGED <<gesture, main, requests, lookup, rows, reload, tempViewData,
                   isSearching, refreshing, calm>>

BackgroundKeep ==
    /\ Does(background, "keep")
    /\ Kept(Head(background).list)
    /\ background' = <<>>
    /\ UNCHANGED <<gesture, main, requests, lookup, rows, viewData, isSearching,
                   refreshing, calm>>

BackgroundStep == BackgroundStore \/ BackgroundKeep

-----------------------------------------------------------------------------
\* The end of the program, and the screen as it is loaded next.  Either a row
\* that the list no longer has is displayed or tapped, and its index is out of
\* range; or both threads write the list at once.
Trap ==
    /\ \/ main = <<>> /\ rows > Len(viewData)
       \/ Does(main, "store") /\ Does(background, "store")
    /\ isSearching' = FALSE /\ numberOfPage' = 1
    /\ viewData' = <<>> /\ tempViewData' = <<>>
    /\ chosenTypeOfSort' = marketCap /\ tempChosenTypeOfSort' = None
    /\ active' = FALSE /\ refreshing' = FALSE /\ calm' = TRUE
    /\ main' = Reset(marketCap) /\ background' = <<>>
    /\ requests' = <<>> /\ lookup' = "none"
    /\ rows' = 0 /\ reload' = FALSE
    /\ UNCHANGED gestures

Next ==
    \/ Gestures
    \/ MainStep
    \/ Reload
    \/ LookupAnswer
    \/ LookupLost
    \/ \E i \in DOMAIN requests : Answer(i) \/ Lose(i)
    \/ BackgroundStep
    \/ Trap

Spec == Init /\ [][Next]_vars

\* The main thread goes on with a handler, the delegate queue with an answer,
\* and a look-up that was asked is answered.  The main queue serves its blocks
\* in turn with the gestures, so that a queued reload is not passed over for
\* ever.
FairSpec ==
    /\ Spec
    /\ WF_vars(MainStep)
    /\ WF_vars(BackgroundStep)
    /\ WF_vars(LookupAnswer)
    /\ SF_vars(Reload)

-----------------------------------------------------------------------------
Steps ==
    [op: {"store", "keep"}, list: Seq(Block)] \cup [op: {"search"}, value: BOOLEAN]
        \cup [op: {"lookup"}] \cup [op: {"ask"}, request: Block]

\* The lists hold blocks, and a handler or an answer only steps it can do.
TypeOK ==
    /\ isSearching \in BOOLEAN /\ active \in BOOLEAN /\ reload \in BOOLEAN
    /\ refreshing \in BOOLEAN /\ calm \in BOOLEAN
    /\ numberOfPage \in 1..LastPage
    /\ viewData \in Seq(Block) /\ tempViewData \in Seq(Block)
    /\ chosenTypeOfSort \in TypeOfSort
    /\ tempChosenTypeOfSort \in TypeOfSort \cup {None}
    /\ main \in Seq(Steps)
    /\ background \in Seq(Steps) /\ Len(background) <= 1
    /\ requests \in Seq(Block) /\ Len(requests) <= MaxRequests
    /\ lookup \in {"none", "asked", "answered", "lost"}
    /\ rows \in Nat /\ gestures \in 0..MaxGestures

\* The table never keeps a number of rows that is not the list's without a
\* reload on its way: either it is queued, or the didSet that queues it is the
\* next step of the thread that changed the list.
RowsCatchUp ==
    rows # Len(viewData) => reload \/ Does(main, "keep") \/ Does(background, "keep")

\* When the search bar is closed, the search is over: Cancel finds the order
\* to restore, which it needs to get as far as the end of the search.
NoSearchWithoutBar == ~active /\ main = <<>> => ~isSearching

Pages(sort, n) == [i \in 1..n |-> PageRequest(sort, i)]

\* As long as each gesture waits for the answer to the one before it, no
\* answer is lost, no order is picked between the opening of the search bar
\* and a search, and Cancel ends a search: the list is the pages 1 to
\* numberOfPage in the chosen order, each of them once; during a search it
\* holds what was found, in the chosen order, and the pages that Cancel will
\* restore are complete and in the order that Cancel will restore.
ListInOrder ==
    calm /\ main = <<>> /\ Settled =>
        IF isSearching
        THEN /\ tempViewData = Pages(tempChosenTypeOfSort, numberOfPage)
             /\ viewData \in {<<>>} \cup
                    {<<SearchRequest(chosenTypeOfSort, text)>> : text \in Query}
        ELSE viewData = Pages(chosenTypeOfSort, numberOfPage)

\* Types, a table that catches up, and no search that cannot be cancelled.
ScreenConsistent == TypeOK /\ RowsCatchUp /\ NoSearchWithoutBar

\* The main thread comes back from every handler, unless the look-up it waits
\* for is lost: the loop in buildURLString then turns for ever.
MainComesBack == main # <<>> ~> (main = <<>> \/ lookup = "lost")

\* Pulling to refresh ends, whatever becomes of the answer, unless the main
\* thread is caught in that loop.
RefreshEnds == refreshing ~> (~refreshing \/ lookup = "lost")

=============================================================================
