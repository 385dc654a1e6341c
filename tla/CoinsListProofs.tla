--------------------------- MODULE CoinsListProofs ---------------------------
(***************************************************************************)
(* The invariants of CoinsList, for any orders, texts, number of pages and  *)
(* bounds.                                                                  *)
(*                                                                         *)
(* A handler leaves a list of steps to the main thread, and the delegate    *)
(* queue steps in between.  Each proof therefore says what may be LEFT of a *)
(* handler.  Handler is about every handler: it asks once, and what begins  *)
(* or ends a search is where it should be.  Trusted is about the behaviours *)
(* in which the list can be trusted: there only one of the two threads ever *)
(* has something to do, and the few lists of steps it can have left tell    *)
(* how the list will look when they are done.                               *)
(***************************************************************************)
EXTENDS CoinsList, SequenceTheorems, TLAPS

-----------------------------------------------------------------------------
(* What may be left of a handler.                                           *)

\* A handler asks at most once, and there is room for its request.
AsksOnce(left) ==
    \A i, j \in 1..Len(left) : left[i].op = "ask" /\ left[j].op = "ask" => i = j

HasRoom(left, sent) ==
    \A i \in 1..Len(left) : left[i].op = "ask" => Len(sent) < MaxRequests

\* A search begins under the search bar.  When the bar is closed and the search
\* still on, its end is left to do; a handler that may be cut short at the
\* look-up has no such end to lose.
BeginsUnderBar(left, open) == \A i \in 1..Len(left) : left[i] = BeginSearch => open

EndIsLeft(left, open, searching) ==
    ~open /\ searching => \E i \in 1..Len(left) : left[i] = EndSearch

KeepsItsEnd(left) == \A i, j \in 1..Len(left) : ~(left[i] = LookUp /\ left[j] = EndSearch)

HandlerOf(left, sent, open, searching) ==
    /\ AsksOnce(left)
    /\ HasRoom(left, sent)
    /\ BeginsUnderBar(left, open)
    /\ EndIsLeft(left, open, searching)
    /\ KeepsItsEnd(left)

Handler == HandlerOf(main, requests, active, isSearching)

\* Cancel finds an order to restore whenever the bar is open.
OrderIsSaved == active => tempChosenTypeOfSort # None

ScreenInv == TypeOK /\ RowsCatchUp /\ OrderIsSaved /\ Handler

-----------------------------------------------------------------------------
(* The list, as long as it can be trusted.                                  *)

page == PageRequest(chosenTypeOfSort, numberOfPage)
before == Pages(chosenTypeOfSort, numberOfPage - 1)
whole == Pages(chosenTypeOfSort, numberOfPage)
found(text) == SearchRequest(chosenTypeOfSort, text)

\* These steps are left, after the didSet that may come first.
Left(steps) == main = steps \/ (Does(main, "keep") /\ Tail(main) = steps)

\* The list is to be emptied, and its first page to be asked for.
Emptying ==
    /\ Settled
    /\ numberOfPage = 1
    /\ \/ Left(<<Store(<<>>), Ask(page)>>)
       \/ Left(<<Store(<<>>), Ask(page), EndSearch>>)
       \/ \E list \in Seq(Block) : Left(<<Store(list), Store(<<>>), Ask(page), EndSearch>>)

\* It lacks one page, which is to be asked for.
Asking ==
    /\ Settled
    /\ viewData = before
    /\ Left(<<Ask(page)>>) \/ Left(<<Ask(page), EndSearch>>)

\* That page is asked for, or brought, or in the list.
Paging ==
    /\ Left(<<>>) \/ Left(<<EndSearch>>)
    /\ \/ requests = <<page>> /\ background = <<>> /\ viewData = before
       \/ requests = <<>> /\ background = <<Store(whole)>> /\ viewData = before
       \/ /\ requests = <<>> /\ viewData = whole
          /\ background = <<>> \/ Does(background, "keep")

Browsing == ~isSearching /\ (Emptying \/ Asking \/ Paging)

\* A search starts: the pages are kept for Cancel before it is on.
Opening ==
    /\ ~isSearching
    /\ Settled
    /\ tempChosenTypeOfSort = chosenTypeOfSort
    /\ \E text \in Query :
          \/ /\ viewData = whole
             /\ main = <<Store(<<>>), BeginSearch, LookUp, Ask(found(text))>>
          \/ /\ viewData = <<>>
             /\ Does(main, "keep") /\ Head(main).list = whole
             /\ Tail(main) = <<BeginSearch, LookUp, Ask(found(text))>>
          \/ /\ viewData = <<>> /\ tempViewData = whole
             /\ main = <<BeginSearch, LookUp, Ask(found(text))>>

\* The search is on: its list is to be emptied, is empty, or holds what was found.
Clearing ==
    /\ Settled
    /\ \E text \in Query :
          \/ Left(<<Store(<<>>), BeginSearch, LookUp, Ask(found(text))>>)
          \/ Left(<<Store(<<>>), LookUp, Ask(found(text))>>)

Finding ==
    /\ Settled
    /\ viewData = <<>>
    /\ \E text \in Query :
          \/ Left(<<BeginSearch, LookUp, Ask(found(text))>>)
          \/ Left(<<LookUp, Ask(found(text))>>)
          \/ Left(<<Ask(found(text))>>)

Found ==
    /\ Left(<<>>)
    /\ \/ Settled /\ viewData = <<>>
       \/ \E text \in Query :
             \/ requests = <<found(text)>> /\ background = <<>>
             \/ requests = <<>> /\ background = <<Store(<<found(text)>>)>>
             \/ /\ requests = <<>> /\ viewData = <<found(text)>>
                /\ background = <<>> \/ Does(background, "keep")

Searching ==
    /\ isSearching
    /\ tempChosenTypeOfSort # None
    /\ tempViewData = Pages(tempChosenTypeOfSort, numberOfPage)
    /\ Clearing \/ Finding \/ Found

\* Cancel brings the pages back, then the search is over.
Closing ==
    /\ isSearching
    /\ Settled
    /\ tempChosenTypeOfSort = chosenTypeOfSort
    /\ \/ Left(<<Store(whole), EndSearch>>)
       \/ viewData = whole /\ Left(<<EndSearch>>)

Trusted == calm => Browsing \/ Opening \/ Searching \/ Closing


-----------------------------------------------------------------------------
(* Lists of steps.                                                          *)

\* A list put behind another, entry by entry.
LEMMA Joined ==
  ASSUME NEW S, NEW s \in Seq(S), NEW t \in Seq(S), NEW u \in Seq(S),
         Len(u) = Len(s) + Len(t),
         \A i \in 1..Len(s) : u[i] = s[i],
         \A i \in 1..Len(t) : u[Len(s) + i] = t[i]
  PROVE  s \o t = u
<1>1. /\ s \o t \in Seq(S) /\ Len(s \o t) = Len(s) + Len(t)
      /\ \A i \in 1..(Len(s) + Len(t)) :
            (s \o t)[i] = IF i <= Len(s) THEN s[i] ELSE t[i - Len(s)]
      /\ Len(s) \in Nat /\ Len(t) \in Nat
  BY ConcatProperties, LenProperties
<1> DEFINE v == s \o t
<1> HIDE DEF v
<1>2. ASSUME NEW i \in 1..Len(u)
      PROVE  v[i] = u[i]
  <2>1. CASE i <= Len(s)
    BY <1>1, <2>1 DEF v
  <2>2. CASE ~(i <= Len(s))
    <3>1. i - Len(s) \in 1..Len(t) /\ Len(s) + (i - Len(s)) = i
      BY <1>1, <2>2
    <3>2. v[i] = t[i - Len(s)]
      BY <1>1, <2>2 DEF v
    <3> QED BY <3>1, <3>2
  <2> QED BY <2>1, <2>2
<1> QED BY <1>1, <1>2, SeqEqual DEF v

\* Short lists put one behind the other.
LEMMA OneAndOne ==
  ASSUME NEW a, NEW b
  PROVE  <<a>> \o <<b>> = <<a, b>>
<1> DEFINE S == {a, b}
           s == <<a>>
           t == <<b>>
           u == <<a, b>>
<1>1. s \in Seq(S) /\ t \in Seq(S) /\ u \in Seq(S)
  OBVIOUS
<1>2. Len(s) = 1 /\ Len(t) = 1 /\ Len(u) = 2
  OBVIOUS
<1>3. /\ \A i \in 1..1 : u[i] = s[i]
      /\ \A i \in 1..1 : u[1 + i] = t[i]
  OBVIOUS
<1> HIDE DEF S, s, t, u
<1>4. /\ Len(u) = Len(s) + Len(t)
      /\ \A i \in 1..Len(s) : u[i] = s[i]
      /\ \A i \in 1..Len(t) : u[Len(s) + i] = t[i]
  BY <1>2, <1>3
<1>5. s \o t = u
  BY <1>1, <1>4, Joined
<1> QED BY <1>5 DEF s, t, u

LEMMA OneAndTwo ==
  ASSUME NEW a, NEW b, NEW c
  PROVE  <<a>> \o <<b, c>> = <<a, b, c>>
<1> DEFINE S == {a, b, c}
           s == <<a>>
           t == <<b, c>>
           u == <<a, b, c>>
<1>1. s \in Seq(S) /\ t \in Seq(S) /\ u \in Seq(S)
  OBVIOUS
<1>2. Len(s) = 1 /\ Len(t) = 2 /\ Len(u) = 3
  OBVIOUS
<1>3. /\ \A i \in 1..1 : u[i] = s[i]
      /\ \A i \in 1..2 : u[1 + i] = t[i]
  OBVIOUS
<1> HIDE DEF S, s, t, u
<1>4. /\ Len(u) = Len(s) + Len(t)
      /\ \A i \in 1..Len(s) : u[i] = s[i]
      /\ \A i \in 1..Len(t) : u[Len(s) + i] = t[i]
  BY <1>2, <1>3
<1>5. s \o t = u
  BY <1>1, <1>4, Joined
<1> QED BY <1>5 DEF s, t, u

LEMMA TwoAndOne ==
  ASSUME NEW a, NEW b, NEW c
  PROVE  <<a, b>> \o <<c>> = <<a, b, c>>
<1> DEFINE S == {a, b, c}
           s == <<a, b>>
           t == <<c>>
           u == <<a, b, c>>
<1>1. s \in Seq(S) /\ t \in Seq(S) /\ u \in Seq(S)
  OBVIOUS
<1>2. Len(s) = 2 /\ Len(t) = 1 /\ Len(u) = 3
  OBVIOUS
<1>3. /\ \A i \in 1..2 : u[i] = s[i]
      /\ \A i \in 1..1 : u[2 + i] = t[i]
  OBVIOUS
<1> HIDE DEF S, s, t, u
<1>4. /\ Len(u) = Len(s) + Len(t)
      /\ \A i \in 1..Len(s) : u[i] = s[i]
      /\ \A i \in 1..Len(t) : u[Len(s) + i] = t[i]
  BY <1>2, <1>3
<1>5. s \o t = u
  BY <1>1, <1>4, Joined
<1> QED BY <1>5 DEF s, t, u

LEMMA TwoAndTwo ==
  ASSUME NEW a, NEW b, NEW c, NEW d
  PROVE  <<a, b>> \o <<c, d>> = <<a, b, c, d>>
<1> DEFINE S == {a, b, c, d}
           s == <<a, b>>
           t == <<c, d>>
           u == <<a, b, c, d>>
<1>1. s \in Seq(S) /\ t \in Seq(S) /\ u \in Seq(S)
  OBVIOUS
<1>2. Len(s) = 2 /\ Len(t) = 2 /\ Len(u) = 4
  OBVIOUS
<1>3. /\ \A i \in 1..2 : u[i] = s[i]
      /\ \A i \in 1..2 : u[2 + i] = t[i]
  OBVIOUS
<1> HIDE DEF S, s, t, u
<1>4. /\ Len(u) = Len(s) + Len(t)
      /\ \A i \in 1..Len(s) : u[i] = s[i]
      /\ \A i \in 1..Len(t) : u[Len(s) + i] = t[i]
  BY <1>2, <1>3
<1>5. s \o t = u
  BY <1>1, <1>4, Joined
<1> QED BY <1>5 DEF s, t, u

LEMMA ThreeAndOne ==
  ASSUME NEW a, NEW b, NEW c, NEW d
  PROVE  <<a, b, c>> \o <<d>> = <<a, b, c, d>>
<1> DEFINE S == {a, b, c, d}
           s == <<a, b, c>>
           t == <<d>>
           u == <<a, b, c, d>>
<1>1. s \in Seq(S) /\ t \in Seq(S) /\ u \in Seq(S)
  OBVIOUS
<1>2. Len(s) = 3 /\ Len(t) = 1 /\ Len(u) = 4
  OBVIOUS
<1>3. /\ \A i \in 1..3 : u[i] = s[i]
      /\ \A i \in 1..1 : u[3 + i] = t[i]
  OBVIOUS
<1> HIDE DEF S, s, t, u
<1>4. /\ Len(u) = Len(s) + Len(t)
      /\ \A i \in 1..Len(s) : u[i] = s[i]
      /\ \A i \in 1..Len(t) : u[Len(s) + i] = t[i]
  BY <1>2, <1>3
<1>5. s \o t = u
  BY <1>1, <1>4, Joined
<1> QED BY <1>5 DEF s, t, u

LEMMA WithNone ==
  ASSUME NEW a, NEW b
  PROVE  /\ <<>> \o <<a>> = <<a>> /\ <<a>> \o <<>> = <<a>>
         /\ <<>> \o <<a, b>> = <<a, b>> /\ <<>> \o <<>> = <<>>
<1>1. <<>> \o <<a>> = <<a>> /\ <<a>> \o <<>> = <<a>>
  OBVIOUS
<1>2. <<>> \o <<a, b>> = <<a, b>>
  OBVIOUS
<1>3. <<>> \o <<>> = <<>>
  BY EmptySeq, ConcatProperties
<1> QED BY <1>1, <1>2, <1>3

\* What is left after the first step of a short list.
LEMMA Tails ==
  ASSUME NEW a, NEW b, NEW c, NEW d
  PROVE  /\ Head(<<a>>) = a /\ Tail(<<a>>) = <<>> /\ <<a>> # <<>>
         /\ Head(<<a, b>>) = a /\ Tail(<<a, b>>) = <<b>> /\ <<a, b>> # <<>>
         /\ Head(<<a, b, c>>) = a /\ Tail(<<a, b, c>>) = <<b, c>> /\ <<a, b, c>> # <<>>
         /\ Head(<<a, b, c, d>>) = a /\ Tail(<<a, b, c, d>>) = <<b, c, d>>
         /\ <<a, b, c, d>> # <<>>
OBVIOUS

\* A step put before the others.
LEMMA Before ==
  ASSUME NEW S, NEW s \in Seq(S), NEW a \in S
  PROVE  /\ <<a>> \o s \in Seq(S) /\ <<a>> \o s # <<>>
         /\ Head(<<a>> \o s) = a /\ Tail(<<a>> \o s) = s
         /\ Len(<<a>> \o s) = Len(s) + 1 /\ (<<a>> \o s)[1] = a
         /\ \A i \in 1..Len(s) : (<<a>> \o s)[i + 1] = s[i]
<1>1. <<a>> \in Seq(S) /\ Len(<<a>>) = 1 /\ <<a>>[1] = a /\ Len(s) \in Nat
  OBVIOUS
<1>2. Head(<<a>> \o s) = a
  OBVIOUS
<1>3. Tail(<<a>> \o s) = s
  OBVIOUS
<1> DEFINE t == <<a>> \o s
<1>4. /\ t \in Seq(S) /\ Len(t) = Len(<<a>>) + Len(s)
      /\ \A i \in 1..(Len(<<a>>) + Len(s)) :
            t[i] = IF i <= Len(<<a>>) THEN <<a>>[i] ELSE s[i - Len(<<a>>)]
  BY <1>1, ConcatProperties
<1> HIDE DEF t
<1>5. Len(t) = Len(s) + 1 /\ t[1] = a
  BY <1>1, <1>4
<1>6. ASSUME NEW i \in 1..Len(s)
      PROVE  t[i + 1] = s[i]
  <2>1. i + 1 \in 1..(1 + Len(s)) /\ ~(i + 1 <= 1) /\ (i + 1) - 1 = i
    BY <1>1
  <2> QED BY <1>1, <1>4, <2>1
<1>7. t # <<>>
  BY <1>1, <1>4, <1>5, EmptySeq
<1> QED BY <1>2, <1>3, <1>4, <1>5, <1>6, <1>7 DEF t

\* A request or a block removed leaves the others.
LEMMA RemovedTyped ==
  ASSUME NEW S, NEW s \in Seq(S), NEW i \in 1..Len(s)
  PROVE  RemoveAt(s, i) \in Seq(S) /\ Len(RemoveAt(s, i)) = Len(s) - 1
<1> DEFINE a == SubSeq(s, 1, i - 1)
           b == SubSeq(s, i + 1, Len(s))
<1>1. Len(s) \in Nat /\ \A j \in 1..Len(s) : s[j] \in S
  BY LenProperties, ElementOfSeq
<1>2. a \in Seq(S) /\ Len(a) = i - 1
  <2>1. 1 \in Int /\ i - 1 \in Int /\ \A j \in 1..(i - 1) : s[j] \in S
    BY <1>1
  <2>2. a \in Seq(S) /\ Len(a) = IF 1 <= i - 1 THEN (i - 1) - 1 + 1 ELSE 0
    BY <2>1, SubSeqProperties
  <2> HIDE DEF a
  <2> QED BY <2>2, <1>1
<1>3. b \in Seq(S) /\ Len(b) = Len(s) - i
  <2>1. i + 1 \in Int /\ Len(s) \in Int /\ \A j \in (i + 1)..Len(s) : s[j] \in S
    BY <1>1
  <2>2. b \in Seq(S) /\ Len(b) = IF i + 1 <= Len(s) THEN Len(s) - (i + 1) + 1 ELSE 0
    BY <2>1, SubSeqProperties
  <2> HIDE DEF b
  <2> QED BY <2>2, <1>1
<1>4. a \o b \in Seq(S) /\ Len(a \o b) = Len(a) + Len(b)
  BY <1>2, <1>3, ConcatProperties
<1>5. RemoveAt(s, i) = a \o b
  BY DEF RemoveAt
<1> HIDE DEF a, b
<1>6. Len(a) + Len(b) = Len(s) - 1
  BY <1>1, <1>2, <1>3
<1> QED BY <1>4, <1>5, <1>6

\* The only request removed leaves none.
LEMMA RemovedOnly ==
  ASSUME NEW S, NEW a \in S
  PROVE  RemoveAt(<<a>>, 1) = <<>>
<1> DEFINE s == <<a>>
<1>1. s \in Seq(S) /\ Len(s) = 1
  OBVIOUS
<1> HIDE DEF s
<1>2. 1 \in 1..Len(s)
  BY <1>1
<1>3. RemoveAt(s, 1) \in Seq(S) /\ Len(RemoveAt(s, 1)) = Len(s) - 1
  BY <1>1, <1>2, RemovedTyped
<1>4. Len(s) - 1 = 0
  BY <1>1
<1> QED BY <1>3, <1>4, EmptySeq DEF s


-----------------------------------------------------------------------------
(* What is left of a handler stays as it should be.                         *)

LEMMA StepNames ==
  ASSUME NEW l, NEW r
  PROVE  /\ Store(l).op = "store" /\ Keep(l).op = "keep" /\ LookUp.op = "lookup"
         /\ BeginSearch.op = "search" /\ EndSearch.op = "search" /\ Ask(r).op = "ask"
         /\ BeginSearch # EndSearch /\ BeginSearch.value = TRUE /\ EndSearch.value = FALSE
BY DEF Store, Keep, LookUp, BeginSearch, EndSearch, Ask

\* The lists of steps that handlers start with.
LEMMA StartLists ==
  ASSUME NEW l, NEW l2, NEW r, NEW sent, Len(sent) < MaxRequests,
         NEW open \in BOOLEAN, NEW searching \in BOOLEAN
  PROVE  /\ open \/ ~searching =>
               /\ HandlerOf(<<>>, sent, open, searching)
               /\ HandlerOf(<<Store(l)>>, sent, open, searching)
               /\ HandlerOf(<<Ask(r)>>, sent, open, searching)
               /\ HandlerOf(<<Store(l), Ask(r)>>, sent, open, searching)
               /\ HandlerOf(<<Store(l), LookUp, Ask(r)>>, sent, open, searching)
         /\ open =>
               HandlerOf(<<Store(l), BeginSearch, LookUp, Ask(r)>>, sent, open, searching)
         /\ HandlerOf(<<EndSearch>>, sent, open, searching)
         /\ HandlerOf(<<Store(l), EndSearch>>, sent, open, searching)
         /\ HandlerOf(<<Store(l), Ask(r), EndSearch>>, sent, open, searching)
         /\ HandlerOf(<<Store(l), Store(l2), Ask(r), EndSearch>>, sent, open, searching)
<1> DEFINE a == Store(l)
           a2 == Store(l2)
           q == Ask(r)
<1>1. /\ a.op = "store" /\ a2.op = "store" /\ LookUp.op = "lookup"
      /\ BeginSearch.op = "search" /\ EndSearch.op = "search" /\ q.op = "ask"
      /\ BeginSearch # EndSearch
  BY StepNames
<1>2. /\ a # BeginSearch /\ a2 # BeginSearch /\ LookUp # BeginSearch /\ q # BeginSearch
      /\ a # LookUp /\ a2 # LookUp /\ BeginSearch # LookUp /\ q # LookUp
      /\ LookUp # EndSearch
  BY <1>1
<1> HIDE DEF a, a2, q
<1> USE DEF HandlerOf, AsksOnce, HasRoom, BeginsUnderBar, EndIsLeft, KeepsItsEnd
<1>3. open \/ ~searching =>
        /\ HandlerOf(<<>>, sent, open, searching)
        /\ HandlerOf(<<a>>, sent, open, searching)
        /\ HandlerOf(<<q>>, sent, open, searching)
  BY <1>1, <1>2
<1>4. open \/ ~searching => HandlerOf(<<a, q>>, sent, open, searching)
  BY <1>1, <1>2
<1>5. open \/ ~searching => HandlerOf(<<a, LookUp, q>>, sent, open, searching)
  BY <1>1, <1>2
<1>6. open => HandlerOf(<<a, BeginSearch, LookUp, q>>, sent, open, searching)
  BY <1>1, <1>2
<1>7. HandlerOf(<<EndSearch>>, sent, open, searching)
  BY <1>1, <1>2
<1>8. HandlerOf(<<a, EndSearch>>, sent, open, searching)
  <2> DEFINE s == <<a, EndSearch>>
  <2>1. s[2] = EndSearch /\ 2 \in 1..Len(s)
    OBVIOUS
  <2>2. \E i \in 1..Len(s) : s[i] = EndSearch
    BY <2>1
  <2> QED BY <1>1, <1>2, <2>2
<1>9. HandlerOf(<<a, q, EndSearch>>, sent, open, searching)
  <2> DEFINE s == <<a, q, EndSearch>>
  <2>1. s[3] = EndSearch /\ 3 \in 1..Len(s)
    OBVIOUS
  <2>2. \E i \in 1..Len(s) : s[i] = EndSearch
    BY <2>1
  <2> QED BY <1>1, <1>2, <2>2
<1>10. HandlerOf(<<a, a2, q, EndSearch>>, sent, open, searching)
  <2> DEFINE s == <<a, a2, q, EndSearch>>
  <2>1. s[4] = EndSearch /\ 4 \in 1..Len(s)
    OBVIOUS
  <2>2. \E i \in 1..Len(s) : s[i] = EndSearch
    BY <2>1
  <2> QED BY <1>1, <1>2, <2>2
<1> QED BY <1>3, <1>4, <1>5, <1>6, <1>7, <1>8, <1>9, <1>10 DEF a, a2, q

\* Entries of what is left, in the list before.
LEMMA TailEntries ==
  ASSUME NEW left \in Seq(Steps), left # <<>>
  PROVE  /\ Tail(left) \in Seq(Steps) /\ Head(left) = left[1] /\ Head(left) \in Steps
         /\ 1 \in 1..Len(left)
         /\ \A i \in 1..Len(Tail(left)) : i + 1 \in 1..Len(left) /\ Tail(left)[i] = left[i + 1]
         /\ \A i \in 1..Len(left) : i = 1 \/ (i - 1 \in 1..Len(Tail(left))
                                              /\ Tail(left)[i - 1] = left[i])
<1>1. /\ Tail(left) \in Seq(Steps) /\ Len(Tail(left)) = Len(left) - 1
      /\ Head(left) = left[1] /\ Head(left) \in Steps
      /\ \A i \in 1..Len(Tail(left)) : Tail(left)[i] = left[i + 1]
      /\ Len(left) \in Nat \ {0}
  BY HeadTailProperties, EmptySeq, LenProperties
<1> DEFINE t == Tail(left)
<1> HIDE DEF t
<1>2. \A i \in 1..Len(t) : i + 1 \in 1..Len(left) /\ t[i] = left[i + 1]
  BY <1>1 DEF t
<1>3. ASSUME NEW i \in 1..Len(left), i # 1
      PROVE  i - 1 \in 1..Len(t) /\ t[i - 1] = left[i]
  <2>1. i - 1 \in 1..Len(t) /\ i - 1 + 1 = i
    BY <1>1, <1>3 DEF t
  <2> QED BY <1>2, <2>1
<1> QED BY <1>1, <1>2, <1>3 DEF t

\* A step that is done is left no more; a search begins or ends with it.
LEMMA StepDone ==
  ASSUME NEW left \in Seq(Steps), left # <<>>, NEW sent, NEW open \in BOOLEAN,
         NEW searching \in BOOLEAN, HandlerOf(left, sent, open, searching),
         NEW sent2, Head(left).op = "ask" \/ sent2 = sent,
         NEW now \in BOOLEAN,
         now = IF Head(left).op = "search" THEN Head(left).value ELSE searching
  PROVE  HandlerOf(Tail(left), sent2, open, now)
<1> DEFINE t == Tail(left)
<1>1. /\ t \in Seq(Steps) /\ Head(left) = left[1] /\ Head(left) \in Steps
      /\ 1 \in 1..Len(left)
      /\ \A i \in 1..Len(t) : i + 1 \in 1..Len(left) /\ t[i] = left[i + 1]
      /\ \A i \in 1..Len(left) : i = 1 \/ (i - 1 \in 1..Len(t) /\ t[i - 1] = left[i])
  BY TailEntries
<1> HIDE DEF t
<1>2. AsksOnce(t)
  <2>1. ASSUME NEW i \in 1..Len(t), NEW j \in 1..Len(t), t[i].op = "ask", t[j].op = "ask"
        PROVE  i = j
    <3>1. /\ i + 1 \in 1..Len(left) /\ j + 1 \in 1..Len(left)
          /\ left[i + 1].op = "ask" /\ left[j + 1].op = "ask"
      BY <1>1, <2>1
    <3>2. \A m, n \in 1..Len(left) : left[m].op = "ask" /\ left[n].op = "ask" => m = n
      BY DEF HandlerOf, AsksOnce
    <3>3. i + 1 = j + 1
      BY <3>1, <3>2
    <3> QED BY <3>3
  <2> QED BY <2>1 DEF AsksOnce
<1>3. HasRoom(t, sent2)
  <2>1. ASSUME NEW i \in 1..Len(t), t[i].op = "ask"
        PROVE  Len(sent2) < MaxRequests
    <3>1. i + 1 # 1 /\ left[i + 1].op = "ask" /\ i + 1 \in 1..Len(left)
      BY <1>1, <2>1
    <3>2. Head(left).op # "ask"
      BY <1>1, <3>1 DEF HandlerOf, AsksOnce
    <3> QED BY <3>1, <3>2 DEF HandlerOf, HasRoom
  <2> QED BY <2>1 DEF HasRoom
<1>4. BeginsUnderBar(t, open)
  BY <1>1 DEF HandlerOf, BeginsUnderBar
<1>5. KeepsItsEnd(t)
  <2>1. SUFFICES ASSUME NEW i \in 1..Len(t), NEW j \in 1..Len(t),
                        t[i] = LookUp, t[j] = EndSearch
                 PROVE  FALSE
    BY DEF KeepsItsEnd
  <2>2. /\ i + 1 \in 1..Len(left) /\ j + 1 \in 1..Len(left)
        /\ left[i + 1] = LookUp /\ left[j + 1] = EndSearch
    BY <1>1, <2>1
  <2> QED BY <2>2 DEF HandlerOf, KeepsItsEnd
<1>6. EndIsLeft(t, open, now)
  <2>1. SUFFICES ASSUME ~open, now PROVE \E i \in 1..Len(t) : t[i] = EndSearch
    BY DEF EndIsLeft
  <2>2. Head(left) # EndSearch
    BY <2>1, StepNames
  <2>3. Head(left).op # "search"
    <3>1. CASE Head(left).op = "search"
      <4>1. Head(left) \in [op: {"search"}, value: BOOLEAN] /\ Head(left).value = TRUE
        BY <1>1, <2>1, <3>1 DEF Steps
      <4>2. Head(left) = BeginSearch
        BY <4>1 DEF BeginSearch
      <4> QED BY <1>1, <2>1, <4>2 DEF HandlerOf, BeginsUnderBar
    <3> QED BY <3>1
  <2>4. PICK i \in 1..Len(left) : left[i] = EndSearch
    BY <2>1, <2>3 DEF HandlerOf, EndIsLeft
  <2>5. i # 1
    BY <1>1, <2>2, <2>4
  <2> QED BY <1>1, <2>4, <2>5
<1> QED BY <1>2, <1>3, <1>4, <1>5, <1>6 DEF HandlerOf, t

\* The store of a list leaves its didSet.
LEMMA StoreDone ==
  ASSUME NEW left \in Seq(Steps), left # <<>>, Head(left).op = "store", NEW old \in Seq(Block),
         NEW sent, NEW open \in BOOLEAN, NEW searching \in BOOLEAN,
         HandlerOf(left, sent, open, searching)
  PROVE  HandlerOf(<<Keep(old)>> \o Tail(left), sent, open, searching)
<1> DEFINE t == Tail(left)
           k == Keep(old)
           n == <<k>> \o t
<1>1. HandlerOf(t, sent, open, searching) /\ t \in Seq(Steps)
  BY StepDone, TailEntries
<1>2. k \in Steps /\ k.op = "keep"
  BY DEF Keep, Steps
<1> HIDE DEF t
<1>3. k # BeginSearch /\ k # EndSearch /\ k # LookUp /\ k.op # "ask"
  BY <1>2, StepNames
<1> HIDE DEF k
<1>4. /\ n \in Seq(Steps) /\ Len(n) = Len(t) + 1 /\ n[1] = k
      /\ \A i \in 1..Len(t) : n[i + 1] = t[i]
      /\ Len(t) \in Nat
  BY <1>1, <1>2, Before, LenProperties
<1> HIDE DEF n
<1>5. /\ \A i \in 1..Len(n) : n[i] = k \/ (i - 1 \in 1..Len(t) /\ n[i] = t[i - 1])
      /\ \A i \in 1..Len(t) : i + 1 \in 1..Len(n)
  <2>1. ASSUME NEW i \in 1..Len(n), i # 1
        PROVE  i - 1 \in 1..Len(t) /\ n[i] = t[i - 1]
    <3>1. i - 1 \in 1..Len(t) /\ (i - 1) + 1 = i
      BY <1>4, <2>1
    <3> QED BY <1>4, <3>1
  <2>2. \A i \in 1..Len(t) : i + 1 \in 1..Len(n)
    BY <1>4
  <2> QED BY <1>4, <2>1, <2>2
<1>6. AsksOnce(n)
  <2>1. ASSUME NEW i \in 1..Len(n), NEW j \in 1..Len(n), n[i].op = "ask", n[j].op = "ask"
        PROVE  i = j
    <3>1. /\ i - 1 \in 1..Len(t) /\ n[i] = t[i - 1]
          /\ j - 1 \in 1..Len(t) /\ n[j] = t[j - 1]
      BY <1>3, <1>5, <2>1
    <3>2. i - 1 = j - 1
      BY <1>1, <2>1, <3>1 DEF HandlerOf, AsksOnce
    <3> QED BY <3>2
  <2> QED BY <2>1 DEF AsksOnce
<1>7. HasRoom(n, sent) /\ BeginsUnderBar(n, open) /\ KeepsItsEnd(n)
  BY <1>1, <1>3, <1>5 DEF HandlerOf, HasRoom, BeginsUnderBar, KeepsItsEnd
<1>8. EndIsLeft(n, open, searching)
  BY <1>1, <1>4, <1>5 DEF HandlerOf, EndIsLeft
<1> QED BY <1>6, <1>7, <1>8 DEF HandlerOf, n, t, k


-----------------------------------------------------------------------------
(* Types.                                                                   *)

LEMMA BlockTypes ==
  ASSUME NEW sort \in TypeOfSort
  PROVE  /\ \A n \in 1..LastPage : PageRequest(sort, n) \in Block
         /\ \A text \in Query : SearchRequest(sort, text) \in Block
BY DEF PageRequest, SearchRequest, Block

LEMMA StepTypes ==
  /\ \A list \in Seq(Block) : Store(list) \in Steps /\ Keep(list) \in Steps
  /\ \A r \in Block : Ask(r) \in Steps
  /\ BeginSearch \in Steps /\ EndSearch \in Steps /\ LookUp \in Steps
  /\ \A s \in Steps :
        /\ s.op \in {"store", "keep"} => s.list \in Seq(Block)
        /\ s.op = "ask" => s.request \in Block
        /\ s.op = "search" => s.value \in BOOLEAN
<1>1. /\ \A list \in Seq(Block) : Store(list) \in Steps /\ Keep(list) \in Steps
      /\ \A r \in Block : Ask(r) \in Steps
      /\ BeginSearch \in Steps /\ EndSearch \in Steps /\ LookUp \in Steps
  BY DEF Steps, Store, Keep, Ask, BeginSearch, EndSearch, LookUp
<1>2. ASSUME NEW s \in Steps
      PROVE  /\ s.op \in {"store", "keep"} => s.list \in Seq(Block)
             /\ s.op = "ask" => s.request \in Block
             /\ s.op = "search" => s.value \in BOOLEAN
  BY DEF Steps
<1> QED BY <1>1, <1>2

LEMMA EmptyIsList == \A S : <<>> \in Seq(S)
OBVIOUS

\* The start of a handler: what the gestures have in common.
LEMMA GestureStarts ==
  ASSUME ScreenInv, Gestures
  PROVE  /\ TypeOK /\ main = <<>> /\ Len(requests) < MaxRequests
         /\ gestures' \in 0..MaxGestures /\ UNCHANGED <<lists, engine>>
         /\ active \/ ~isSearching
<1>1. TypeOK /\ main = <<>> /\ Len(requests) < MaxRequests /\ UNCHANGED <<lists, engine>>
  BY DEF ScreenInv, Gestures, Refresh, PickSort, BeginEditing, Search, Cancel,
         DisplayLastRow, Free, lists, engine
<1>2. gestures' = gestures + 1 /\ gestures < MaxGestures
  BY DEF Gestures, Refresh, PickSort, BeginEditing, Search, Cancel, DisplayLastRow, Free
<1>3. gestures' \in 0..MaxGestures
  BY <1>1, <1>2, BoundAssumption DEF TypeOK
<1>4. active \/ ~isSearching
  <2>1. EndIsLeft(<<>>, active, isSearching)
    BY <1>1 DEF ScreenInv, Handler, HandlerOf
  <2> QED BY <2>1 DEF EndIsLeft
<1> QED BY <1>1, <1>3, <1>4

\* The steps that Cancel leaves.
LEMMA CancelLeaves ==
  ASSUME Cancel
  PROVE  LET sort == tempChosenTypeOfSort
             again == sort # None /\ ~isSearching /\ sort # chosenTypeOfSort
             brings == tempViewData # <<>>
         IN  /\ sort = None /\ brings => main' = <<Store(tempViewData)>>
             /\ sort = None /\ ~brings => main' = <<>>
             /\ sort # None /\ ~again /\ brings => main' = <<Store(tempViewData), EndSearch>>
             /\ sort # None /\ ~again /\ ~brings => main' = <<EndSearch>>
             /\ again /\ ~brings =>
                  main' = <<Store(<<>>), Ask(PageRequest(sort, 1)), EndSearch>>
             /\ again /\ brings =>
                  main' = <<Store(tempViewData), Store(<<>>),
                            Ask(PageRequest(sort, 1)), EndSearch>>
<1> DEFINE sort == tempChosenTypeOfSort
           again == sort # None /\ ~isSearching /\ sort # chosenTypeOfSort
           brings == tempViewData # <<>>
           s == Store(tempViewData)
           e == Store(<<>>)
           q == Ask(PageRequest(sort, 1))
<1>1. main' = (IF brings THEN <<s>> ELSE <<>>) \o (IF again THEN <<e, q>> ELSE <<>>)
                \o (IF sort = None THEN <<>> ELSE <<EndSearch>>)
  BY DEF Cancel, Reset
<1> HIDE DEF s, e, q
<1>2. again => sort # None
  OBVIOUS
<1> HIDE DEF again, brings, sort
<1>3. sort = None /\ brings => main' = <<s>>
  BY <1>1, <1>2, WithNone
<1>4. sort = None /\ ~brings => main' = <<>>
  BY <1>1, <1>2, WithNone
<1>5. sort # None /\ ~again /\ brings => main' = <<s, EndSearch>>
  BY <1>1, WithNone, OneAndOne
<1>6. sort # None /\ ~again /\ ~brings => main' = <<EndSearch>>
  BY <1>1, WithNone
<1>7. again /\ ~brings => main' = <<e, q, EndSearch>>
  BY <1>1, <1>2, WithNone, TwoAndOne
<1>8. again /\ brings => main' = <<s, e, q, EndSearch>>
  <2>1. SUFFICES ASSUME again, brings PROVE main' = <<s, e, q, EndSearch>>
    OBVIOUS
  <2>2. main' = (<<s>> \o <<e, q>>) \o <<EndSearch>>
    BY <1>1, <1>2, <2>1
  <2>3. <<s>> \o <<e, q>> = <<s, e, q>>
    BY OneAndTwo
  <2>4. main' = <<s, e, q>> \o <<EndSearch>>
    BY <2>2, <2>3
  <2> DEFINE f == EndSearch
  <2> HIDE DEF f
  <2>5. <<s, e, q>> \o <<f>> = <<s, e, q, f>>
    BY ThreeAndOne
  <2> QED BY <2>4, <2>5 DEF f
<1> QED BY <1>3, <1>4, <1>5, <1>6, <1>7, <1>8 DEF s, e, q, again, brings, sort


\* A handler starts as it should.
LEMMA GestureKeeps ==
  ASSUME ScreenInv, Gestures
  PROVE  /\ main' \in Seq(Steps)
         /\ HandlerOf(main', requests, active', isSearching)
         /\ active' => tempChosenTypeOfSort' # None
         /\ numberOfPage' \in 1..LastPage
         /\ chosenTypeOfSort' \in TypeOfSort
         /\ tempChosenTypeOfSort' \in TypeOfSort \cup {None}
         /\ active' \in BOOLEAN /\ refreshing' \in BOOLEAN /\ calm' \in BOOLEAN
<1>1. /\ TypeOK /\ main = <<>> /\ Len(requests) < MaxRequests
      /\ active \/ ~isSearching
      /\ active => tempChosenTypeOfSort # None
  BY GestureStarts DEF ScreenInv, OrderIsSaved
<1>2. /\ numberOfPage \in 1..LastPage /\ 1 \in 1..LastPage
      /\ chosenTypeOfSort \in TypeOfSort
      /\ tempChosenTypeOfSort \in TypeOfSort \cup {None}
      /\ active \in BOOLEAN /\ refreshing \in BOOLEAN /\ calm \in BOOLEAN
      /\ isSearching \in BOOLEAN /\ tempViewData \in Seq(Block) /\ None \notin TypeOfSort
  BY <1>1, PageAssumption, SortAssumption DEF TypeOK
<1>3. <<>> \in Seq(Block) /\ <<>> \in Seq(Steps)
  BY EmptyIsList
<1>4. ASSUME NEW sort \in TypeOfSort, NEW text \in Query
      PROVE  /\ Store(<<>>) \in Steps /\ BeginSearch \in Steps /\ LookUp \in Steps
             /\ Ask(SearchRequest(sort, text)) \in Steps
             /\ <<Store(<<>>)>> \o FindText(sort, text)
                  = <<Store(<<>>), LookUp, Ask(SearchRequest(sort, text))>>
             /\ <<Store(<<>>), BeginSearch>> \o FindText(sort, text)
                  = <<Store(<<>>), BeginSearch, LookUp, Ask(SearchRequest(sort, text))>>
  <2>1. /\ Store(<<>>) \in Steps /\ BeginSearch \in Steps /\ LookUp \in Steps
        /\ Ask(SearchRequest(sort, text)) \in Steps
    BY <1>3, StepTypes, BlockTypes
  <2>2. FindText(sort, text) = <<LookUp, Ask(SearchRequest(sort, text))>>
    BY DEF FindText
  <2> DEFINE s == Store(<<>>)
             b == BeginSearch
             l == LookUp
             q == Ask(SearchRequest(sort, text))
  <2> HIDE DEF s, b, l, q
  <2>3. <<s>> \o <<l, q>> = <<s, l, q>> /\ <<s, b>> \o <<l, q>> = <<s, b, l, q>>
    BY OneAndTwo, TwoAndTwo
  <2> QED BY <2>1, <2>2, <2>3 DEF s, b, l, q
<1>5. ASSUME NEW sort \in TypeOfSort, NEW text \in Query, active \/ ~isSearching
      PROVE  /\ <<Store(<<>>)>> \o FindText(sort, text) \in Seq(Steps)
             /\ HandlerOf(<<Store(<<>>)>> \o FindText(sort, text), requests, active, isSearching)
  <2>1. <<Store(<<>>), LookUp, Ask(SearchRequest(sort, text))>> \in Seq(Steps)
    BY <1>4
  <2>2. HandlerOf(<<Store(<<>>), LookUp, Ask(SearchRequest(sort, text))>>,
                  requests, active, isSearching)
    BY <1>1, <1>2, <1>5, StartLists
  <2> QED BY <1>4, <2>1, <2>2
<1>6. ASSUME NEW sort \in TypeOfSort
      PROVE  /\ Reset(sort) = <<Store(<<>>), Ask(PageRequest(sort, 1))>>
             /\ Reset(sort) \in Seq(Steps)
             /\ HandlerOf(Reset(sort), requests, active, isSearching)
  <2>1. Store(<<>>) \in Steps /\ Ask(PageRequest(sort, 1)) \in Steps
    BY <1>2, <1>3, StepTypes, BlockTypes
  <2>2. <<Store(<<>>), Ask(PageRequest(sort, 1))>> \in Seq(Steps)
    BY <2>1
  <2>3. HandlerOf(<<Store(<<>>), Ask(PageRequest(sort, 1))>>, requests, active, isSearching)
    BY <1>1, <1>2, StartLists
  <2> QED BY <2>2, <2>3 DEF Reset
<1>7. HandlerOf(<<>>, requests, active, isSearching)
  BY <1>1, <1>2, StartLists
<1>8. CASE Refresh
  <2>1. /\ UNCHANGED <<chosenTypeOfSort, tempChosenTypeOfSort, active>>
        /\ refreshing' = TRUE
    BY <1>8 DEF Refresh
  <2>2. CASE isSearching
    <3>1. /\ UNCHANGED numberOfPage /\ calm' = (calm /\ Settled /\ TRUE)
          /\ \E text \in Query : main' = <<Store(<<>>)>> \o FindText(chosenTypeOfSort, text)
      BY <1>8, <2>2 DEF Refresh, Quiet
    <3> QED BY <1>1, <1>2, <1>5, <2>1, <3>1
  <2>3. CASE ~isSearching
    <3>1. numberOfPage' = 1 /\ calm' = Settled /\ main' = Reset(chosenTypeOfSort)
      BY <1>8, <2>3 DEF Refresh
    <3> QED BY <1>1, <1>2, <1>6, <2>1, <3>1 DEF Settled
  <2> QED BY <2>2, <2>3
<1>9. CASE \E sort \in TypeOfSort : PickSort(sort)
  <2>1. PICK sort \in TypeOfSort : PickSort(sort)
    BY <1>9
  <2>2. /\ UNCHANGED <<refreshing, tempChosenTypeOfSort, active>>
        /\ chosenTypeOfSort' = sort
    BY <2>1 DEF PickSort
  <2>3. CASE /\ UNCHANGED numberOfPage /\ calm' = (calm /\ Settled /\ TRUE)
             /\ \E text \in Query : main' = <<Store(<<>>)>> \o FindText(sort, text)
    BY <1>1, <1>2, <1>5, <2>2, <2>3
  <2>4. CASE numberOfPage' = 1 /\ main' = Reset(sort) /\ calm' = Settled
    BY <1>1, <1>2, <1>6, <2>2, <2>4 DEF Settled
  <2>5. CASE UNCHANGED <<main, numberOfPage, calm>>
    BY <1>1, <1>2, <1>3, <1>7, <2>2, <2>5
  <2> QED BY <2>1, <2>3, <2>4, <2>5 DEF PickSort, Quiet
<1>10. CASE BeginEditing
  <2>1. /\ active' = TRUE /\ tempChosenTypeOfSort' = chosenTypeOfSort /\ calm' \in BOOLEAN
        /\ UNCHANGED <<main, numberOfPage, chosenTypeOfSort, refreshing>>
    BY <1>10 DEF BeginEditing
  <2>2. HandlerOf(<<>>, requests, active', isSearching)
    BY <1>1, <1>2, <2>1, StartLists
  <2> QED BY <1>1, <1>2, <1>3, <2>1, <2>2
<1>11. CASE \E text \in Query : Search(text)
  <2>1. PICK text \in Query : Search(text)
    BY <1>11
  <2>2. /\ UNCHANGED <<numberOfPage, chosenTypeOfSort, tempChosenTypeOfSort, active, refreshing>>
        /\ calm' \in BOOLEAN /\ active
        /\ main' = <<Store(<<>>), BeginSearch>> \o FindText(chosenTypeOfSort, text)
    BY <2>1 DEF Search, Quiet
  <2>3. main' = <<Store(<<>>), BeginSearch, LookUp, Ask(SearchRequest(chosenTypeOfSort, text))>>
    BY <1>2, <1>4, <2>2
  <2>4. main' \in Seq(Steps)
    BY <1>2, <1>4, <2>3
  <2>5. HandlerOf(<<Store(<<>>), BeginSearch, LookUp, Ask(SearchRequest(chosenTypeOfSort, text))>>,
                  requests, active, isSearching)
    BY <1>1, <1>2, <2>2, StartLists
  <2> QED BY <1>1, <1>2, <2>2, <2>3, <2>4, <2>5
<1>12. CASE Cancel
  <2> DEFINE sort == tempChosenTypeOfSort
             s == Store(tempViewData)
             e == Store(<<>>)
             q == Ask(PageRequest(sort, 1))
  <2>1. /\ active' = FALSE /\ UNCHANGED <<tempChosenTypeOfSort, refreshing>>
        /\ calm' \in BOOLEAN /\ numberOfPage' \in {1, numberOfPage} /\ active
        /\ chosenTypeOfSort' \in TypeOfSort
    BY <1>2, <1>12 DEF Cancel
  <2>2. sort # None /\ sort \in TypeOfSort
    BY <1>1, <1>2, <2>1
  <2>3. \/ main' = <<s, EndSearch>>
        \/ main' = <<EndSearch>>
        \/ main' = <<e, q, EndSearch>>
        \/ main' = <<s, e, q, EndSearch>>
    BY <1>12, <2>2, CancelLeaves
  <2>4. s \in Steps /\ e \in Steps /\ q \in Steps /\ EndSearch \in Steps
    BY <1>2, <1>3, <2>2, StepTypes, BlockTypes
  <2>5. /\ HandlerOf(<<s, EndSearch>>, requests, FALSE, isSearching)
        /\ HandlerOf(<<EndSearch>>, requests, FALSE, isSearching)
        /\ HandlerOf(<<e, q, EndSearch>>, requests, FALSE, isSearching)
        /\ HandlerOf(<<s, e, q, EndSearch>>, requests, FALSE, isSearching)
    BY <1>1, <1>2, StartLists
  <2> HIDE DEF s, e, q
  <2> DEFINE f == EndSearch
  <2> HIDE DEF f
  <2>6. f \in Steps
    BY <2>4 DEF f
  <2>7. /\ <<s, f>> \in Seq(Steps) /\ <<f>> \in Seq(Steps)
        /\ <<e, q, f>> \in Seq(Steps) /\ <<s, e, q, f>> \in Seq(Steps)
    BY <2>4, <2>6
  <2>8. main' \in Seq(Steps)
    BY <2>3, <2>7 DEF f
  <2>9. HandlerOf(main', requests, active', isSearching)
    BY <2>1, <2>3, <2>5
  <2> QED BY <1>2, <2>1, <2>8, <2>9
<1>13. CASE DisplayLastRow
  <2>1. /\ UNCHANGED <<chosenTypeOfSort, tempChosenTypeOfSort, active, refreshing>>
        /\ calm' \in BOOLEAN
        /\ numberOfPage' = numberOfPage + 1 /\ numberOfPage < LastPage
        /\ main' = <<Ask(PageRequest(chosenTypeOfSort, numberOfPage + 1))>>
    BY <1>13 DEF DisplayLastRow, Quiet
  <2>2. numberOfPage + 1 \in 1..LastPage
    BY <1>2, <2>1, PageAssumption
  <2>3. Ask(PageRequest(chosenTypeOfSort, numberOfPage + 1)) \in Steps
    BY <1>2, <2>2, StepTypes, BlockTypes
  <2>4. main' \in Seq(Steps)
    BY <2>1, <2>3
  <2>5. HandlerOf(<<Ask(PageRequest(chosenTypeOfSort, numberOfPage + 1))>>,
                  requests, active, isSearching)
    BY <1>1, <1>2, StartLists
  <2> QED BY <1>1, <1>2, <2>1, <2>2, <2>4, <2>5
<1> QED BY <1>8, <1>9, <1>10, <1>11, <1>12, <1>13 DEF Gestures

LEMMA GestureScreen ==
  ASSUME ScreenInv, Gestures
  PROVE  ScreenInv'
<1>1. /\ TypeOK /\ main = <<>> /\ gestures' \in 0..MaxGestures /\ UNCHANGED <<lists, engine>>
  BY GestureStarts
<1>2. /\ UNCHANGED <<viewData, tempViewData, isSearching>>
      /\ UNCHANGED <<background, requests, lookup, rows, reload>>
  BY <1>1 DEF lists, engine
<1>3. TypeOK'
  BY <1>1, <1>2, GestureKeeps DEF TypeOK
<1>4. RowsCatchUp'
  BY <1>1, <1>2 DEF ScreenInv, RowsCatchUp, Does
<1>5. OrderIsSaved' /\ Handler'
  BY <1>2, GestureKeeps DEF OrderIsSaved, Handler, HandlerOf, AsksOnce, HasRoom,
                            BeginsUnderBar, EndIsLeft, KeepsItsEnd
<1> QED BY <1>3, <1>4, <1>5 DEF ScreenInv


\* The main thread goes on.
LEMMA MainScreen ==
  ASSUME ScreenInv, MainStep
  PROVE  ScreenInv'
<1> DEFINE head == Head(main)
<1>1. /\ TypeOK /\ main \in Seq(Steps) /\ main # <<>> /\ UNCHANGED gesture
      /\ HandlerOf(main, requests, active, isSearching)
      /\ UNCHANGED <<refreshing, calm, background, rows>>
  BY DEF ScreenInv, TypeOK, Handler, MainStep, MainStore, MainKeep, MainSetSearching, MainLookUp,
         MainAsk, Does, engine
<1>2. UNCHANGED <<numberOfPage, chosenTypeOfSort, tempChosenTypeOfSort, active, gestures>>
  BY <1>1 DEF gesture
<1>3. /\ Tail(main) \in Seq(Steps) /\ head \in Steps /\ head = main[1] /\ 1 \in 1..Len(main)
      /\ active \in BOOLEAN /\ isSearching \in BOOLEAN
  BY <1>1, TailEntries DEF TypeOK
<1>4. /\ head.op \in {"store", "keep"} => head.list \in Seq(Block)
      /\ head.op = "ask" => head.request \in Block
      /\ head.op = "search" => head.value \in BOOLEAN
  BY <1>3, StepTypes
<1>5. OrderIsSaved'
  BY <1>2 DEF ScreenInv, OrderIsSaved
<1>6. CASE MainStore
  <2>1. /\ head.op = "store" /\ viewData' = head.list
        /\ main' = <<Keep(viewData)>> \o Tail(main)
        /\ UNCHANGED <<requests, lookup, reload, tempViewData, isSearching>>
    BY <1>6 DEF MainStore, Does, engine
  <2>2. Keep(viewData) \in Steps /\ viewData \in Seq(Block)
    BY <1>1, StepTypes DEF TypeOK
  <2>3. main' \in Seq(Steps) /\ main' # <<>> /\ Head(main') = Keep(viewData)
    BY <1>3, <2>1, <2>2, Before
  <2>4. TypeOK'
    BY <1>1, <1>2, <1>4, <2>1, <2>3 DEF TypeOK
  <2>5. RowsCatchUp'
    BY <2>3, StepNames DEF RowsCatchUp, Does
  <2>6. HandlerOf(main', requests, active, isSearching)
    BY <1>1, <1>3, <2>1, <2>2, StoreDone
  <2>7. Handler'
    BY <1>2, <2>1, <2>6 DEF Handler, HandlerOf, AsksOnce, HasRoom, BeginsUnderBar,
                            EndIsLeft, KeepsItsEnd
  <2> QED BY <1>5, <2>4, <2>5, <2>7 DEF ScreenInv
<1>7. CASE MainKeep
  <2>1. /\ head.op = "keep" /\ reload' = TRUE /\ main' = Tail(main)
        /\ tempViewData' \in {tempViewData, head.list}
        /\ UNCHANGED <<requests, lookup, viewData, isSearching>>
    BY <1>7 DEF MainKeep, Does, Kept
  <2>2. TypeOK'
    BY <1>1, <1>2, <1>3, <1>4, <2>1 DEF TypeOK
  <2>3. RowsCatchUp'
    BY <2>1 DEF RowsCatchUp
  <2>4. HandlerOf(Tail(main), requests, active, isSearching)
    BY <1>1, <1>3, <2>1, StepDone
  <2>5. Handler'
    BY <1>2, <2>1, <2>4 DEF Handler, HandlerOf, AsksOnce, HasRoom, BeginsUnderBar,
                            EndIsLeft, KeepsItsEnd
  <2> QED BY <1>5, <2>2, <2>3, <2>5 DEF ScreenInv
<1>8. CASE MainSetSearching
  <2>1. /\ head.op = "search" /\ isSearching' = head.value /\ main' = Tail(main)
        /\ UNCHANGED <<requests, lookup, reload, viewData, tempViewData>>
    BY <1>8 DEF MainSetSearching, Does, engine
  <2>2. TypeOK'
    BY <1>1, <1>2, <1>3, <1>4, <2>1 DEF TypeOK
  <2>3. RowsCatchUp'
    BY <1>1, <2>1 DEF ScreenInv, RowsCatchUp, Does
  <2>4. HandlerOf(Tail(main), requests, active, head.value)
    BY <1>1, <1>3, <1>4, <2>1, StepDone
  <2>5. Handler'
    BY <1>2, <2>1, <2>4 DEF Handler, HandlerOf, AsksOnce, HasRoom, BeginsUnderBar,
                            EndIsLeft, KeepsItsEnd
  <2> QED BY <1>5, <2>2, <2>3, <2>5 DEF ScreenInv
<1>9. CASE MainLookUp
  <2>1. /\ head.op = "lookup" /\ lookup' \in {"none", "asked"}
        /\ UNCHANGED <<requests, reload, viewData, tempViewData, isSearching>>
        /\ main' = main \/ main' = Tail(main) \/ (main' = <<>> /\ head.op = "lookup")
    BY <1>9 DEF MainLookUp, Does, lists
  <2>2. main' \in Seq(Steps)
    BY <1>1, <1>3, <2>1, EmptyIsList
  <2>3. TypeOK'
    BY <1>1, <1>2, <2>1, <2>2 DEF TypeOK
  <2>4. RowsCatchUp'
    BY <1>1, <2>1 DEF ScreenInv, RowsCatchUp, Does
  <2>5. HandlerOf(main', requests, active, isSearching)
    <3>1. CASE main' = main
      BY <1>1, <3>1
    <3>2. CASE main' = Tail(main)
      <4>1. HandlerOf(Tail(main), requests, active, isSearching)
        BY <1>1, <1>3, <2>1, StepDone
      <4> QED BY <3>2, <4>1
    <3>3. CASE main' = <<>>
      <4>1. head = LookUp
        BY <1>3, <2>1 DEF Steps, LookUp
      <4>2. \A j \in 1..Len(main) : main[j] # EndSearch
        BY <1>1, <1>3, <4>1 DEF HandlerOf, KeepsItsEnd
      <4>3. active \/ ~isSearching
        BY <1>1, <1>3, <4>2 DEF HandlerOf, EndIsLeft
      <4> QED BY <3>3, <4>3 DEF HandlerOf, AsksOnce, HasRoom, BeginsUnderBar,
                                EndIsLeft, KeepsItsEnd
    <3> QED BY <2>1, <3>1, <3>2, <3>3
  <2>6. Handler'
    BY <1>2, <2>1, <2>5 DEF Handler, HandlerOf, AsksOnce, HasRoom, BeginsUnderBar,
                            EndIsLeft, KeepsItsEnd
  <2> QED BY <1>5, <2>3, <2>4, <2>6 DEF ScreenInv
<1>10. CASE MainAsk
  <2>1. /\ head.op = "ask" /\ requests' = Append(requests, head.request) /\ main' = Tail(main)
        /\ UNCHANGED <<lookup, reload, viewData, tempViewData, isSearching>>
    BY <1>10 DEF MainAsk, Does, lists
  <2>2. Len(requests) < MaxRequests
    BY <1>1, <1>3, <2>1 DEF HandlerOf, HasRoom
  <2>3. requests \in Seq(Block)
    BY <1>1 DEF TypeOK
  <2>4. requests' \in Seq(Block) /\ Len(requests') = Len(requests) + 1 /\ Len(requests) \in Nat
    BY <1>4, <2>1, <2>3, AppendProperties, LenProperties
  <2>5. Len(requests') <= MaxRequests
    BY <2>2, <2>4, BoundAssumption
  <2>6. TypeOK'
    BY <1>1, <1>2, <1>3, <2>1, <2>4, <2>5 DEF TypeOK
  <2>7. RowsCatchUp'
    BY <1>1, <2>1 DEF ScreenInv, RowsCatchUp, Does
  <2>8. HandlerOf(Tail(main), requests', active, isSearching)
    BY <1>1, <1>3, <2>1, StepDone
  <2>9. Handler'
    BY <1>2, <2>1, <2>8 DEF Handler, HandlerOf, AsksOnce, HasRoom, BeginsUnderBar,
                            EndIsLeft, KeepsItsEnd
  <2> QED BY <1>5, <2>6, <2>7, <2>9 DEF ScreenInv
<1> QED BY <1>6, <1>7, <1>8, <1>9, <1>10 DEF MainStep

\* The delegate queue goes on, the table is reloaded, or the program ends.
LEMMA OthersScreen ==
  ASSUME ScreenInv,
         \/ Reload \/ LookupAnswer \/ LookupLost
         \/ \E i \in DOMAIN requests : Answer(i) \/ Lose(i)
         \/ BackgroundStep \/ Trap
  PROVE  ScreenInv'
<1>1. TypeOK /\ HandlerOf(main, requests, active, isSearching)
  BY DEF ScreenInv, Handler
<1>2. CASE Reload
  <2>1. /\ main = <<>> /\ reload' = FALSE /\ rows' = Len(viewData) /\ refreshing' = FALSE
        /\ UNCHANGED <<gesture, lists, main, background, requests, lookup, calm>>
    BY <1>2 DEF Reload
  <2>2. Len(viewData) \in Nat
    BY <1>1, LenProperties DEF TypeOK
  <2>3. TypeOK'
    BY <1>1, <2>1, <2>2 DEF TypeOK, gesture, lists
  <2>4. RowsCatchUp'
    BY <2>1 DEF RowsCatchUp, lists
  <2>5. Handler' /\ OrderIsSaved'
    BY <2>1 DEF ScreenInv, OrderIsSaved, Handler, HandlerOf, AsksOnce, HasRoom, BeginsUnderBar,
                EndIsLeft, KeepsItsEnd, gesture, lists
  <2> QED BY <2>3, <2>4, <2>5 DEF ScreenInv
<1>3. CASE LookupAnswer \/ LookupLost
  <2>1. /\ lookup' \in {"answered", "lost"}
        /\ UNCHANGED <<gesture, lists, main, background, requests, rows, reload, refreshing, calm>>
    BY <1>3 DEF LookupAnswer, LookupLost
  <2>2. TypeOK'
    BY <1>1, <2>1 DEF TypeOK, gesture, lists
  <2>3. RowsCatchUp'
    BY <2>1 DEF ScreenInv, RowsCatchUp, Does, lists
  <2>4. Handler' /\ OrderIsSaved'
    BY <2>1 DEF ScreenInv, OrderIsSaved, Handler, HandlerOf, AsksOnce, HasRoom, BeginsUnderBar,
                EndIsLeft, KeepsItsEnd, gesture, lists
  <2> QED BY <2>2, <2>3, <2>4 DEF ScreenInv
<1>4. CASE \E i \in DOMAIN requests : Answer(i) \/ Lose(i)
  <2>1. PICK i \in DOMAIN requests : Answer(i) \/ Lose(i)
    BY <1>4
  <2>2. /\ requests' = RemoveAt(requests, i)
        /\ UNCHANGED <<gesture, lists, main, lookup, rows, reload, refreshing>>
    BY <2>1 DEF Answer, Lose
  <2>3. requests \in Seq(Block) /\ i \in 1..Len(requests)
    BY <1>1, <2>1, LenProperties DEF TypeOK
  <2>4. /\ requests' \in Seq(Block) /\ Len(requests') = Len(requests) - 1
        /\ Len(requests) \in Nat
    BY <2>2, <2>3, RemovedTyped, LenProperties
  <2>5. Len(requests) <= MaxRequests /\ MaxRequests \in Nat
    BY <1>1, BoundAssumption DEF TypeOK
  <2>6. Len(requests') <= MaxRequests /\ (Len(requests) < MaxRequests => Len(requests') < MaxRequests)
    BY <2>4, <2>5
  <2>7. /\ background' \in Seq(Steps) /\ Len(background') <= 1 /\ calm' \in BOOLEAN
        /\ Does(background, "keep") => Does(background', "keep")
    <3>1. CASE Answer(i)
      <4>1. /\ background = <<>>
            /\ \E brought \in {<<requests[i]>>, <<>>} :
                  background' = <<Store(IF requests[i].part \in Query
                                        THEN brought ELSE viewData \o brought)>>
        BY <3>1 DEF Answer
      <4>2. requests[i] \in Block /\ viewData \in Seq(Block)
        BY <1>1, <2>3, ElementOfSeq DEF TypeOK
      <4>3. PICK brought \in {<<requests[i]>>, <<>>} :
              background' = <<Store(IF requests[i].part \in Query
                                    THEN brought ELSE viewData \o brought)>>
        BY <4>1
      <4>4. brought \in Seq(Block)
        <5> DEFINE r == requests[i]
        <5> HIDE DEF r
        <5>1. r \in Block
          BY <4>2 DEF r
        <5>2. <<r>> \in Seq(Block) /\ <<>> \in Seq(Block)
          BY <5>1
        <5>3. brought = <<r>> \/ brought = <<>>
          BY <4>3 DEF r
        <5> QED BY <5>2, <5>3
      <4>5. viewData \o brought \in Seq(Block)
        BY <4>2, <4>4, ConcatProperties
      <4> DEFINE list == IF requests[i].part \in Query THEN brought ELSE viewData \o brought
      <4>6. list \in Seq(Block)
        BY <4>4, <4>5
      <4> HIDE DEF list
      <4>7. Store(list) \in Steps
        BY <4>6, StepTypes
      <4>8. background' = <<Store(list)>>
        BY <4>3 DEF list
      <4>9. background' \in Seq(Steps) /\ Len(background') <= 1
        BY <4>7, <4>8
      <4>10. calm' \in BOOLEAN
        BY <3>1 DEF Answer
      <4> QED BY <4>1, <4>9, <4>10 DEF Does
    <3>2. CASE Lose(i)
      <4>1. calm' = FALSE /\ UNCHANGED background
        BY <3>2 DEF Lose
      <4> QED BY <1>1, <4>1 DEF TypeOK, Does
    <3> QED BY <2>1, <3>1, <3>2
  <2>8. TypeOK'
    BY <1>1, <2>2, <2>4, <2>6, <2>7 DEF TypeOK, gesture, lists
  <2>9. RowsCatchUp'
    <3>1. UNCHANGED <<viewData, main, rows, reload>>
      BY <2>2 DEF lists
    <3> QED BY <2>7, <3>1 DEF ScreenInv, RowsCatchUp, Does
  <2>10. HandlerOf(main, requests', active, isSearching)
    BY <1>1, <2>6 DEF HandlerOf, HasRoom
  <2>11. Handler' /\ OrderIsSaved'
    BY <2>2, <2>10 DEF ScreenInv, OrderIsSaved, Handler, HandlerOf, AsksOnce, HasRoom,
                       BeginsUnderBar, EndIsLeft, KeepsItsEnd, gesture, lists
  <2> QED BY <2>8, <2>9, <2>11 DEF ScreenInv
<1>5. CASE BackgroundStep
  <2>1. /\ UNCHANGED <<gesture, main, requests, lookup, rows, isSearching, refreshing, calm>>
        /\ background # <<>>
    BY <1>5 DEF BackgroundStep, BackgroundStore, BackgroundKeep, Does
  <2>2. Head(background) \in Steps /\ background \in Seq(Steps)
    BY <1>1, <2>1, TailEntries DEF TypeOK
  <2>3. Head(background).op \in {"store", "keep"} => Head(background).list \in Seq(Block)
    BY <2>2, StepTypes
  <2>4. Handler' /\ OrderIsSaved'
    BY <2>1 DEF ScreenInv, OrderIsSaved, Handler, HandlerOf, AsksOnce, HasRoom,
                BeginsUnderBar, EndIsLeft, KeepsItsEnd, gesture
  <2>5. CASE BackgroundStore
    <3>1. /\ Head(background).op = "store" /\ viewData' = Head(background).list
          /\ background' = <<Keep(viewData)>> /\ UNCHANGED <<reload, tempViewData>>
      BY <2>5 DEF BackgroundStore, Does
    <3>2. Keep(viewData) \in Steps
      BY <1>1, StepTypes DEF TypeOK
    <3> DEFINE k == Keep(viewData)
    <3>3. k.op = "keep"
      BY StepNames
    <3> HIDE DEF k
    <3>4. <<k>> \in Seq(Steps) /\ Len(<<k>>) <= 1 /\ <<k>> # <<>> /\ Head(<<k>>) = k
      BY <3>2 DEF k
    <3>5. background' = <<k>>
      BY <3>1 DEF k
    <3>6. TypeOK'
      BY <1>1, <2>1, <2>3, <3>1, <3>4, <3>5 DEF TypeOK, gesture
    <3>7. RowsCatchUp'
      BY <3>3, <3>4, <3>5 DEF RowsCatchUp, Does
    <3> QED BY <2>4, <3>6, <3>7 DEF ScreenInv
  <2>6. CASE BackgroundKeep
    <3>1. /\ Head(background).op = "keep" /\ background' = <<>> /\ UNCHANGED viewData
          /\ reload' = TRUE /\ tempViewData' \in {tempViewData, Head(background).list}
      BY <2>6 DEF BackgroundKeep, Does, Kept
    <3>2. <<>> \in Seq(Steps) /\ Len(<<>>) <= 1
      BY EmptyIsList
    <3>3. TypeOK'
      BY <1>1, <2>1, <2>3, <3>1, <3>2 DEF TypeOK, gesture
    <3>4. RowsCatchUp'
      BY <3>1 DEF RowsCatchUp
    <3> QED BY <2>4, <3>3, <3>4 DEF ScreenInv
  <2> QED BY <1>5, <2>5, <2>6 DEF BackgroundStep
<1>6. CASE Trap
  <2>1. /\ isSearching' = FALSE /\ numberOfPage' = 1 /\ viewData' = <<>> /\ tempViewData' = <<>>
        /\ chosenTypeOfSort' = marketCap /\ tempChosenTypeOfSort' = None
        /\ active' = FALSE /\ refreshing' = FALSE /\ calm' = TRUE
        /\ main' = Reset(marketCap) /\ background' = <<>>
        /\ requests' = <<>> /\ lookup' = "none" /\ rows' = 0 /\ reload' = FALSE
        /\ UNCHANGED gestures
    BY <1>6 DEF Trap
  <2> DEFINE e == Store(<<>>)
             q == Ask(PageRequest(marketCap, 1))
  <2>2. <<>> \in Seq(Block) /\ <<>> \in Seq(Steps) /\ 1 \in 1..LastPage /\ marketCap \in TypeOfSort
        /\ Len(<<>>) = 0 /\ 0 < MaxRequests
    BY EmptyIsList, PageAssumption, SortAssumption, BoundAssumption
  <2>3. e \in Steps /\ q \in Steps
    BY <2>2, StepTypes, BlockTypes
  <2>4. HandlerOf(<<e, q>>, <<>>, FALSE, FALSE)
    BY <2>2, StartLists
  <2>5. main' = <<e, q>>
    BY <2>1 DEF Reset
  <2> HIDE DEF e, q
  <2>6. main' \in Seq(Steps)
    BY <2>3, <2>5
  <2>7. TypeOK'
    <3>1. /\ isSearching' \in BOOLEAN /\ active' \in BOOLEAN /\ reload' \in BOOLEAN
          /\ refreshing' \in BOOLEAN /\ calm' \in BOOLEAN
          /\ numberOfPage' \in 1..LastPage
          /\ viewData' \in Seq(Block) /\ tempViewData' \in Seq(Block)
          /\ chosenTypeOfSort' \in TypeOfSort
          /\ tempChosenTypeOfSort' \in TypeOfSort \cup {None}
      BY <2>1, <2>2
    <3>2. Len(background') <= 1 /\ Len(requests') <= MaxRequests
      BY <2>1, <2>2, BoundAssumption
    <3>3. background' \in Seq(Steps) /\ requests' \in Seq(Block)
      BY <2>1, <2>2
    <3>4. rows' \in Nat /\ gestures' \in 0..MaxGestures
          /\ lookup' \in {"none", "asked", "answered", "lost"}
      BY <1>1, <2>1 DEF TypeOK
    <3> QED BY <2>6, <3>1, <3>2, <3>3, <3>4 DEF TypeOK
  <2>8. RowsCatchUp'
    BY <2>1, <2>2 DEF RowsCatchUp
  <2>9. HandlerOf(main', requests', active', isSearching')
    BY <2>1, <2>4, <2>5
  <2>10. Handler' /\ OrderIsSaved'
    BY <2>1, <2>9 DEF OrderIsSaved, Handler, HandlerOf, AsksOnce, HasRoom, BeginsUnderBar,
                      EndIsLeft, KeepsItsEnd
  <2> QED BY <2>7, <2>8, <2>10 DEF ScreenInv
<1> QED BY <1>2, <1>3, <1>4, <1>5, <1>6


LEMMA ScreenInvHolds == Spec => []ScreenInv
<1>1. Init => ScreenInv
  <2>1. SUFFICES ASSUME Init PROVE ScreenInv
    OBVIOUS
  <2> DEFINE e == Store(<<>>)
             q == Ask(PageRequest(marketCap, 1))
  <2>2. <<>> \in Seq(Block) /\ <<>> \in Seq(Steps) /\ 1 \in 1..LastPage /\ marketCap \in TypeOfSort
        /\ Len(<<>>) = 0 /\ 0 < MaxRequests
    BY EmptyIsList, PageAssumption, SortAssumption, BoundAssumption
  <2>3. e \in Steps /\ q \in Steps
    BY <2>2, StepTypes, BlockTypes
  <2>4. HandlerOf(<<e, q>>, <<>>, FALSE, FALSE)
    BY <2>2, StartLists
  <2>5. main = <<e, q>>
    BY <2>1 DEF Init, Reset
  <2> HIDE DEF e, q
  <2>6. main \in Seq(Steps)
    BY <2>3, <2>5
  <2>7. TypeOK
    <3>1. /\ isSearching \in BOOLEAN /\ active \in BOOLEAN /\ reload \in BOOLEAN
          /\ refreshing \in BOOLEAN /\ calm \in BOOLEAN
          /\ numberOfPage \in 1..LastPage
          /\ viewData \in Seq(Block) /\ tempViewData \in Seq(Block)
          /\ chosenTypeOfSort \in TypeOfSort
          /\ tempChosenTypeOfSort \in TypeOfSort \cup {None}
      BY <2>1, <2>2 DEF Init
    <3>2. Len(background) <= 1 /\ Len(requests) <= MaxRequests
      BY <2>1, <2>2, BoundAssumption DEF Init
    <3>3. background \in Seq(Steps) /\ requests \in Seq(Block)
      BY <2>1, <2>2 DEF Init
    <3>4. rows \in Nat /\ gestures \in 0..MaxGestures
          /\ lookup \in {"none", "asked", "answered", "lost"}
      BY <2>1, BoundAssumption DEF Init
    <3> QED BY <2>6, <3>1, <3>2, <3>3, <3>4 DEF TypeOK
  <2>8. RowsCatchUp /\ OrderIsSaved /\ Handler
    BY <2>1, <2>2, <2>4, <2>5 DEF Init, RowsCatchUp, OrderIsSaved, Handler
  <2> QED BY <2>7, <2>8 DEF ScreenInv
<1>2. ScreenInv /\ [Next]_vars => ScreenInv'
  <2>1. SUFFICES ASSUME ScreenInv, [Next]_vars PROVE ScreenInv'
    OBVIOUS
  <2>2. CASE UNCHANGED vars
    BY <2>1, <2>2 DEF vars, ScreenInv, TypeOK, RowsCatchUp, Does, OrderIsSaved, Handler,
                      HandlerOf, AsksOnce, HasRoom, BeginsUnderBar, EndIsLeft, KeepsItsEnd
  <2>3. CASE Next
    BY <2>1, <2>3, GestureScreen, MainScreen, OthersScreen DEF Next
  <2> QED BY <2>1, <2>2, <2>3
<1> QED BY <1>1, <1>2, PTL DEF Spec

\* Whatever the threads interleave, the table catches up with its list, and a search
\* is never left on without the bar whose Cancel ends it.
THEOREM ScreenCatchesUp == Spec => []ScreenConsistent
<1>1. ScreenInv => ScreenConsistent
  <2>1. SUFFICES ASSUME ScreenInv PROVE ScreenConsistent
    OBVIOUS
  <2>2. NoSearchWithoutBar
    <3>1. SUFFICES ASSUME ~active, main = <<>>, isSearching PROVE FALSE
      BY DEF NoSearchWithoutBar
    <3>2. EndIsLeft(<<>>, active, isSearching)
      BY <2>1, <3>1 DEF ScreenInv, Handler, HandlerOf
    <3> QED BY <3>1, <3>2 DEF EndIsLeft
  <2> QED BY <2>1, <2>2 DEF ScreenInv, ScreenConsistent
<1> QED BY <1>1, ScreenInvHolds, PTL


-----------------------------------------------------------------------------
(* The list in order.                                                       *)

\* The pages up to n, and one more.
LEMMA OneMorePage ==
  ASSUME NEW sort \in TypeOfSort, NEW n \in 1..LastPage
  PROVE  /\ Pages(sort, n - 1) \o <<PageRequest(sort, n)>> = Pages(sort, n)
         /\ Pages(sort, n) # <<>>
         /\ n = 1 => Pages(sort, n - 1) = <<>>
<1> DEFINE s == Pages(sort, n - 1)
           p == PageRequest(sort, n)
           t == <<p>>
           u == Pages(sort, n)
<1>1. n \in Nat /\ n - 1 \in Nat /\ 1..n \subseteq 1..LastPage /\ 1..(n - 1) \subseteq 1..LastPage
  BY PageAssumption
<1>2. \A i \in 1..n : PageRequest(sort, i) \in Block
  BY <1>1, BlockTypes
<1>3. u \in Seq(Block) /\ Len(u) = n /\ \A i \in 1..n : u[i] = PageRequest(sort, i)
  <2>1. u = [i \in 1..n |-> PageRequest(sort, i)]
    BY DEF Pages
  <2> HIDE DEF u
  <2>2. u \in [1..n -> Block]
    BY <1>2, <2>1
  <2> QED BY <1>1, <2>1, <2>2, SeqDef, LenProperties
<1>4. s \in Seq(Block) /\ Len(s) = n - 1 /\ \A i \in 1..(n - 1) : s[i] = PageRequest(sort, i)
  <2>1. s = [i \in 1..(n - 1) |-> PageRequest(sort, i)]
    BY DEF Pages
  <2>2. \A i \in 1..(n - 1) : PageRequest(sort, i) \in Block
    BY <1>1, BlockTypes
  <2> HIDE DEF s
  <2>3. s \in [1..(n - 1) -> Block]
    BY <2>1, <2>2
  <2> QED BY <1>1, <2>1, <2>3, SeqDef, LenProperties
<1>5. p \in Block
  BY <1>1, <1>2
<1>6. u[n] = p /\ 1..(n - 1) \subseteq 1..n /\ n - 1 + 1 = n
  BY <1>1, <1>3
<1> HIDE DEF s, p, u
<1>7. t \in Seq(Block) /\ Len(t) = 1 /\ t[1] = p
  BY <1>5
<1> HIDE DEF t
<1>8. /\ Len(u) = Len(s) + Len(t)
      /\ \A i \in 1..Len(s) : u[i] = s[i]
      /\ \A i \in 1..Len(t) : u[Len(s) + i] = t[i]
  BY <1>1, <1>3, <1>4, <1>6, <1>7
<1>9. s \o t = u
  BY <1>3, <1>4, <1>7, <1>8, Joined
<1>10. u # <<>>
  <2>1. Len(u) # 0
    BY <1>1, <1>3
  <2> QED BY <1>3, <2>1, EmptySeq
<1>11. n = 1 => s = <<>>
  BY <1>4, EmptySeq
<1> QED BY <1>9, <1>10, <1>11 DEF s, t, u, p

\* A step that the main thread does, or the empty list, is not behind a didSet.
LEMMA LeftNow ==
  ASSUME NEW steps, Left(steps), main = <<>> \/ Head(main).op # "keep"
  PROVE  main = steps
BY DEF Left, Does

\* A page is not a text.
LEMMA PageIsNoText ==
  ASSUME TypeOK
  PROVE  page.part \notin Query /\ \A text \in Query : found(text).part \in Query
<1>1. numberOfPage \in Nat
  BY PageAssumption DEF TypeOK
<1> QED BY <1>1, QueryAssumption DEF page, found, PageRequest, SearchRequest

\* What a step of a handler leaves alone.
LEMMA SameNames ==
  ASSUME UNCHANGED gesture
  PROVE  /\ page' = page /\ before' = before /\ whole' = whole
         /\ \A text : found(text)' = found(text)
         /\ UNCHANGED <<numberOfPage, chosenTypeOfSort, tempChosenTypeOfSort>>
BY DEF gesture, page, before, whole, found

\* The main thread stores a list.
LEMMA StoreInOrder ==
  ASSUME ScreenInv, Trusted, calm, MainStore
  PROVE  Trusted'
<1> DEFINE head == Head(main)
<1>1. /\ TypeOK /\ main \in Seq(Steps) /\ main # <<>> /\ head.op = "store"
      /\ viewData' = head.list /\ main' = <<Keep(viewData)>> \o Tail(main)
      /\ UNCHANGED <<requests, background, tempViewData, isSearching>>
      /\ UNCHANGED gesture
  BY DEF ScreenInv, TypeOK, MainStore, Does, engine
<1>2. /\ page' = page /\ before' = before /\ whole' = whole
      /\ \A text : found(text)' = found(text)
      /\ UNCHANGED <<numberOfPage, chosenTypeOfSort, tempChosenTypeOfSort>>
  BY <1>1, SameNames
<1>3. Settled => Settled'
  BY <1>1 DEF Settled
<1>4. Keep(viewData) \in Steps /\ Tail(main) \in Seq(Steps)
  BY <1>1, StepTypes, TailEntries DEF TypeOK
<1>5. /\ Does(main', "keep") /\ Head(main') = Keep(viewData) /\ Head(main').list = viewData
      /\ Tail(main') = Tail(main)
  <2>1. /\ main' # <<>> /\ Head(main') = Keep(viewData) /\ Tail(main') = Tail(main)
    BY <1>1, <1>4, Before
  <2> QED BY <2>1 DEF Does, Keep
<1>6. \A steps : Left(steps) => main = steps
  BY <1>1, LeftNow
<1>7. \A list : Store(list).op = "store" /\ Store(list).list = list
  BY DEF Store
<1>8. \A list, r : /\ LookUp.op # "store" /\ BeginSearch.op # "store" /\ EndSearch.op # "store"
                   /\ Ask(r).op # "store" /\ Keep(list).op # "store"
  BY StepNames
<1> HIDE DEF head
<1>9. CASE Browsing
  <2>1. CASE Emptying
    <3>1. numberOfPage = 1 /\ before = <<>> /\ Settled
      <4>1. numberOfPage = 1 /\ Settled
        BY <2>1 DEF Emptying
      <4>2. Pages(chosenTypeOfSort, numberOfPage - 1) = <<>>
        BY <1>1, <4>1, OneMorePage DEF TypeOK
      <4> QED BY <4>1, <4>2 DEF before
    <3>2. CASE main = <<Store(<<>>), Ask(page)>>
      <4>1. viewData' = <<>> /\ Tail(main') = <<Ask(page)>>
        BY <1>1, <1>5, <1>7, <3>2, Tails DEF head
      <4>2. Asking'
        BY <1>2, <1>3, <1>5, <3>1, <4>1 DEF Asking, Left
      <4> QED BY <1>1, <1>9, <4>2 DEF Trusted, Browsing
    <3>3. CASE main = <<Store(<<>>), Ask(page), EndSearch>>
      <4>1. viewData' = <<>> /\ Tail(main') = <<Ask(page), EndSearch>>
        BY <1>1, <1>5, <1>7, <3>3, Tails DEF head
      <4>2. Asking'
        BY <1>2, <1>3, <1>5, <3>1, <4>1 DEF Asking, Left
      <4> QED BY <1>1, <1>9, <4>2 DEF Trusted, Browsing
    <3>4. CASE \E list \in Seq(Block) : main = <<Store(list), Store(<<>>), Ask(page), EndSearch>>
      <4>1. Tail(main') = <<Store(<<>>), Ask(page), EndSearch>>
        BY <1>5, <3>4, Tails
      <4>2. Emptying'
        BY <1>2, <1>3, <1>5, <3>1, <4>1 DEF Emptying, Left
      <4> QED BY <1>1, <1>9, <4>2 DEF Trusted, Browsing
    <3> QED BY <1>6, <2>1, <3>2, <3>3, <3>4 DEF Emptying
  <2>2. CASE Asking
    <3>1. main = <<Ask(page)>> \/ main = <<Ask(page), EndSearch>>
      BY <1>6, <2>2 DEF Asking
    <3> QED BY <1>1, <1>8, <3>1, Tails DEF head
  <2>3. CASE Paging
    <3>1. main = <<>> \/ main = <<EndSearch>>
      BY <1>6, <2>3 DEF Paging
    <3> QED BY <1>1, <1>8, <3>1, Tails DEF head
  <2> QED BY <1>9, <2>1, <2>2, <2>3 DEF Browsing
<1>10. CASE Opening
  <2>1. PICK text \in Query :
          \/ /\ viewData = whole
             /\ main = <<Store(<<>>), BeginSearch, LookUp, Ask(found(text))>>
          \/ Does(main, "keep")
          \/ main = <<BeginSearch, LookUp, Ask(found(text))>>
    BY <1>10 DEF Opening
  <2>2. viewData = whole /\ main = <<Store(<<>>), BeginSearch, LookUp, Ask(found(text))>>
    BY <1>1, <1>8, <2>1, Tails DEF head, Does
  <2>3. viewData' = <<>> /\ Tail(main') = <<BeginSearch, LookUp, Ask(found(text))>>
    BY <1>1, <1>5, <1>7, <2>2, Tails DEF head
  <2>4. Opening'
    BY <1>1, <1>2, <1>3, <1>5, <1>10, <2>2, <2>3 DEF Opening
  <2> QED BY <2>4 DEF Trusted
<1>11. CASE Searching
  <2>1. CASE Clearing
    <3>1. PICK text \in Query :
            \/ main = <<Store(<<>>), BeginSearch, LookUp, Ask(found(text))>>
            \/ main = <<Store(<<>>), LookUp, Ask(found(text))>>
      BY <1>6, <2>1 DEF Clearing
    <3>2. /\ viewData' = <<>>
          /\ \/ Tail(main') = <<BeginSearch, LookUp, Ask(found(text))>>
             \/ Tail(main') = <<LookUp, Ask(found(text))>>
      <4>1. CASE main = <<Store(<<>>), BeginSearch, LookUp, Ask(found(text))>>
        <5>1. viewData' = <<>> /\ Tail(main') = <<BeginSearch, LookUp, Ask(found(text))>>
          BY <1>1, <1>5, <1>7, <4>1, Tails DEF head
        <5> QED BY <5>1
      <4>2. CASE main = <<Store(<<>>), LookUp, Ask(found(text))>>
        <5>1. viewData' = <<>> /\ Tail(main') = <<LookUp, Ask(found(text))>>
          BY <1>1, <1>5, <1>7, <4>2, Tails DEF head
        <5> QED BY <5>1
      <4> QED BY <3>1, <4>1, <4>2
    <3>3. Settled'
      BY <1>3, <2>1 DEF Clearing
    <3>4. Finding'
      BY <1>2, <1>5, <3>2, <3>3 DEF Finding, Left
    <3>5. Searching'
      BY <1>1, <1>2, <1>11, <3>4 DEF Searching, Pages
    <3> QED BY <3>5 DEF Trusted
  <2>2. CASE Finding
    <3>1. PICK text \in Query :
            \/ main = <<BeginSearch, LookUp, Ask(found(text))>>
            \/ main = <<LookUp, Ask(found(text))>>
            \/ main = <<Ask(found(text))>>
      BY <1>6, <2>2 DEF Finding
    <3> QED BY <1>1, <1>8, <3>1, Tails DEF head
  <2>3. CASE Found
    <3>1. main = <<>>
      BY <1>6, <2>3 DEF Found
    <3> QED BY <1>1, <3>1
  <2> QED BY <1>11, <2>1, <2>2, <2>3 DEF Searching
<1>12. CASE Closing
  <2>1. main = <<Store(whole), EndSearch>> \/ main = <<EndSearch>>
    BY <1>6, <1>12 DEF Closing
  <2>2. main = <<Store(whole), EndSearch>>
    BY <1>1, <1>8, <2>1, Tails DEF head
  <2>3. viewData' = whole /\ Tail(main') = <<EndSearch>>
    BY <1>1, <1>5, <1>7, <2>2, Tails DEF head
  <2>4. Closing'
    BY <1>1, <1>2, <1>3, <1>5, <1>12, <2>3 DEF Closing, Left
  <2> QED BY <2>4 DEF Trusted
<1> QED BY <1>9, <1>10, <1>11, <1>12 DEF Trusted

\* No list of steps but the one that a store leaves starts with a didSet.
Fresh(steps) == steps = <<>> \/ Head(steps).op # "keep"

LEMMA FreshLists ==
  ASSUME NEW l, NEW r
  PROVE  /\ Fresh(<<>>) /\ Fresh(<<EndSearch>>) /\ Fresh(<<Ask(r)>>)
         /\ Fresh(<<Ask(r), EndSearch>>) /\ Fresh(<<Store(l), EndSearch>>)
         /\ Fresh(<<LookUp, Ask(r)>>) /\ Fresh(<<BeginSearch, LookUp, Ask(r)>>)
         /\ Fresh(<<Store(l), Ask(r)>>) /\ Fresh(<<Store(l), Ask(r), EndSearch>>)
         /\ Fresh(<<Store(l), LookUp, Ask(r)>>)
         /\ Fresh(<<Store(l), BeginSearch, LookUp, Ask(r)>>)
         /\ Fresh(<<Store(l), Store(<<>>), Ask(r), EndSearch>>)
<1> DEFINE a == Store(l)
           e == Store(<<>>)
           q == Ask(r)
<1>1. a.op = "store" /\ q.op = "ask"
      /\ LookUp.op = "lookup" /\ BeginSearch.op = "search" /\ EndSearch.op = "search"
  BY StepNames
<1> HIDE DEF a, e, q
<1> QED BY <1>1, Tails DEF Fresh, a, e, q

\* What was left behind a didSet is left, with nothing before it, when that is done.
LEMMA LeftAfterKeep ==
  ASSUME NEW steps, Left(steps), Fresh(steps), Does(main, "keep"), main' = Tail(main)
  PROVE  main' = steps
BY DEF Left, Does, Fresh

\* The main thread does the didSet of a list it stored.
LEMMA KeepInOrder ==
  ASSUME ScreenInv, Trusted, calm, MainKeep
  PROVE  Trusted'
<1>1. /\ TypeOK /\ Does(main, "keep") /\ main' = Tail(main)
      /\ tempViewData' = IF isSearching THEN tempViewData ELSE Head(main).list
      /\ UNCHANGED <<requests, background, viewData, isSearching>>
      /\ UNCHANGED gesture
  BY DEF ScreenInv, MainKeep, Kept
<1>2. /\ page' = page /\ before' = before /\ whole' = whole
      /\ \A text : found(text)' = found(text)
      /\ UNCHANGED <<numberOfPage, chosenTypeOfSort, tempChosenTypeOfSort>>
  BY <1>1, SameNames
<1>3. Settled => Settled'
  BY <1>1 DEF Settled
<1>4. \A steps : Left(steps) /\ Fresh(steps) => main' = steps
  BY <1>1, LeftAfterKeep
<1>5. CASE Browsing
  <2>1. CASE Emptying
    <3>1. \/ main' = <<Store(<<>>), Ask(page)>>
          \/ main' = <<Store(<<>>), Ask(page), EndSearch>>
          \/ \E list \in Seq(Block) : main' = <<Store(list), Store(<<>>), Ask(page), EndSearch>>
      BY <1>4, <2>1, FreshLists DEF Emptying
    <3>2. Emptying'
      BY <1>2, <1>3, <2>1, <3>1 DEF Emptying, Left
    <3> QED BY <1>1, <1>5, <3>2 DEF Trusted, Browsing
  <2>2. CASE Asking
    <3>1. main' = <<Ask(page)>> \/ main' = <<Ask(page), EndSearch>>
      BY <1>4, <2>2, FreshLists DEF Asking
    <3>2. Asking'
      BY <1>1, <1>2, <1>3, <2>2, <3>1 DEF Asking, Left
    <3> QED BY <1>1, <1>5, <3>2 DEF Trusted, Browsing
  <2>3. CASE Paging
    <3>1. main' = <<>> \/ main' = <<EndSearch>>
      BY <1>4, <2>3, FreshLists DEF Paging
    <3>2. Paging'
      BY <1>1, <1>2, <2>3, <3>1 DEF Paging, Left, Does
    <3> QED BY <1>1, <1>5, <3>2 DEF Trusted, Browsing
  <2> QED BY <1>5, <2>1, <2>2, <2>3 DEF Browsing
<1>6. CASE Opening
  <2>1. PICK text \in Query :
          \/ main = <<Store(<<>>), BeginSearch, LookUp, Ask(found(text))>>
          \/ /\ viewData = <<>>
             /\ Does(main, "keep") /\ Head(main).list = whole
             /\ Tail(main) = <<BeginSearch, LookUp, Ask(found(text))>>
          \/ main = <<BeginSearch, LookUp, Ask(found(text))>>
    BY <1>6 DEF Opening
  <2>2. /\ Fresh(<<Store(<<>>), BeginSearch, LookUp, Ask(found(text))>>)
        /\ Fresh(<<BeginSearch, LookUp, Ask(found(text))>>)
    BY FreshLists
  <2>3. /\ viewData = <<>> /\ Head(main).list = whole
        /\ main' = <<BeginSearch, LookUp, Ask(found(text))>>
    BY <1>1, <2>1, <2>2 DEF Fresh, Does
  <2>4. viewData' = <<>> /\ tempViewData' = whole
    BY <1>1, <1>6, <2>3 DEF Opening
  <2>5. Opening'
    BY <1>1, <1>2, <1>3, <1>6, <2>3, <2>4 DEF Opening
  <2> QED BY <2>5 DEF Trusted
<1>7. CASE Searching
  <2>1. UNCHANGED <<isSearching, tempViewData, numberOfPage, tempChosenTypeOfSort>>
    BY <1>1, <1>2, <1>7 DEF Searching
  <2>2. CASE Clearing
    <3>1. PICK text \in Query :
            \/ main' = <<Store(<<>>), BeginSearch, LookUp, Ask(found(text))>>
            \/ main' = <<Store(<<>>), LookUp, Ask(found(text))>>
      BY <1>4, <2>2, FreshLists DEF Clearing
    <3>2. Clearing'
      BY <1>2, <1>3, <2>2, <3>1 DEF Clearing, Left
    <3> QED BY <1>7, <2>1, <3>2 DEF Trusted, Searching, Pages
  <2>3. CASE Finding
    <3>1. PICK text \in Query :
            \/ main' = <<BeginSearch, LookUp, Ask(found(text))>>
            \/ main' = <<LookUp, Ask(found(text))>>
            \/ main' = <<Ask(found(text))>>
      BY <1>4, <2>3, FreshLists DEF Finding
    <3>2. Finding'
      BY <1>1, <1>2, <1>3, <2>3, <3>1 DEF Finding, Left
    <3> QED BY <1>7, <2>1, <3>2 DEF Trusted, Searching, Pages
  <2>4. CASE Found
    <3>1. main' = <<>>
      BY <1>4, <2>4, FreshLists DEF Found
    <3>2. Found'
      BY <1>1, <1>2, <1>3, <2>4, <3>1 DEF Found, Left, Does
    <3> QED BY <1>7, <2>1, <3>2 DEF Trusted, Searching, Pages
  <2> QED BY <1>7, <2>2, <2>3, <2>4 DEF Searching
<1>8. CASE Closing
  <2>1. main' = <<Store(whole), EndSearch>> \/ (viewData = whole /\ main' = <<EndSearch>>)
    BY <1>4, <1>8, FreshLists DEF Closing
  <2>2. Closing'
    BY <1>1, <1>2, <1>3, <1>8, <2>1 DEF Closing, Left
  <2> QED BY <2>2 DEF Trusted
<1> QED BY <1>5, <1>6, <1>7, <1>8 DEF Trusted

\* The main thread begins or ends a search.
LEMMA SetSearchingInOrder ==
  ASSUME ScreenInv, Trusted, calm, MainSetSearching
  PROVE  Trusted'
<1> DEFINE head == Head(main)
<1>1. /\ TypeOK /\ main # <<>> /\ head.op = "search" /\ isSearching' = head.value
      /\ main' = Tail(main)
      /\ UNCHANGED <<requests, background, viewData, tempViewData>>
      /\ UNCHANGED gesture
  BY DEF ScreenInv, MainSetSearching, Does, engine
<1>2. /\ page' = page /\ before' = before /\ whole' = whole
      /\ \A text : found(text)' = found(text)
      /\ UNCHANGED <<numberOfPage, chosenTypeOfSort, tempChosenTypeOfSort>>
  BY <1>1, SameNames
<1>3. Settled => Settled'
  BY <1>1 DEF Settled
<1>4. \A steps : Left(steps) => main = steps
  BY <1>1, LeftNow
<1>5. \A list, r : /\ LookUp.op # "search" /\ Store(list).op # "search"
                   /\ Ask(r).op # "search" /\ Keep(list).op # "search"
                   /\ BeginSearch.value = TRUE /\ EndSearch.value = FALSE
  BY StepNames
<1> HIDE DEF head
<1>6. CASE Browsing
  <2>1. CASE Emptying
    <3>1. \/ main = <<Store(<<>>), Ask(page)>>
          \/ main = <<Store(<<>>), Ask(page), EndSearch>>
          \/ \E list \in Seq(Block) : main = <<Store(list), Store(<<>>), Ask(page), EndSearch>>
      BY <1>4, <2>1 DEF Emptying
    <3>2. \E list : head = Store(list)
      BY <3>1, Tails DEF head
    <3> QED BY <1>1, <1>5, <3>2
  <2>2. CASE Asking
    <3>1. main = <<Ask(page)>> \/ main = <<Ask(page), EndSearch>>
      BY <1>4, <2>2 DEF Asking
    <3> QED BY <1>1, <1>5, <3>1, Tails DEF head
  <2>3. CASE Paging
    <3>1. main = <<EndSearch>>
      BY <1>1, <1>4, <2>3 DEF Paging
    <3>2. main' = <<>> /\ isSearching' = FALSE
      BY <1>1, <1>5, <3>1, Tails DEF head
    <3>3. Paging'
      BY <1>1, <1>2, <2>3, <3>2 DEF Paging, Left, Does
    <3> QED BY <3>2, <3>3 DEF Trusted, Browsing
  <2> QED BY <1>6, <2>1, <2>2, <2>3 DEF Browsing
<1>7. CASE Opening
  <2>1. PICK text \in Query :
          \/ main = <<Store(<<>>), BeginSearch, LookUp, Ask(found(text))>>
          \/ Does(main, "keep")
          \/ /\ viewData = <<>> /\ tempViewData = whole
             /\ main = <<BeginSearch, LookUp, Ask(found(text))>>
    BY <1>7 DEF Opening
  <2>2. /\ viewData = <<>> /\ tempViewData = whole
        /\ main = <<BeginSearch, LookUp, Ask(found(text))>>
    BY <1>1, <1>5, <2>1, Tails DEF head, Does
  <2>3. main' = <<LookUp, Ask(found(text))>> /\ isSearching' = TRUE
    BY <1>1, <1>5, <2>2, Tails DEF head
  <2>4. Settled /\ tempChosenTypeOfSort = chosenTypeOfSort
    BY <1>7 DEF Opening
  <2>5. Finding'
    BY <1>1, <1>2, <1>3, <2>2, <2>3, <2>4 DEF Finding, Left
  <2>6. tempChosenTypeOfSort # None
    BY <1>1, <2>4, SortAssumption DEF TypeOK
  <2>7. Searching'
    BY <1>1, <1>2, <2>2, <2>3, <2>4, <2>5, <2>6 DEF Searching, whole, Pages
  <2> QED BY <2>7 DEF Trusted
<1>8. CASE Searching
  <2>1. CASE Clearing
    <3>1. PICK text \in Query :
            \/ main = <<Store(<<>>), BeginSearch, LookUp, Ask(found(text))>>
            \/ main = <<Store(<<>>), LookUp, Ask(found(text))>>
      BY <1>4, <2>1 DEF Clearing
    <3>2. head = Store(<<>>)
      BY <3>1, Tails DEF head
    <3> QED BY <1>1, <1>5, <3>2
  <2>2. CASE Finding
    <3>1. PICK text \in Query :
            \/ main = <<BeginSearch, LookUp, Ask(found(text))>>
            \/ main = <<LookUp, Ask(found(text))>>
            \/ main = <<Ask(found(text))>>
      BY <1>4, <2>2 DEF Finding
    <3>2. main = <<BeginSearch, LookUp, Ask(found(text))>>
      BY <1>1, <1>5, <3>1, Tails DEF head
    <3>3. main' = <<LookUp, Ask(found(text))>> /\ isSearching' = TRUE
      BY <1>1, <1>5, <3>2, Tails DEF head
    <3>4. Finding'
      BY <1>1, <1>2, <1>3, <2>2, <3>3 DEF Finding, Left
    <3> QED BY <1>1, <1>2, <1>8, <3>3, <3>4 DEF Trusted, Searching, Pages
  <2>3. CASE Found
    <3>1. main = <<>>
      BY <1>4, <2>3 DEF Found
    <3> QED BY <1>1, <3>1
  <2> QED BY <1>8, <2>1, <2>2, <2>3 DEF Searching
<1>9. CASE Closing
  <2>1. main = <<Store(whole), EndSearch>> \/ (viewData = whole /\ main = <<EndSearch>>)
    BY <1>4, <1>9 DEF Closing
  <2>2. viewData = whole /\ main = <<EndSearch>>
    BY <1>1, <1>5, <2>1, Tails DEF head
  <2>3. main' = <<>> /\ isSearching' = FALSE
    BY <1>1, <1>5, <2>2, Tails DEF head
  <2>4. Settled'
    BY <1>3, <1>9 DEF Closing
  <2>5. Paging'
    BY <1>1, <1>2, <2>2, <2>3, <2>4 DEF Paging, Left, Settled
  <2> QED BY <2>3, <2>5 DEF Trusted, Browsing
<1> QED BY <1>6, <1>7, <1>8, <1>9 DEF Trusted

\* The main thread looks a text up: it waits, or ends its handler there, or goes on.
LEMMA LookUpInOrder ==
  ASSUME ScreenInv, Trusted, calm, MainLookUp
  PROVE  Trusted'
<1> DEFINE head == Head(main)
<1>1. /\ TypeOK /\ main # <<>> /\ head.op = "lookup"
      /\ main' = main \/ main' = <<>> \/ main' = Tail(main)
      /\ UNCHANGED <<requests, background, viewData, tempViewData, isSearching>>
      /\ UNCHANGED gesture
  BY DEF ScreenInv, MainLookUp, Does, lists
<1>2. /\ page' = page /\ before' = before /\ whole' = whole
      /\ \A text : found(text)' = found(text)
      /\ UNCHANGED <<numberOfPage, chosenTypeOfSort, tempChosenTypeOfSort>>
  BY <1>1, SameNames
<1>3. Settled => Settled'
  BY <1>1 DEF Settled
<1>4. \A steps : Left(steps) => main = steps
  BY <1>1, LeftNow
<1>5. \A list, r : /\ EndSearch.op # "lookup" /\ BeginSearch.op # "lookup"
                   /\ Ask(r).op # "lookup" /\ Keep(list).op # "lookup"
                   /\ Store(list).op # "lookup"
  BY StepNames
<1> HIDE DEF head
<1>6. CASE Browsing
  <2>1. CASE Emptying
    <3>1. \/ main = <<Store(<<>>), Ask(page)>>
          \/ main = <<Store(<<>>), Ask(page), EndSearch>>
          \/ \E list \in Seq(Block) : main = <<Store(list), Store(<<>>), Ask(page), EndSearch>>
      BY <1>4, <2>1 DEF Emptying
    <3>2. \E list : head = Store(list)
      BY <3>1, Tails DEF head
    <3> QED BY <1>1, <1>5, <3>2
  <2>2. CASE Asking
    <3>1. main = <<Ask(page)>> \/ main = <<Ask(page), EndSearch>>
      BY <1>4, <2>2 DEF Asking
    <3> QED BY <1>1, <1>5, <3>1, Tails DEF head
  <2>3. CASE Paging
    <3>1. main = <<>> \/ main = <<EndSearch>>
      BY <1>4, <2>3 DEF Paging
    <3> QED BY <1>1, <1>5, <3>1, Tails DEF head
  <2> QED BY <1>6, <2>1, <2>2, <2>3 DEF Browsing
<1>7. CASE Opening
  <2>1. PICK text \in Query :
          \/ main = <<Store(<<>>), BeginSearch, LookUp, Ask(found(text))>>
          \/ Does(main, "keep")
          \/ main = <<BeginSearch, LookUp, Ask(found(text))>>
    BY <1>7 DEF Opening
  <2> QED BY <1>1, <1>5, <2>1, Tails DEF head, Does
<1>8. CASE Searching
  <2>1. CASE Clearing
    <3>1. PICK text \in Query :
            \/ main = <<Store(<<>>), BeginSearch, LookUp, Ask(found(text))>>
            \/ main = <<Store(<<>>), LookUp, Ask(found(text))>>
      BY <1>4, <2>1 DEF Clearing
    <3>2. head = Store(<<>>)
      BY <3>1, Tails DEF head
    <3> QED BY <1>1, <1>5, <3>2
  <2>2. CASE Finding
    <3>1. PICK text \in Query :
            \/ main = <<BeginSearch, LookUp, Ask(found(text))>>
            \/ main = <<LookUp, Ask(found(text))>>
            \/ main = <<Ask(found(text))>>
      BY <1>4, <2>2 DEF Finding
    <3>2. main = <<LookUp, Ask(found(text))>>
      BY <1>1, <1>5, <3>1, Tails DEF head
    <3>3. main' = main \/ main' = <<>> \/ main' = <<Ask(found(text))>>
      BY <1>1, <3>2, Tails
    <3>4. Finding' \/ Found'
      <4>1. CASE main' = main \/ main' = <<Ask(found(text))>>
        BY <1>1, <1>2, <1>3, <2>2, <3>2, <4>1 DEF Finding, Left
      <4>2. CASE main' = <<>>
        BY <1>1, <1>3, <2>2, <4>2 DEF Finding, Found, Left
      <4> QED BY <3>3, <4>1, <4>2
    <3> QED BY <1>1, <1>2, <1>8, <3>4 DEF Trusted, Searching, Pages
  <2>3. CASE Found
    <3>1. main = <<>>
      BY <1>4, <2>3 DEF Found
    <3> QED BY <1>1, <3>1
  <2> QED BY <1>8, <2>1, <2>2, <2>3 DEF Searching
<1>9. CASE Closing
  <2>1. main = <<Store(whole), EndSearch>> \/ main = <<EndSearch>>
    BY <1>4, <1>9 DEF Closing
  <2> QED BY <1>1, <1>5, <2>1, Tails DEF head
<1> QED BY <1>6, <1>7, <1>8, <1>9 DEF Trusted

\* The main thread asks for a block.
LEMMA AskInOrder ==
  ASSUME ScreenInv, Trusted, calm, MainAsk
  PROVE  Trusted'
<1> DEFINE head == Head(main)
<1>1. /\ TypeOK /\ main # <<>> /\ head.op = "ask" /\ main' = Tail(main)
      /\ requests' = Append(requests, head.request)
      /\ UNCHANGED <<background, viewData, tempViewData, isSearching>>
      /\ UNCHANGED gesture
  BY DEF ScreenInv, MainAsk, Does, lists
<1>2. /\ page' = page /\ before' = before /\ whole' = whole
      /\ \A text : found(text)' = found(text)
      /\ UNCHANGED <<numberOfPage, chosenTypeOfSort, tempChosenTypeOfSort>>
  BY <1>1, SameNames
<1>3. \A r : Settled /\ head = Ask(r) => requests' = <<r>> /\ background' = <<>>
  <2>1. ASSUME NEW r, Settled, head = Ask(r)
        PROVE  requests' = <<r>> /\ background' = <<>>
    <3>1. head.request = r
      BY <2>1 DEF Ask
    <3>2. requests = <<>> /\ background = <<>>
      BY <2>1 DEF Settled
    <3> HIDE DEF head
    <3> QED BY <1>1, <3>1, <3>2
  <2> QED BY <2>1
<1>4. \A steps : Left(steps) => main = steps
  BY <1>1, LeftNow
<1>5. \A list, r : /\ LookUp.op # "ask" /\ Store(list).op # "ask"
                   /\ BeginSearch.op # "ask" /\ Keep(list).op # "ask" /\ EndSearch.op # "ask"
  BY StepNames
<1> HIDE DEF head
<1>6. CASE Browsing
  <2>1. CASE Emptying
    <3>1. \/ main = <<Store(<<>>), Ask(page)>>
          \/ main = <<Store(<<>>), Ask(page), EndSearch>>
          \/ \E list \in Seq(Block) : main = <<Store(list), Store(<<>>), Ask(page), EndSearch>>
      BY <1>4, <2>1 DEF Emptying
    <3>2. \E list : head = Store(list)
      BY <3>1, Tails DEF head
    <3> QED BY <1>1, <1>5, <3>2
  <2>2. CASE Asking
    <3>1. main = <<Ask(page)>> \/ main = <<Ask(page), EndSearch>>
      BY <1>4, <2>2 DEF Asking
    <3>2. head = Ask(page) /\ (main' = <<>> \/ main' = <<EndSearch>>)
      <4>1. CASE main = <<Ask(page)>>
        BY <1>1, <4>1, Tails DEF head
      <4>2. CASE main = <<Ask(page), EndSearch>>
        BY <1>1, <4>2, Tails DEF head
      <4> QED BY <3>1, <4>1, <4>2
    <3>3. requests' = <<page>> /\ background' = <<>>
      BY <1>3, <2>2, <3>2 DEF Asking
    <3>4. Paging'
      BY <1>1, <1>2, <2>2, <3>2, <3>3 DEF Asking, Paging, Left
    <3> QED BY <1>1, <1>6, <3>4 DEF Trusted, Browsing
  <2>3. CASE Paging
    <3>1. main = <<>> \/ main = <<EndSearch>>
      BY <1>4, <2>3 DEF Paging
    <3> QED BY <1>1, <1>5, <3>1, Tails DEF head
  <2> QED BY <1>6, <2>1, <2>2, <2>3 DEF Browsing
<1>7. CASE Opening
  <2>1. PICK text \in Query :
          \/ main = <<Store(<<>>), BeginSearch, LookUp, Ask(found(text))>>
          \/ Does(main, "keep")
          \/ main = <<BeginSearch, LookUp, Ask(found(text))>>
    BY <1>7 DEF Opening
  <2> QED BY <1>1, <1>5, <2>1, Tails DEF head, Does
<1>8. CASE Searching
  <2>1. CASE Clearing
    <3>1. PICK text \in Query :
            \/ main = <<Store(<<>>), BeginSearch, LookUp, Ask(found(text))>>
            \/ main = <<Store(<<>>), LookUp, Ask(found(text))>>
      BY <1>4, <2>1 DEF Clearing
    <3>2. head = Store(<<>>)
      BY <3>1, Tails DEF head
    <3> QED BY <1>1, <1>5, <3>2
  <2>2. CASE Finding
    <3>1. PICK text \in Query :
            \/ main = <<BeginSearch, LookUp, Ask(found(text))>>
            \/ main = <<LookUp, Ask(found(text))>>
            \/ main = <<Ask(found(text))>>
      BY <1>4, <2>2 DEF Finding
    <3>2. main = <<Ask(found(text))>>
      <4>1. CASE main = <<BeginSearch, LookUp, Ask(found(text))>>
        <5>1. head = BeginSearch
          BY <4>1, Tails DEF head
        <5> QED BY <1>1, <1>5, <5>1
      <4>2. CASE main = <<LookUp, Ask(found(text))>>
        <5>1. head = LookUp
          BY <4>2, Tails DEF head
        <5> QED BY <1>1, <1>5, <5>1
      <4> QED BY <3>1, <4>1, <4>2
    <3>3. head = Ask(found(text)) /\ main' = <<>>
      BY <1>1, <3>2, Tails DEF head
    <3>4. requests' = <<found(text)>> /\ background' = <<>>
      BY <1>3, <2>2, <3>3 DEF Finding
    <3>5. Found'
      BY <1>2, <3>3, <3>4 DEF Found, Left
    <3> QED BY <1>1, <1>2, <1>8, <3>5 DEF Trusted, Searching, Pages
  <2>3. CASE Found
    <3>1. main = <<>>
      BY <1>4, <2>3 DEF Found
    <3> QED BY <1>1, <3>1
  <2> QED BY <1>8, <2>1, <2>2, <2>3 DEF Searching
<1>9. CASE Closing
  <2>1. main = <<Store(whole), EndSearch>> \/ main = <<EndSearch>>
    BY <1>4, <1>9 DEF Closing
  <2>2. head = Store(whole) \/ head = EndSearch
    BY <2>1, Tails DEF head
  <2> QED BY <1>1, <1>5, <2>2
<1> QED BY <1>6, <1>7, <1>8, <1>9 DEF Trusted

\* A step that touches none of the lists, the requests and the handlers.
LEMMA SameLists ==
  ASSUME Trusted,
         UNCHANGED <<numberOfPage, chosenTypeOfSort, tempChosenTypeOfSort, lists, main,
                     background, requests, calm>>
  PROVE  Trusted'
<1>1. /\ page' = page /\ before' = before /\ whole' = whole
      /\ \A text : found(text)' = found(text)
  BY DEF page, before, whole, found
<1>2. /\ UNCHANGED <<viewData, tempViewData, isSearching, main, background, requests, calm>>
      /\ UNCHANGED <<numberOfPage, chosenTypeOfSort, tempChosenTypeOfSort>>
      /\ Settled' = Settled
  BY DEF lists, Settled
<1>3. Emptying => Emptying'
  BY <1>1, <1>2 DEF Emptying, Left, Does
<1>4. (Asking => Asking') /\ (Paging => Paging')
  BY <1>1, <1>2 DEF Asking, Paging, Left, Does
<1>5. Opening => Opening'
  BY <1>1, <1>2 DEF Opening, Does
<1>6. (Clearing => Clearing') /\ (Finding => Finding') /\ (Found => Found')
  BY <1>1, <1>2 DEF Clearing, Finding, Found, Left, Does
<1>7. Searching => Searching'
  BY <1>2, <1>6 DEF Searching, Pages
<1>8. Closing => Closing'
  BY <1>1, <1>2 DEF Closing, Left, Does
<1> QED BY <1>2, <1>3, <1>4, <1>5, <1>7, <1>8 DEF Trusted, Browsing

\* An answer under way, or on the delegate queue, is the one awaited.
LEMMA OnlyAwaited ==
  ASSUME Trusted, calm, ~Settled
  PROVE  (Browsing /\ Paging) \/ (Searching /\ Found)
BY DEF Trusted, Browsing, Emptying, Asking, Opening, Searching, Clearing, Finding, Closing

\* An answer arrives, or is lost.
LEMMA AnswerInOrder ==
  ASSUME ScreenInv, Trusted, NEW i \in DOMAIN requests, Answer(i) \/ Lose(i)
  PROVE  Trusted'
<1>1. SUFFICES ASSUME calm' PROVE Trusted'
  BY DEF Trusted
<1>2. PICK brought \in {<<requests[i]>>, <<>>} :
        /\ background' = <<Store(IF requests[i].part \in Query
                                 THEN brought ELSE viewData \o brought)>>
        /\ calm' = (calm /\ brought # <<>>)
  <2>1. Answer(i)
    BY <1>1 DEF Lose
  <2> QED BY <2>1 DEF Answer
<1>3. /\ background = <<>> /\ requests' = RemoveAt(requests, i)
      /\ UNCHANGED <<main, viewData, tempViewData, isSearching>>
      /\ UNCHANGED gesture
  BY <1>1 DEF Answer, Lose, lists
<1>4. calm /\ brought = <<requests[i]>>
  BY <1>1, <1>2
<1>5. TypeOK /\ requests \in Seq(Block) /\ i \in 1..Len(requests)
  BY LenProperties DEF ScreenInv, TypeOK
<1>6. \A r \in Block : requests = <<r>> => requests[i] = r /\ requests' = <<>>
  <2>1. ASSUME NEW r \in Block, requests = <<r>>
        PROVE  requests[i] = r /\ requests' = <<>>
    <3>1. RemoveAt(<<r>>, 1) = <<>>
      BY RemovedOnly
    <3>2. Len(<<r>>) = 1 /\ <<r>>[1] = r
      OBVIOUS
    <3>3. i = 1
      BY <1>5, <2>1, <3>2
    <3> QED BY <1>3, <2>1, <3>1, <3>2, <3>3
  <2> QED BY <2>1
<1>7. /\ page' = page /\ before' = before /\ whole' = whole
      /\ \A text : found(text)' = found(text)
      /\ UNCHANGED <<numberOfPage, chosenTypeOfSort, tempChosenTypeOfSort>>
  BY <1>3, SameNames
<1>8. page \in Block /\ \A text \in Query : found(text) \in Block
  BY <1>5, BlockTypes DEF TypeOK, page, found
<1>9. requests # <<>>
  BY <1>5
<1>10. ~Settled
  BY <1>9 DEF Settled
<1>11. CASE Browsing /\ Paging
  <2>1. requests = <<page>> /\ viewData = before
    BY <1>9, <1>11 DEF Paging
  <2>2. requests[i] = page /\ requests' = <<>>
    BY <1>6, <1>8, <2>1
  <2>3. background' = <<Store(viewData \o <<page>>)>>
    BY <1>2, <1>4, <1>5, <2>2, PageIsNoText
  <2>4. before \o <<page>> = whole
    BY <1>5, OneMorePage DEF TypeOK, before, whole, page
  <2>5. background' = <<Store(whole)>>
    BY <2>1, <2>3, <2>4
  <2>6. Paging'
    BY <1>3, <1>7, <1>11, <2>1, <2>2, <2>5 DEF Paging, Left, Does
  <2> QED BY <1>3, <1>11, <2>6 DEF Trusted, Browsing
<1>12. CASE Searching /\ Found
  <2>1. PICK text \in Query : requests = <<found(text)>>
    BY <1>9, <1>10, <1>12 DEF Found
  <2>2. requests[i] = found(text) /\ requests' = <<>>
    BY <1>6, <1>8, <2>1
  <2>3. background' = <<Store(<<found(text)>>)>>
    BY <1>2, <1>4, <1>5, <2>2, PageIsNoText
  <2>4. Found'
    BY <1>3, <1>7, <1>12, <2>2, <2>3 DEF Found, Left, Does
  <2> QED BY <1>3, <1>7, <1>12, <2>4 DEF Trusted, Searching, Pages
<1> QED BY <1>4, <1>10, <1>11, <1>12, OnlyAwaited

\* The delegate queue stores what an answer brought, then does its didSet.
LEMMA BackgroundInOrder ==
  ASSUME ScreenInv, Trusted, calm, BackgroundStep
  PROVE  Trusted'
<1>1. /\ background # <<>>
      /\ UNCHANGED <<main, requests, isSearching>>
      /\ UNCHANGED gesture
      /\ \/ /\ Head(background).op = "store" /\ viewData' = Head(background).list
            /\ background' = <<Keep(viewData)>> /\ tempViewData' = tempViewData
         \/ /\ Head(background).op = "keep" /\ viewData' = viewData
            /\ background' = <<>> /\ (isSearching => tempViewData' = tempViewData)
  BY DEF BackgroundStep, BackgroundStore, BackgroundKeep, Kept, Does
<1>2. /\ page' = page /\ before' = before /\ whole' = whole
      /\ \A text : found(text)' = found(text)
      /\ UNCHANGED <<numberOfPage, chosenTypeOfSort, tempChosenTypeOfSort>>
  BY <1>1, SameNames
<1>3. ~Settled
  BY <1>1 DEF Settled
<1> DEFINE k == Keep(viewData)
<1>4. k.op = "keep"
  BY StepNames
<1> HIDE DEF k
<1>5. <<k>> # <<>> /\ Head(<<k>>) = k
  BY Tails
<1>6. \A list : /\ Head(<<Store(list)>>) = Store(list)
                /\ Store(list).op = "store" /\ Store(list).list = list
  BY Tails DEF Store
<1>7. CASE Browsing /\ Paging
  <2>1. requests = <<>> /\ (background = <<Store(whole)>>
                            \/ (viewData = whole /\ Head(background).op = "keep"))
    BY <1>1, <1>7 DEF Paging, Does
  <2>2. viewData' = whole /\ (background' = <<>> \/ background' = <<k>>)
    <3>1. CASE background = <<Store(whole)>>
      BY <1>1, <1>6, <3>1 DEF k
    <3>2. CASE viewData = whole /\ Head(background).op = "keep"
      BY <1>1, <3>2
    <3> QED BY <2>1, <3>1, <3>2
  <2>3. background' = <<>> \/ Does(background', "keep")
    BY <1>4, <1>5, <2>2 DEF Does
  <2>4. Paging'
    BY <1>1, <1>2, <1>7, <2>1, <2>2, <2>3 DEF Paging, Left, Does
  <2> QED BY <1>1, <1>7, <2>4 DEF Trusted, Browsing
<1>8. CASE Searching /\ Found
  <2>1. PICK text \in Query :
          /\ requests = <<>>
          /\ \/ background = <<Store(<<found(text)>>)>>
             \/ (viewData = <<found(text)>> /\ Head(background).op = "keep")
    BY <1>1, <1>3, <1>8 DEF Found, Does
  <2>2. viewData' = <<found(text)>> /\ (background' = <<>> \/ background' = <<k>>)
    <3>1. CASE background = <<Store(<<found(text)>>)>>
      BY <1>1, <1>6, <3>1 DEF k
    <3>2. CASE viewData = <<found(text)>> /\ Head(background).op = "keep"
      BY <1>1, <3>2
    <3> QED BY <2>1, <3>1, <3>2
  <2>3. background' = <<>> \/ Does(background', "keep")
    BY <1>4, <1>5, <2>2 DEF Does
  <2>4. Found'
    BY <1>1, <1>2, <1>8, <2>1, <2>2, <2>3 DEF Found, Left, Does
  <2> QED BY <1>1, <1>2, <1>8, <2>4 DEF Trusted, Searching, Pages
<1> QED BY <1>3, <1>7, <1>8, OnlyAwaited

\* Where a trusted list stands when the main thread is free.
LEMMA AtRest ==
  ASSUME Trusted, calm, main = <<>>
  PROVE  /\ (Browsing /\ Paging) \/ (Searching /\ Found)
         /\ Settled /\ ~isSearching => viewData = whole
<1>1. \A steps : Left(steps) => main = steps
  BY LeftNow
<1>2. \A a, b, c, d : /\ <<a>> # <<>> /\ <<a, b>> # <<>> /\ <<a, b, c>> # <<>>
                      /\ <<a, b, c, d>> # <<>>
  BY Tails
<1>3. ~Emptying
  BY <1>1, <1>2 DEF Emptying
<1>4. ~Asking
  BY <1>1, <1>2 DEF Asking
<1>5. ~Opening
  BY <1>2 DEF Opening, Does
<1>6. ~Clearing /\ ~Finding
  BY <1>1, <1>2 DEF Clearing, Finding
<1>7. ~Closing
  BY <1>1, <1>2 DEF Closing
<1>8. (Browsing /\ Paging) \/ (Searching /\ Found)
  BY <1>3, <1>4, <1>5, <1>6, <1>7 DEF Trusted, Browsing, Searching
<1>9. ASSUME Settled, ~isSearching
      PROVE  viewData = whole
  <2>1. Paging /\ requests = <<>> /\ background = <<>>
    BY <1>8, <1>9 DEF Searching, Settled
  <2> QED BY <2>1 DEF Paging
<1> QED BY <1>8, <1>9

\* The list is asked for again, or a text looked up again.
LEMMA AskedAgain ==
  ASSUME ScreenInv, Trusted,
         Refresh \/ \E sort \in TypeOfSort : PickSort(sort)
  PROVE  Trusted'
<1>1. SUFFICES ASSUME calm' PROVE Trusted'
  BY DEF Trusted
<1>2. /\ TypeOK /\ main = <<>> /\ UNCHANGED <<viewData, tempViewData, isSearching>>
      /\ UNCHANGED <<requests, background>>
  BY GestureStarts DEF Gestures, lists, engine
<1>3. /\ tempChosenTypeOfSort' = tempChosenTypeOfSort
      /\ \/ /\ isSearching
            /\ \E text \in Query : main' = <<Store(<<>>)>> \o FindText(chosenTypeOfSort', text)
            /\ calm /\ Settled
            /\ UNCHANGED numberOfPage
         \/ /\ ~isSearching /\ numberOfPage' = 1 /\ main' = Reset(chosenTypeOfSort') /\ Settled
         \/ UNCHANGED <<main, numberOfPage, chosenTypeOfSort, calm>>
  <2>1. CASE Refresh
    BY <1>1, <2>1 DEF Refresh, Quiet
  <2>2. CASE \E sort \in TypeOfSort : PickSort(sort)
    <3>1. PICK sort \in TypeOfSort : PickSort(sort)
      BY <2>2
    <3>2. chosenTypeOfSort' = sort /\ tempChosenTypeOfSort' = tempChosenTypeOfSort
      BY <3>1 DEF PickSort
    <3> QED BY <1>1, <3>1, <3>2 DEF PickSort, Quiet
  <2> QED BY <2>1, <2>2
<1>4. CASE /\ isSearching
           /\ \E text \in Query : main' = <<Store(<<>>)>> \o FindText(chosenTypeOfSort', text)
           /\ calm /\ Settled
           /\ UNCHANGED numberOfPage
  <2>1. PICK text \in Query : main' = <<Store(<<>>)>> \o FindText(chosenTypeOfSort', text)
    BY <1>4
  <2> DEFINE q == Ask(SearchRequest(chosenTypeOfSort', text))
             e == Store(<<>>)
  <2>2. main' = <<e>> \o <<LookUp, q>>
    BY <2>1 DEF FindText
  <2> HIDE DEF q, e
  <2>3. main' = <<e, LookUp, q>>
    BY <2>2, OneAndTwo
  <2>4. Settled'
    BY <1>2, <1>4 DEF Settled
  <2>5. Clearing'
    BY <2>3, <2>4 DEF Clearing, Left, found, q, e
  <2>6. Searching
    BY <1>2, <1>4, AtRest DEF Browsing
  <2>7. Searching'
    BY <1>2, <1>3, <1>4, <2>5, <2>6 DEF Searching, Pages
  <2> QED BY <2>7 DEF Trusted
<1>5. CASE ~isSearching /\ numberOfPage' = 1 /\ main' = Reset(chosenTypeOfSort') /\ Settled
  <2>1. Emptying'
    BY <1>2, <1>5 DEF Emptying, Left, Settled, Reset, page
  <2> QED BY <1>2, <1>5, <2>1 DEF Trusted, Browsing
<1>6. CASE UNCHANGED <<main, numberOfPage, chosenTypeOfSort, calm>>
  BY <1>2, <1>3, <1>6, SameLists DEF lists
<1> QED BY <1>3, <1>4, <1>5, <1>6

\* The search bar takes the focus, and a search starts.
LEMMA SearchAsked ==
  ASSUME ScreenInv, Trusted, BeginEditing \/ \E text \in Query : Search(text)
  PROVE  Trusted'
<1>1. SUFFICES ASSUME calm' PROVE Trusted'
  BY DEF Trusted
<1>2. /\ TypeOK /\ main = <<>> /\ UNCHANGED <<viewData, tempViewData, isSearching>>
      /\ UNCHANGED <<requests, background>>
  BY GestureStarts DEF Gestures, lists, engine
<1>3. calm /\ UNCHANGED <<numberOfPage, chosenTypeOfSort>>
  BY <1>1 DEF BeginEditing, Search, Quiet
<1>4. page' = page /\ before' = before /\ whole' = whole /\ \A text : found(text)' = found(text)
  BY <1>3 DEF page, before, whole, found
<1>5. CASE BeginEditing
  <2>1. /\ main' = main /\ tempChosenTypeOfSort' = chosenTypeOfSort
        /\ isSearching => tempChosenTypeOfSort = chosenTypeOfSort
    BY <1>1, <1>5 DEF BeginEditing
  <2>2. CASE Browsing /\ Paging
    <3>1. Paging'
      BY <1>2, <1>4, <2>1, <2>2 DEF Paging, Left, Does
    <3> QED BY <1>2, <2>2, <3>1 DEF Trusted, Browsing
  <2>3. CASE Searching /\ Found
    <3>1. Found'
      BY <1>2, <1>4, <2>1, <2>3 DEF Found, Left, Does, Settled
    <3>2. tempChosenTypeOfSort' = tempChosenTypeOfSort
      BY <2>1, <2>3 DEF Searching
    <3> QED BY <1>2, <1>3, <2>3, <3>1, <3>2 DEF Trusted, Searching, Pages
  <2> QED BY <1>2, <1>3, <2>2, <2>3, AtRest
<1>6. CASE \E text \in Query : Search(text)
  <2>1. PICK text \in Query : Search(text)
    BY <1>6
  <2>2. /\ main' = <<Store(<<>>), BeginSearch>> \o FindText(chosenTypeOfSort, text)
        /\ Settled /\ (isSearching \/ tempChosenTypeOfSort = chosenTypeOfSort)
        /\ UNCHANGED tempChosenTypeOfSort
    BY <1>1, <2>1 DEF Search, Quiet
  <2> DEFINE q == Ask(found(text))
             e == Store(<<>>)
  <2>3. main' = <<e, BeginSearch>> \o <<LookUp, q>>
    BY <2>2 DEF FindText, found
  <2> HIDE DEF q, e
  <2>4. main' = <<e, BeginSearch, LookUp, q>>
    BY <2>3, TwoAndTwo
  <2>5. Settled'
    BY <1>2, <2>2 DEF Settled
  <2>6. CASE isSearching
    <3>1. Clearing'
      BY <1>4, <2>4, <2>5 DEF Clearing, Left, q, e
    <3>2. Searching
      BY <1>2, <1>3, <2>6, AtRest DEF Browsing
    <3> QED BY <1>2, <1>3, <2>2, <2>6, <3>1, <3>2 DEF Trusted, Searching, Pages
  <2>7. CASE ~isSearching
    <3>1. viewData = whole
      BY <1>2, <1>3, <2>2, <2>7, AtRest
    <3>2. Opening'
      BY <1>2, <1>3, <1>4, <2>2, <2>4, <2>5, <2>7, <3>1 DEF Opening, q, e
    <3> QED BY <3>2 DEF Trusted
  <2> QED BY <2>6, <2>7
<1> QED BY <1>5, <1>6

\* Cancel brings back the pages and the order, or asks for the list again.
LEMMA CancelInOrder ==
  ASSUME ScreenInv, Trusted, Cancel
  PROVE  Trusted'
<1>1. SUFFICES ASSUME calm' PROVE Trusted'
  BY DEF Trusted
<1> DEFINE sort == tempChosenTypeOfSort
           again == sort # None /\ ~isSearching /\ sort # chosenTypeOfSort
<1>2. /\ TypeOK /\ main = <<>> /\ UNCHANGED <<viewData, tempViewData, isSearching>>
      /\ UNCHANGED <<requests, background>>
  BY GestureStarts DEF Gestures, lists, engine
<1>3. /\ chosenTypeOfSort' = (IF sort = None THEN chosenTypeOfSort ELSE sort)
      /\ numberOfPage' = (IF again THEN 1 ELSE numberOfPage)
      /\ Settled /\ (again \/ (calm /\ isSearching)) /\ tempChosenTypeOfSort' = sort
  BY <1>1 DEF Cancel
<1>4. Settled'
  BY <1>2, <1>3 DEF Settled
<1>5. CASE again
  <2>1. chosenTypeOfSort' = sort /\ numberOfPage' = 1 /\ tempViewData \in Seq(Block)
    BY <1>2, <1>3, <1>5 DEF TypeOK
  <2>2. page' = PageRequest(sort, 1)
    BY <2>1 DEF page
  <2>3. \/ main' = <<Store(<<>>), Ask(PageRequest(sort, 1)), EndSearch>>
        \/ main' = <<Store(tempViewData), Store(<<>>), Ask(PageRequest(sort, 1)), EndSearch>>
    BY <1>5, CancelLeaves
  <2>4. Emptying'
    <3>1. CASE main' = <<Store(<<>>), Ask(PageRequest(sort, 1)), EndSearch>>
      BY <1>4, <2>1, <2>2, <3>1 DEF Emptying, Left
    <3>2. CASE main' = <<Store(tempViewData), Store(<<>>), Ask(PageRequest(sort, 1)), EndSearch>>
      <4>1. \E list \in Seq(Block) :
               main' = <<Store(list), Store(<<>>), Ask(page'), EndSearch>>
        BY <2>1, <2>2, <3>2
      <4> QED BY <1>4, <2>1, <4>1 DEF Emptying, Left
    <3> QED BY <2>3, <3>1, <3>2
  <2> QED BY <1>2, <1>5, <2>4 DEF Trusted, Browsing
<1>6. CASE ~again
  <2>1. calm /\ isSearching
    BY <1>3, <1>6
  <2>2. Searching
    BY <1>2, <2>1, AtRest DEF Browsing
  <2>3. sort # None /\ tempViewData = Pages(sort, numberOfPage)
    BY <2>2 DEF Searching
  <2>4. chosenTypeOfSort' = sort /\ numberOfPage' = numberOfPage /\ sort \in TypeOfSort
    BY <1>2, <1>3, <1>6, <2>3 DEF TypeOK
  <2>5. tempViewData # <<>>
    BY <1>2, <2>3, <2>4, OneMorePage DEF TypeOK
  <2>6. main' = <<Store(tempViewData), EndSearch>>
    BY <1>6, <2>3, <2>5, CancelLeaves
  <2>7. whole' = tempViewData
    BY <2>3, <2>4 DEF whole, Pages
  <2>8. Closing'
    BY <1>2, <1>3, <1>4, <2>1, <2>4, <2>6, <2>7 DEF Closing, Left
  <2> QED BY <2>8 DEF Trusted
<1> QED BY <1>5, <1>6

\* The last row asks for one page more.
LEMMA LastRowInOrder ==
  ASSUME ScreenInv, Trusted, DisplayLastRow
  PROVE  Trusted'
<1>1. SUFFICES ASSUME calm' PROVE Trusted'
  BY DEF Trusted
<1>2. /\ TypeOK /\ main = <<>> /\ UNCHANGED <<viewData, tempViewData, isSearching>>
      /\ UNCHANGED <<requests, background>>
  BY GestureStarts DEF Gestures, lists, engine
<1>3. /\ ~isSearching /\ numberOfPage' = numberOfPage + 1 /\ calm /\ Settled
      /\ main' = <<Ask(PageRequest(chosenTypeOfSort, numberOfPage + 1))>>
      /\ UNCHANGED chosenTypeOfSort
  BY <1>1 DEF DisplayLastRow, Quiet
<1>4. viewData = whole
  BY <1>2, <1>3, AtRest
<1>5. page' = PageRequest(chosenTypeOfSort, numberOfPage + 1)
  BY <1>3 DEF page
<1>6. before' = whole
  <2>1. numberOfPage' - 1 = numberOfPage
    BY <1>2, <1>3, PageAssumption DEF TypeOK
  <2>2. before' = Pages(chosenTypeOfSort', numberOfPage' - 1)
    BY DEF before, Pages
  <2> QED BY <1>3, <2>1, <2>2 DEF whole
<1>7. Asking'
  <2>1. Settled' /\ viewData' = before' /\ main' = <<Ask(page')>>
    BY <1>2, <1>3, <1>4, <1>5, <1>6 DEF Settled
  <2> QED BY <2>1 DEF Asking, Left
<1> QED BY <1>2, <1>3, <1>7 DEF Trusted, Browsing

LEMMA TrustedHolds == Spec => []Trusted
<1>1. Init => Trusted
  <2>1. SUFFICES ASSUME Init PROVE Trusted
    OBVIOUS
  <2>2. Emptying
    BY <2>1 DEF Init, Emptying, Left, Settled, Reset, page
  <2> QED BY <2>1, <2>2 DEF Init, Trusted, Browsing
<1>2. ScreenInv /\ Trusted /\ [Next]_vars => Trusted'
  <2>1. SUFFICES ASSUME ScreenInv, Trusted, [Next]_vars PROVE Trusted'
    OBVIOUS
  <2>2. CASE Gestures
    BY <2>1, <2>2, AskedAgain, SearchAsked, CancelInOrder, LastRowInOrder DEF Gestures
  <2>3. CASE MainStep
    <3>1. ~calm => Trusted'
      <4>1. calm' = calm
        BY <2>3 DEF MainStep, MainStore, MainKeep, MainSetSearching, MainLookUp, MainAsk
      <4> QED BY <4>1 DEF Trusted
    <3>2. calm => Trusted'
      BY <2>1, <2>3, StoreInOrder, KeepInOrder, SetSearchingInOrder, LookUpInOrder,
         AskInOrder DEF MainStep
    <3> QED BY <3>1, <3>2
  <2>4. CASE Reload \/ LookupAnswer \/ LookupLost
    <3>1. UNCHANGED <<gesture, lists, main, background, requests, calm>>
      BY <2>4 DEF Reload, LookupAnswer, LookupLost
    <3> QED BY <2>1, <3>1, SameLists DEF gesture
  <2>5. CASE \E i \in DOMAIN requests : Answer(i) \/ Lose(i)
    BY <2>1, <2>5, AnswerInOrder
  <2>6. CASE BackgroundStep
    <3>1. ~calm => Trusted'
      <4>1. calm' = calm
        BY <2>6 DEF BackgroundStep, BackgroundStore, BackgroundKeep
      <4> QED BY <4>1 DEF Trusted
    <3>2. calm => Trusted'
      BY <2>1, <2>6, BackgroundInOrder
    <3> QED BY <3>1, <3>2
  <2>7. CASE Trap
    <3>1. /\ isSearching' = FALSE /\ numberOfPage' = 1 /\ chosenTypeOfSort' = marketCap
          /\ main' = Reset(marketCap) /\ background' = <<>> /\ requests' = <<>>
      BY <2>7 DEF Trap
    <3>2. Emptying'
      BY <3>1 DEF Emptying, Left, Settled, Reset, page
    <3> QED BY <3>1, <3>2 DEF Trusted, Browsing
  <2>8. CASE UNCHANGED vars
    BY <2>1, <2>8, SameLists DEF vars, lists
  <2> QED BY <2>1, <2>2, <2>3, <2>4, <2>5, <2>6, <2>7, <2>8 DEF Next
<1> QED BY <1>1, <1>2, ScreenInvHolds, PTL DEF Spec

\* Whatever the user does on the screen, one gesture after the answer to the other, the
\* list is the pages asked for, in the chosen order, and each of them once.
THEOREM ListStaysInOrder == Spec => []ListInOrder
<1>1. ScreenInv /\ Trusted => ListInOrder
  <2>1. SUFFICES ASSUME ScreenInv, Trusted, calm, main = <<>>, Settled
                 PROVE  IF isSearching
                        THEN /\ tempViewData = Pages(tempChosenTypeOfSort, numberOfPage)
                             /\ viewData \in {<<>>} \cup
                                  {<<SearchRequest(chosenTypeOfSort, text)>> : text \in Query}
                        ELSE viewData = Pages(chosenTypeOfSort, numberOfPage)
    BY DEF ListInOrder
  <2>2. CASE isSearching
    <3>1. Searching /\ Found
      BY <2>1, <2>2, AtRest DEF Browsing
    <3>2. \/ viewData = <<>>
          \/ \E text \in Query : viewData = <<found(text)>>
      BY <2>1, <3>1 DEF Found, Settled
    <3> QED BY <2>2, <3>1, <3>2 DEF Searching, found
  <2>3. CASE ~isSearching
    BY <2>1, <2>3, AtRest DEF whole
  <2> QED BY <2>2, <2>3
<1> QED BY <1>1, ScreenInvHolds, TrustedHolds, PTL
=============================================================================
