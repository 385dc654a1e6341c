------------------------ MODULE PortfolioStoreProofs ------------------------
(***************************************************************************)
(* Type correctness and the safety invariants of PortfolioStore, for any    *)
(* clients, coins, quantities, price limits and bounds.                     *)
(*                                                                         *)
(* Each invariant but TypeOK speaks of the lists of coins there are.  So    *)
(* the proof has two halves: which lists a step can make (NewLists: a list  *)
(* there was, an empty one, one with an entry less, or one with a lot more) *)
(* and what each of these does to a list (the first lemmas).                *)
(*                                                                         *)
(* LossHasACause is an action property and follows from the same facts.     *)
(* The last part is about one device that waits for each call and whose     *)
(* writes are not refused (OneDevice): there no other write can come        *)
(* between the reading and the writing of a call (Waits), from which follow *)
(* DeleteFindsCoins and the refinement of Portfolio.                        *)
(***************************************************************************)
EXTENDS PortfolioStore, SequenceTheorems, TLAPS

-----------------------------------------------------------------------------
(* Lists with an entry less, and lists with a lot more.                     *)

\* RemoveAt drops one entry and keeps the order of the others.
LEMMA RemoveAtEntries ==
  ASSUME NEW S, NEW s \in Seq(S), NEW i \in 1..Len(s)
  PROVE  /\ RemoveAt(s, i) \in Seq(S)
         /\ Len(RemoveAt(s, i)) = Len(s) - 1
         /\ \A j \in 1..(Len(s) - 1) :
               RemoveAt(s, i)[j] = IF j < i THEN s[j] ELSE s[j + 1]
<1> DEFINE a == SubSeq(s, 1, i - 1)
           b == SubSeq(s, i + 1, Len(s))
<1>1. Len(s) \in Nat /\ \A j \in 1..Len(s) : s[j] \in S
  BY LenProperties, ElementOfSeq
<1>2. /\ a \in Seq(S)
      /\ Len(a) = i - 1
      /\ \A j \in 1..(i - 1) : a[j] = s[j]
  <2>1. 1 \in Int /\ i - 1 \in Int /\ \A j \in 1..(i - 1) : s[j] \in S
    BY <1>1
  <2>2. /\ a \in Seq(S)
        /\ Len(a) = IF 1 <= i - 1 THEN (i - 1) - 1 + 1 ELSE 0
        /\ \A j \in 1..((i - 1) - 1 + 1) : a[j] = s[1 + j - 1]
    BY <2>1, SubSeqProperties
  <2> HIDE DEF a
  <2> QED BY <2>2, <1>1
<1>3. /\ b \in Seq(S)
      /\ Len(b) = Len(s) - i
      /\ \A j \in 1..(Len(s) - i) : b[j] = s[j + i]
  <2>1. i + 1 \in Int /\ Len(s) \in Int /\ \A j \in (i + 1)..Len(s) : s[j] \in S
    BY <1>1
  <2>2. /\ b \in Seq(S)
        /\ Len(b) = IF i + 1 <= Len(s) THEN Len(s) - (i + 1) + 1 ELSE 0
        /\ \A j \in 1..(Len(s) - (i + 1) + 1) : b[j] = s[(i + 1) + j - 1]
    BY <2>1, SubSeqProperties
  <2> HIDE DEF b
  <2> QED BY <2>2, <1>1
<1>4. /\ a \o b \in Seq(S)
      /\ Len(a \o b) = Len(a) + Len(b)
      /\ \A j \in 1..(Len(a) + Len(b)) :
            (a \o b)[j] = IF j <= Len(a) THEN a[j] ELSE b[j - Len(a)]
  BY <1>2, <1>3, ConcatProperties
<1>5. RemoveAt(s, i) = a \o b
  BY DEF RemoveAt
<1> HIDE DEF a, b
<1>6. Len(a) + Len(b) = Len(s) - 1
  BY <1>1, <1>2, <1>3
<1>7. ASSUME NEW j \in 1..(Len(s) - 1)
      PROVE  (a \o b)[j] = IF j < i THEN s[j] ELSE s[j + 1]
  <2>1. CASE j < i
    BY <2>1, <1>1, <1>2, <1>4, <1>6
  <2>2. CASE ~(j < i)
    <3>1. j - (i - 1) \in 1..(Len(s) - i) /\ (j - (i - 1)) + i = j + 1
      BY <2>2, <1>1
    <3> QED BY <2>2, <3>1, <1>1, <1>2, <1>3, <1>4, <1>6
  <2> QED BY <2>1, <2>2
<1> QED BY <1>4, <1>5, <1>6, <1>7

\* The first entry of a coin is the only one.
LEMMA PositionFound ==
  ASSUME NEW coins \in Seq(Entry), NEW k, NoCoinTwice(coins), Held(coins, k)
  PROVE  Position(coins, k) \in 1..Len(coins) /\ coins[Position(coins, k)].id = k
<1>1. PICK i \in 1..Len(coins) : coins[i].id = k
  BY DEF Held
<1>2. \A j \in 1..(i - 1) : coins[j].id # k
  BY <1>1, LenProperties DEF NoCoinTwice
<1> QED BY <1>1, <1>2 DEF Position

\* A lot merged into an entry gives an entry of the same coin.
LEMMA MergedEntry ==
  ASSUME NEW entry \in Entry, NEW lot \in Entry
  PROVE  /\ Merged(entry, lot) \in Entry
         /\ Merged(entry, lot).id = entry.id
         /\ Merged(entry, lot).qty = entry.qty + lot.qty
         /\ Merged(entry, lot).cost = entry.cost + lot.cost
<1>1. /\ entry.id \in Coin /\ entry.qty \in Nat /\ entry.cost \in Nat
      /\ lot.qty \in Nat /\ lot.cost \in Nat
  BY DEF Entry
<1>2. entry.qty + lot.qty \in Nat /\ entry.cost + lot.cost \in Nat
  BY <1>1
<1> QED BY <1>1, <1>2 DEF Merged, Entry

\* What WithLot does to a list: the entry of the coin grows, or one is added.
LEMMA WithLotEntries ==
  ASSUME NEW coins \in Seq(Entry), NEW lot \in Entry, NoCoinTwice(coins)
  PROVE  LET new == WithLot(coins, lot)
         IN  /\ new \in Seq(Entry)
             /\ Held(coins, lot.id) =>
                  LET i == Position(coins, lot.id)
                  IN  /\ Len(new) = Len(coins)
                      /\ \A j \in 1..Len(coins) :
                            new[j] = IF j = i THEN Merged(coins[i], lot) ELSE coins[j]
             /\ ~Held(coins, lot.id) =>
                  /\ Len(new) = Len(coins) + 1
                  /\ \A j \in 1..Len(coins) : new[j] = coins[j]
                  /\ new[Len(coins) + 1] = lot
<1>1. CASE Held(coins, lot.id)
  <2> DEFINE i == Position(coins, lot.id)
  <2>1. i \in 1..Len(coins)
    BY <1>1, PositionFound
  <2>2. coins[i] \in Entry
    BY <2>1, ElementOfSeq
  <2> HIDE DEF i
  <2>3. Merged(coins[i], lot) \in Entry
    BY <2>2, MergedEntry
  <2>4. WithLot(coins, lot) = [coins EXCEPT ![i] = Merged(coins[i], lot)]
    BY <1>1 DEF WithLot, i
  <2>5. /\ WithLot(coins, lot) \in Seq(Entry)
        /\ Len(WithLot(coins, lot)) = Len(coins)
        /\ \A j \in 1..Len(coins) :
              WithLot(coins, lot)[j] = IF j = i THEN Merged(coins[i], lot) ELSE coins[j]
    BY <2>1, <2>3, <2>4, ExceptSeq
  <2> QED BY <1>1, <2>5 DEF i
<1>2. CASE ~Held(coins, lot.id)
  <2>1. WithLot(coins, lot) = Append(coins, lot)
    BY <1>2 DEF WithLot
  <2> QED BY <1>2, <2>1, AppendProperties
<1> QED BY <1>1, <1>2

\* Both results still hold each coin once.
LEMMA WithLotOnce ==
  ASSUME NEW coins \in Seq(Entry), NEW lot \in Entry, NoCoinTwice(coins)
  PROVE  NoCoinTwice(WithLot(coins, lot))
<1> DEFINE new == WithLot(coins, lot)
           i == Position(coins, lot.id)
<1>1. Len(coins) \in Nat
  BY LenProperties
<1>2. CASE Held(coins, lot.id)
  <2>1. i \in 1..Len(coins) /\ coins[i].id = lot.id
    BY <1>2, PositionFound
  <2>2. /\ Len(new) = Len(coins)
        /\ \A j \in 1..Len(coins) :
              new[j] = IF j = i THEN Merged(coins[i], lot) ELSE coins[j]
    BY <1>2, WithLotEntries
  <2>3. coins[i] \in Entry
    BY <2>1, ElementOfSeq
  <2> HIDE DEF new, i
  <2>4. Merged(coins[i], lot).id = coins[i].id
    BY <2>3, MergedEntry
  <2>5. \A j \in 1..Len(coins) : new[j].id = coins[j].id
    BY <2>1, <2>2, <2>4
  <2> QED BY <2>2, <2>5 DEF NoCoinTwice, new
<1>3. CASE ~Held(coins, lot.id)
  <2>1. /\ Len(new) = Len(coins) + 1
        /\ \A j \in 1..Len(coins) : new[j] = coins[j]
        /\ new[Len(coins) + 1] = lot
    BY <1>3, WithLotEntries
  <2> HIDE DEF new
  <2>2. \A j \in 1..Len(coins) : new[j].id # lot.id
    BY <1>3, <2>1 DEF Held
  <2>3. ASSUME NEW m \in 1..Len(new), NEW n \in 1..Len(new), new[m].id = new[n].id
        PROVE  m = n
    <3>1. CASE m \in 1..Len(coins) /\ n \in 1..Len(coins)
      BY <2>1, <2>3, <3>1 DEF NoCoinTwice
    <3>2. CASE m = Len(coins) + 1 \/ n = Len(coins) + 1
      BY <1>1, <2>1, <2>2, <2>3, <3>2
    <3> QED BY <1>1, <2>1, <3>1, <3>2
  <2> QED BY <2>3 DEF NoCoinTwice, new
<1> QED BY <1>2, <1>3

\* Removing an entry leaves no coin twice.
LEMMA RemoveAtOnce ==
  ASSUME NEW coins \in Seq(Entry), NEW i \in 1..Len(coins), NoCoinTwice(coins)
  PROVE  NoCoinTwice(RemoveAt(coins, i))
<1> DEFINE new == RemoveAt(coins, i)
           At(j) == IF j < i THEN j ELSE j + 1
<1>1. Len(coins) \in Nat
  BY LenProperties
<1>2. Len(new) = Len(coins) - 1 /\ \A j \in 1..(Len(coins) - 1) : new[j] = coins[At(j)]
  BY RemoveAtEntries
<1> HIDE DEF new
<1>3. ASSUME NEW m \in 1..Len(new), NEW n \in 1..Len(new), new[m].id = new[n].id
      PROVE  m = n
  <2>1. At(m) \in 1..Len(coins) /\ At(n) \in 1..Len(coins)
    BY <1>1, <1>2
  <2>2. coins[At(m)].id = coins[At(n)].id
    BY <1>2, <1>3
  <2>3. At(m) = At(n)
    BY <2>1, <2>2 DEF NoCoinTwice
  <2> QED BY <2>3, <1>1, <1>2
<1> QED BY <1>3 DEF NoCoinTwice, new

-----------------------------------------------------------------------------
(* Type correctness.                                                        *)

\* What a user adds has the form of an entry.
LEMMA LotIsEntry == Lot \subseteq Entry
<1>1. ASSUME NEW k \in Coin, NEW q \in Quantity, NEW p \in MinPrice..MaxPrice
      PROVE  [id |-> k, qty |-> q, cost |-> q * p] \in Entry
  <2>1. q \in Nat /\ p \in Nat
    BY QuantityAssumption, PriceAssumption
  <2>2. q * p \in Nat
    BY <2>1
  <2> QED BY <2>1, <2>2 DEF Entry
<1> QED BY <1>1 DEF Lot

\* The view of a client is a document.
LEMMA OverlayIsDoc ==
  ASSUME TypeOK, NEW c \in Client, NEW doc \in Doc
  PROVE  Overlay(c, doc) \in Doc
<1>1. CASE pending[c] = <<>>
  BY <1>1 DEF Overlay
<1>2. CASE pending[c] # <<>>
  <2>1. pending[c] \in Seq(Write)
    BY DEF TypeOK
  <2>2. Len(pending[c]) \in 1..Len(pending[c])
    BY <1>2, <2>1, EmptySeq
  <2>3. pending[c][Len(pending[c])] \in Write
    BY <2>1, <2>2, ElementOfSeq
  <2> QED BY <1>2, <2>3 DEF Overlay, Document, Doc, Write, Last
<1> QED BY <1>1, <1>2

-----------------------------------------------------------------------------
(* What the steps of the queues do: their types, and the lists they bring.  *)

\* A call that starts joins its client's calls and brings no list but an empty one.
LEMMA StartQueue ==
  ASSUME TypeOK, NEW c \in Client, NEW call \in Call, Start(c, call)
  PROVE  /\ inflight' \in [Client -> Seq(Call)]
         /\ calls' \in 0..MaxCalls
         /\ CallLists' \subseteq CallLists \cup {call.coins}
<1>1. inflight \in [Client -> Seq(Call)] /\ calls \in 0..MaxCalls /\ MaxCalls \in Nat
  BY BoundAssumption DEF TypeOK
<1>2. inflight' = [inflight EXCEPT ![c] = Append(inflight[c], call)]
  BY DEF Start
<1>3. /\ Append(inflight[c], call) \in Seq(Call)
      /\ Len(Append(inflight[c], call)) = Len(inflight[c]) + 1
      /\ \A i \in 1..Len(inflight[c]) : Append(inflight[c], call)[i] = inflight[c][i]
      /\ Append(inflight[c], call)[Len(inflight[c]) + 1] = call
  BY <1>1, AppendProperties
<1>4. inflight' \in [Client -> Seq(Call)]
  BY <1>1, <1>2, <1>3
<1>5. calls' \in 0..MaxCalls
  BY <1>1 DEF Start
<1>6. ASSUME NEW d \in Client, NEW n \in 1..Len(inflight'[d])
      PROVE  inflight'[d][n].coins \in CallLists \cup {call.coins}
  <2>1. CASE d = c /\ n = Len(inflight[c]) + 1
    BY <1>1, <1>2, <1>3, <2>1
  <2>2. CASE d = c /\ n # Len(inflight[c]) + 1
    <3>1. Len(inflight[c]) \in Nat
      BY <1>1, LenProperties
    <3>2. n \in 1..Len(inflight[c]) /\ inflight'[c][n] = inflight[c][n]
      BY <1>1, <1>2, <1>3, <2>2, <3>1
    <3> QED BY <2>2, <3>2 DEF CallLists
  <2>3. CASE d # c
    BY <1>1, <1>2, <2>3 DEF CallLists
  <2> QED BY <2>1, <2>2, <2>3
<1>7. ASSUME NEW list \in CallLists'
      PROVE  list \in CallLists \cup {call.coins}
  <2>1. PICK d \in Client :
          \E n \in 1..Len(inflight'[d]) : list = inflight'[d][n].coins
    BY DEF CallLists
  <2> QED BY <2>1, <1>6
<1> QED BY <1>4, <1>5, <1>7

\* An answer changes one call and brings no list but the one it tells.
LEMMA AnswerQueue ==
  ASSUME TypeOK, NEW c \in Client, NEW i \in 1..Len(inflight[c]),
         NEW state \in State, NEW coins \in Seq(Entry), Answer(c, i, state, coins)
  PROVE  /\ inflight' \in [Client -> Seq(Call)]
         /\ CallLists' \subseteq CallLists \cup {coins}
<1> DEFINE told == Told(inflight[c][i], state, coins)
           queue == [inflight[c] EXCEPT ![i] = told]
<1>1. inflight \in [Client -> Seq(Call)] /\ inflight[c] \in Seq(Call)
  BY DEF TypeOK
<1>2. inflight[c][i] \in Call
  BY <1>1, ElementOfSeq
<1>3. told \in Call /\ told.coins = coins
  BY <1>2 DEF Call, Told
<1>4. inflight' = [inflight EXCEPT ![c] = queue]
  BY DEF Answer
<1> HIDE DEF told
<1>5. /\ queue \in Seq(Call)
      /\ Len(queue) = Len(inflight[c])
      /\ \A j \in 1..Len(inflight[c]) : queue[j] = IF j = i THEN told ELSE inflight[c][j]
  BY <1>1, <1>3, ExceptSeq
<1> HIDE DEF queue
<1>6. inflight' \in [Client -> Seq(Call)]
  BY <1>1, <1>4, <1>5
<1>7. ASSUME NEW d \in Client, NEW n \in 1..Len(inflight'[d])
      PROVE  inflight'[d][n].coins \in CallLists \cup {coins}
  <2>1. CASE d = c /\ n = i
    BY <1>1, <1>3, <1>4, <1>5, <2>1
  <2>2. CASE d = c /\ n # i
    <3>1. n \in 1..Len(inflight[c]) /\ inflight'[c][n] = inflight[c][n]
      BY <1>1, <1>4, <1>5, <2>2
    <3> QED BY <2>2, <3>1 DEF CallLists
  <2>3. CASE d # c
    BY <1>1, <1>4, <2>3 DEF CallLists
  <2> QED BY <2>1, <2>2, <2>3
<1>8. ASSUME NEW list \in CallLists'
      PROVE  list \in CallLists \cup {coins}
  <2>1. PICK d \in Client :
          \E n \in 1..Len(inflight'[d]) : list = inflight'[d][n].coins
    BY DEF CallLists
  <2> QED BY <2>1, <1>7
<1> QED BY <1>6, <1>8

\* A completion that ends removes the first call and brings no list.
LEMMA FinishQueue ==
  ASSUME TypeOK, NEW c \in Client, inflight[c] # <<>>, Finish(c)
  PROVE  /\ Head(inflight[c]) \in Call
         /\ Head(inflight[c]).coins \in CallLists
         /\ inflight' \in [Client -> Seq(Call)]
         /\ CallLists' \subseteq CallLists
<1>1. inflight \in [Client -> Seq(Call)] /\ inflight[c] \in Seq(Call)
  BY DEF TypeOK
<1>2. /\ Head(inflight[c]) \in Call
      /\ Tail(inflight[c]) \in Seq(Call)
      /\ Len(Tail(inflight[c])) = Len(inflight[c]) - 1
      /\ \A j \in 1..Len(Tail(inflight[c])) : Tail(inflight[c])[j] = inflight[c][j + 1]
  BY <1>1, HeadTailProperties
<1>3. Len(inflight[c]) \in Nat \ {0}
  BY <1>1, EmptySeq
<1>4. Head(inflight[c]).coins \in CallLists
  <2>1. Head(inflight[c]) = inflight[c][1] /\ 1 \in 1..Len(inflight[c])
    BY <1>1, <1>3
  <2> QED BY <2>1 DEF CallLists
<1>5. inflight' = [inflight EXCEPT ![c] = Tail(inflight[c])]
  BY DEF Finish
<1>6. inflight' \in [Client -> Seq(Call)]
  BY <1>1, <1>2, <1>5
<1>7. ASSUME NEW d \in Client, NEW n \in 1..Len(inflight'[d])
      PROVE  inflight'[d][n].coins \in CallLists
  <2>1. CASE d = c
    <3>1. n + 1 \in 1..Len(inflight[c]) /\ inflight'[c][n] = inflight[c][n + 1]
      BY <1>1, <1>2, <1>3, <1>5, <2>1
    <3> QED BY <2>1, <3>1 DEF CallLists
  <2>2. CASE d # c
    BY <1>1, <1>5, <2>2 DEF CallLists
  <2> QED BY <2>1, <2>2
<1>8. ASSUME NEW list \in CallLists'
      PROVE  list \in CallLists
  <2>1. PICK d \in Client :
          \E n \in 1..Len(inflight'[d]) : list = inflight'[d][n].coins
    BY DEF CallLists
  <2> QED BY <2>1, <1>7
<1> QED BY <1>2, <1>4, <1>6, <1>8

\* A process that ends loses its calls and brings no list.
LEMMA StopQueue ==
  ASSUME TypeOK, NEW c \in Client, Stop(c)
  PROVE  /\ inflight' \in [Client -> Seq(Call)]
         /\ CallLists' \subseteq CallLists
<1>1. inflight \in [Client -> Seq(Call)] /\ inflight' = [inflight EXCEPT ![c] = <<>>]
  BY DEF TypeOK, Stop
<1>2. inflight' \in [Client -> Seq(Call)]
  BY <1>1, EmptySeq
<1>3. ASSUME NEW d \in Client, NEW n \in 1..Len(inflight'[d])
      PROVE  inflight'[d][n].coins \in CallLists
  <2>1. d # c
    BY <1>1, <1>3, EmptySeq
  <2> QED BY <1>1, <2>1 DEF CallLists
<1>4. ASSUME NEW list \in CallLists'
      PROVE  list \in CallLists
  <2>1. PICK d \in Client :
          \E n \in 1..Len(inflight'[d]) : list = inflight'[d][n].coins
    BY DEF CallLists
  <2> QED BY <2>1, <1>3
<1> QED BY <1>2, <1>4

\* The lists of a queued write are among the lists.
LEMMA WriteInLists ==
  ASSUME NEW c \in Client, NEW n \in 1..Len(pending[c])
  PROVE  pending[c][n].coins \in WriteLists /\ pending[c][n].base \in WriteLists
BY DEF WriteLists

\* setData queues one write and brings its two lists.
LEMMA SetDataQueue ==
  ASSUME TypeOK, NEW c \in Client, NEW coins \in Seq(Entry),
         NEW base \in Seq(Entry), NEW sold \in SUBSET Coin,
         SetData(c, coins, base, sold)
  PROVE  /\ pending' \in [Client -> Seq(Write)]
         /\ WriteLists' \subseteq WriteLists \cup {coins, base}
<1> DEFINE write == [coins |-> coins, base |-> base, sold |-> sold]
           queue == Append(pending[c], write)
<1>1. pending \in [Client -> Seq(Write)] /\ pending[c] \in Seq(Write)
  BY DEF TypeOK
<1>2. write \in Write /\ write.coins = coins /\ write.base = base
  BY DEF Write
<1>3. pending' = [pending EXCEPT ![c] = queue]
  BY DEF SetData
<1> HIDE DEF write
<1>4. /\ queue \in Seq(Write)
      /\ Len(queue) = Len(pending[c]) + 1
      /\ \A j \in 1..Len(pending[c]) : queue[j] = pending[c][j]
      /\ queue[Len(pending[c]) + 1] = write
      /\ Len(pending[c]) \in Nat
  BY <1>1, <1>2, AppendProperties, LenProperties
<1> HIDE DEF queue
<1>5. pending' \in [Client -> Seq(Write)]
  BY <1>1, <1>3, <1>4
<1>6. ASSUME NEW d \in Client, NEW n \in 1..Len(pending'[d])
      PROVE  /\ pending'[d][n].coins \in WriteLists \cup {coins, base}
             /\ pending'[d][n].base \in WriteLists \cup {coins, base}
  <2>1. CASE d = c /\ n = Len(pending[c]) + 1
    BY <1>1, <1>2, <1>3, <1>4, <2>1
  <2>2. CASE d = c /\ n # Len(pending[c]) + 1
    <3>1. n \in 1..Len(pending[c]) /\ pending'[c][n] = pending[c][n]
      BY <1>1, <1>3, <1>4, <2>2
    <3> QED BY <2>2, <3>1, WriteInLists
  <2>3. CASE d # c
    BY <1>1, <1>3, <2>3, WriteInLists
  <2> QED BY <2>1, <2>2, <2>3
<1>7. ASSUME NEW list \in WriteLists'
      PROVE  list \in WriteLists \cup {coins, base}
  <2>1. PICK d \in Client : \E n \in 1..Len(pending'[d]) :
          list = pending'[d][n].coins \/ list = pending'[d][n].base
    BY DEF WriteLists
  <2> QED BY <2>1, <1>6
<1> QED BY <1>5, <1>7

\* The oldest write is a write, and its list is one of the lists.
LEMMA OldestWrite ==
  ASSUME TypeOK, NEW c \in Client, pending[c] # <<>>
  PROVE  Head(pending[c]) \in Write /\ Head(pending[c]).coins \in WriteLists
<1>1. pending[c] \in Seq(Write)
  BY DEF TypeOK
<1>2. Head(pending[c]) = pending[c][1] /\ Head(pending[c]) \in Write
  BY <1>1, HeadTailProperties
<1>3. 1 \in 1..Len(pending[c])
  BY <1>1, EmptySeq
<1> QED BY <1>2, <1>3 DEF WriteLists

\* The end of the oldest write brings no list.
LEMMA DequeueQueue ==
  ASSUME TypeOK, NEW c \in Client, pending[c] # <<>>, Dequeue(c)
  PROVE  /\ Head(pending[c]) \in Write
         /\ Head(pending[c]).coins \in WriteLists
         /\ pending' \in [Client -> Seq(Write)]
         /\ WriteLists' \subseteq WriteLists
<1>1. pending \in [Client -> Seq(Write)] /\ pending[c] \in Seq(Write)
  BY DEF TypeOK
<1>2. /\ Head(pending[c]) \in Write
      /\ Tail(pending[c]) \in Seq(Write)
      /\ Len(Tail(pending[c])) = Len(pending[c]) - 1
      /\ \A j \in 1..Len(Tail(pending[c])) : Tail(pending[c])[j] = pending[c][j + 1]
  BY <1>1, HeadTailProperties
<1>3. Len(pending[c]) \in Nat \ {0}
  BY <1>1, EmptySeq
<1>4. Head(pending[c]).coins \in WriteLists
  <2>1. Head(pending[c]) = pending[c][1] /\ 1 \in 1..Len(pending[c])
    BY <1>1, <1>3
  <2> QED BY <2>1 DEF WriteLists
<1>5. pending' = [pending EXCEPT ![c] = Tail(pending[c])]
  BY DEF Dequeue
<1>6. pending' \in [Client -> Seq(Write)]
  BY <1>1, <1>2, <1>5
<1>7. ASSUME NEW d \in Client, NEW n \in 1..Len(pending'[d])
      PROVE  pending'[d][n].coins \in WriteLists /\ pending'[d][n].base \in WriteLists
  <2>1. CASE d = c
    <3>1. n + 1 \in 1..Len(pending[c]) /\ pending'[c][n] = pending[c][n + 1]
      BY <1>1, <1>2, <1>3, <1>5, <2>1
    <3> QED BY <2>1, <3>1, WriteInLists
  <2>2. CASE d # c
    BY <1>1, <1>5, <2>2, WriteInLists
  <2> QED BY <2>1, <2>2
<1>8. ASSUME NEW list \in WriteLists'
      PROVE  list \in WriteLists
  <2>1. PICK d \in Client : \E n \in 1..Len(pending'[d]) :
          list = pending'[d][n].coins \/ list = pending'[d][n].base
    BY DEF WriteLists
  <2> QED BY <2>1, <1>7
<1> QED BY <1>2, <1>4, <1>6, <1>8

\* A view is a list there is.
LEMMA OverlayIsList ==
  ASSUME TypeOK, NEW c \in Client, NEW doc \in Doc, doc.coins \in Lists
  PROVE  Overlay(c, doc).coins \in Lists
<1>1. CASE pending[c] = <<>>
  BY <1>1 DEF Overlay
<1>2. CASE pending[c] # <<>>
  <2>1. Len(pending[c]) \in 1..Len(pending[c])
    BY <1>2, EmptySeq DEF TypeOK
  <2>2. Overlay(c, doc).coins = pending[c][Len(pending[c])].coins
    BY <1>2 DEF Overlay, Document, Last
  <2> QED BY <2>1, <2>2 DEF Lists, WriteLists
<1> QED BY <1>1, <1>2

-----------------------------------------------------------------------------
(* The lists a step makes.                                                  *)

Shorter(list) == \E old \in Lists : \E i \in 1..Len(old) : list = RemoveAt(old, i)

Longer(list) ==
  \E old \in Lists, lot \in Lot :
      /\ list = WithLot(old, lot)
      /\ bought' = [bought EXCEPT ![lot.id] = @ + lot.qty]

Made(list) == list \in Lists \/ list = <<>> \/ Shorter(list) \/ Longer(list)

\* Every list of the next state is made in one of these four ways, the types
\* are kept, and what was bought only grows.
StepResult ==
  /\ TypeOK'
  /\ \A list \in Lists' : Made(list)
  /\ bought' = bought \/ \E lot \in Lot : bought' = [bought EXCEPT ![lot.id] = @ + lot.qty]

\* Every list there is is a sequence of entries.
LEMMA ListsTyped ==
  ASSUME TypeOK
  PROVE  Lists \subseteq Seq(Entry)
<1>1. /\ remote.coins \in Seq(Entry)
      /\ \A c \in Client : cache[c].coins \in Seq(Entry) /\ shown[c] \in Seq(Entry)
  BY DEF TypeOK, Doc
<1>2. ASSUME NEW list \in CallLists
      PROVE  list \in Seq(Entry)
  <2>1. PICK c \in Client : \E n \in 1..Len(inflight[c]) : list = inflight[c][n].coins
    BY DEF CallLists
  <2>2. \A n \in 1..Len(inflight[c]) : inflight[c][n] \in Call
    BY ElementOfSeq DEF TypeOK
  <2> QED BY <2>1, <2>2 DEF Call
<1>3. ASSUME NEW list \in WriteLists
      PROVE  list \in Seq(Entry)
  <2>1. PICK c \in Client : \E n \in 1..Len(pending[c]) :
          list = pending[c][n].coins \/ list = pending[c][n].base
    BY DEF WriteLists
  <2>2. \A n \in 1..Len(pending[c]) : pending[c][n] \in Write
    BY ElementOfSeq DEF TypeOK
  <2> QED BY <2>1, <2>2 DEF Write
<1> QED BY <1>1, <1>2, <1>3 DEF Lists

\* A step that starts, answers or drops calls and touches no other list.
LEMMA OnlyCalls ==
  ASSUME CallLists' \subseteq CallLists \cup {<<>>} \cup Lists,
         UNCHANGED <<remote, cache, shown, pending>>
  PROVE  \A list \in Lists' : list \in Lists \/ list = <<>>
BY DEF Lists, WriteLists

\* Starting a call makes a list of one of the four forms.
LEMMA StartCall ==
  ASSUME TypeOK, NEW c \in Client, Calls(c)
  PROVE  StepResult
<1>1. CASE CreateUser(c)
  <2> DEFINE call == Told(NewCall("create", NoEntry), "answered", <<>>)
  <2>1. call \in Call /\ call.coins = <<>>
    BY EmptySeq DEF Call, State, Told, NewCall
  <2> HIDE DEF call
  <2>2. Start(c, call) /\ account' = TRUE /\ UNCHANGED <<remote, cache, pending, shown, bought>>
    BY <1>1 DEF CreateUser, call
  <2>3. /\ inflight' \in [Client -> Seq(Call)]
        /\ calls' \in 0..MaxCalls
        /\ CallLists' \subseteq CallLists \cup {<<>>}
    BY <2>1, <2>2, StartQueue
  <2>4. TypeOK'
    BY <2>2, <2>3 DEF TypeOK
  <2> QED BY <2>2, <2>3, <2>4, OnlyCalls DEF StepResult, Made
<1>2. ASSUME NEW call \in Call, call.coins = <<>>, Start(c, call),
             UNCHANGED <<account, remote, cache, pending, shown, bought>>
      PROVE  StepResult
  <2>1. /\ inflight' \in [Client -> Seq(Call)]
        /\ calls' \in 0..MaxCalls
        /\ CallLists' \subseteq CallLists \cup {<<>>}
    BY <1>2, StartQueue
  <2>2. TypeOK'
    BY <1>2, <2>1 DEF TypeOK
  <2> QED BY <1>2, <2>1, <2>2, OnlyCalls DEF StepResult, Made
<1>3. CASE GetPortfolio(c)
  <2> DEFINE call == NewCall("get", NoEntry)
  <2>1. call \in Call /\ call.coins = <<>>
    BY EmptySeq DEF Call, State, NewCall
  <2> QED BY <1>2, <1>3, <2>1 DEF GetPortfolio
<1>4. ASSUME NEW lot \in Lot, Add(c, lot)
      PROVE  StepResult
  <2> DEFINE call == NewCall("add", lot)
  <2>1. call \in Call /\ call.coins = <<>>
    BY EmptySeq DEF Call, State, NewCall
  <2> QED BY <1>2, <1>4, <2>1 DEF Add
<1>5. ASSUME NEW i \in 1..Len(shown[c]), Delete(c, i)
      PROVE  StepResult
  <2> DEFINE call == NewCall("delete", shown[c][i])
             rest == RemoveAt(shown[c], i)
  <2>1. shown \in [Client -> Seq(Entry)] /\ shown[c] \in Seq(Entry)
    BY DEF TypeOK
  <2>2. shown[c][i] \in Entry /\ rest \in Seq(Entry)
    BY <2>1, ElementOfSeq, RemoveAtEntries
  <2>3. call \in Call /\ call.coins = <<>>
    BY <2>2, EmptySeq DEF Call, State, NewCall
  <2>4. /\ Start(c, call)
        /\ shown' = [shown EXCEPT ![c] = rest]
        /\ UNCHANGED <<account, remote, cache, pending, bought>>
    BY <1>5 DEF Delete
  <2>5. Shorter(rest)
    BY DEF Shorter, Lists
  <2> HIDE DEF call, rest
  <2>6. /\ inflight' \in [Client -> Seq(Call)]
        /\ calls' \in 0..MaxCalls
        /\ CallLists' \subseteq CallLists \cup {<<>>}
    BY <2>3, <2>4, StartQueue
  <2>7. shown' \in [Client -> Seq(Entry)]
    BY <2>1, <2>2, <2>4
  <2>8. TypeOK'
    BY <2>4, <2>6, <2>7 DEF TypeOK
  <2>9. \A list \in Lists' : list \in Lists \/ list = <<>> \/ list = rest
    BY <2>1, <2>4, <2>6 DEF Lists, WriteLists
  <2> QED BY <2>4, <2>5, <2>8, <2>9 DEF StepResult, Made
<1> QED BY <1>1, <1>3, <1>4, <1>5 DEF Calls

\* An answer makes a list of one of the four forms.
LEMMA AnswerCall ==
  ASSUME TypeOK, NEW c \in Client, Answers(c)
  PROVE  StepResult
<1>1. ASSUME NEW i \in 1..Len(inflight[c]), NEW state \in State,
             NEW coins \in Lists \cup {<<>>}, Answer(c, i, state, coins),
             cache' = cache \/ cache' = [cache EXCEPT ![c] = remote],
             UNCHANGED <<account, remote, pending, shown, calls, bought>>
      PROVE  StepResult
  <2>1. coins \in Seq(Entry)
    BY ListsTyped, EmptySeq
  <2>2. inflight' \in [Client -> Seq(Call)] /\ CallLists' \subseteq CallLists \cup {coins}
    BY <1>1, <2>1, AnswerQueue
  <2>3. cache' \in [Client -> Doc]
    BY <1>1 DEF TypeOK
  <2>4. TypeOK'
    BY <1>1, <2>2, <2>3 DEF TypeOK
  <2>5. \A d \in Client : cache'[d].coins \in Lists
    BY <1>1 DEF Lists, TypeOK
  <2>6. ASSUME NEW list \in Lists'
        PROVE  list \in Lists \/ list = <<>>
    <3>1. CASE list \in CallLists'
      BY <2>2, <3>1 DEF Lists
    <3>2. CASE list \in {cache[d].coins : d \in Client}'
      BY <2>5, <3>2
    <3>3. CASE list \in ({remote.coins} \cup {shown[d] : d \in Client} \cup WriteLists)'
      BY <1>1, <3>3 DEF Lists, WriteLists
    <3> QED BY <3>1, <3>2, <3>3 DEF Lists
  <2> QED BY <1>1, <2>4, <2>6 DEF StepResult, Made
<1>2. CASE AnswerOnline(c)
  <2>1. remote \in Doc /\ remote.coins \in Lists
    BY DEF TypeOK, Lists
  <2>2. Visible(c).coins \in Lists
    BY <2>1, OverlayIsList DEF Visible
  <2> QED BY <1>1, <1>2, <2>2 DEF AnswerOnline, NextAsked, State
<1>3. CASE AnswerFromCache(c)
  <2>1. cache[c] \in Doc /\ cache[c].coins \in Lists
    BY DEF TypeOK, Lists
  <2>2. Overlay(c, cache[c]).coins \in Lists
    BY <2>1, OverlayIsList
  <2> QED BY <1>1, <1>3, <2>2 DEF AnswerFromCache, NextAsked, State
<1>4. CASE AnswerError(c)
  BY <1>1, <1>4 DEF AnswerError, NextAsked, State
<1> QED BY <1>2, <1>3, <1>4 DEF Answers

\* The end of a process makes no list but the empty screen's.
LEMMA StopClient ==
  ASSUME TypeOK, NEW c \in Client, Stop(c)
  PROVE  StepResult
<1>1. inflight' \in [Client -> Seq(Call)] /\ CallLists' \subseteq CallLists
  BY StopQueue
<1>2. shown' = [shown EXCEPT ![c] = <<>>] /\ shown \in [Client -> Seq(Entry)]
  BY DEF Stop, TypeOK
<1>3. shown' \in [Client -> Seq(Entry)]
  BY <1>2, EmptySeq
<1>4. UNCHANGED <<account, remote, cache, pending, calls, bought>>
  BY DEF Stop
<1>5. TypeOK'
  BY <1>1, <1>3, <1>4 DEF TypeOK
<1>6. \A list \in Lists' : list \in Lists \/ list = <<>>
  BY <1>1, <1>2, <1>4 DEF Lists, WriteLists
<1> QED BY <1>4, <1>5, <1>6 DEF StepResult, Made

\* A completion makes a list of one of the four forms.
LEMMA CompleteCall ==
  ASSUME TypeOK, OneEntryPerCoin, NEW c \in Client, Completions(c)
  PROVE  StepResult
<1> DEFINE call == Head(inflight[c])
<1>1. ASSUME inflight[c] # <<>>, Finish(c)
      PROVE  /\ call \in Call /\ call.coins \in Lists /\ call.coins \in Seq(Entry)
             /\ inflight' \in [Client -> Seq(Call)]
             /\ CallLists' \subseteq CallLists
  BY <1>1, FinishQueue, ListsTyped DEF Lists
<1>2. ASSUME inflight[c] # <<>>, Finish(c),
             UNCHANGED <<account, remote, cache, pending, shown, calls, bought>>
      PROVE  StepResult
  <2>1. inflight' \in [Client -> Seq(Call)] /\ CallLists' \subseteq CallLists
    BY <1>1, <1>2
  <2>2. TypeOK'
    BY <1>2, <2>1 DEF TypeOK
  <2> QED BY <1>2, <2>1, <2>2, OnlyCalls DEF StepResult, Made
<1>3. ASSUME inflight[c] # <<>>, Finish(c),
             NEW coins \in Seq(Entry), NEW base \in Lists \cup {<<>>},
             NEW sold \in SUBSET Coin, SetData(c, coins, base, sold),
             UNCHANGED <<account, remote, cache, shown, calls>>
      PROVE  /\ bought' \in [Coin -> Nat] => TypeOK'
             /\ \A list \in Lists' : list \in Lists \/ list = <<>> \/ list = coins
  <2>1. inflight' \in [Client -> Seq(Call)] /\ CallLists' \subseteq CallLists
    BY <1>1, <1>3
  <2>2. base \in Seq(Entry)
    BY ListsTyped, EmptySeq
  <2>3. pending' \in [Client -> Seq(Write)] /\ WriteLists' \subseteq WriteLists \cup {coins, base}
    BY <1>3, <2>2, SetDataQueue
  <2>4. bought' \in [Coin -> Nat] => TypeOK'
    BY <1>3, <2>1, <2>3 DEF TypeOK
  <2>5. \A list \in Lists' : list \in Lists \/ list = <<>> \/ list = coins
    BY <1>3, <2>1, <2>3 DEF Lists
  <2> QED BY <2>4, <2>5
<1>4. CASE RunCreate(c)
  <2>1. /\ inflight[c] # <<>> /\ Finish(c) /\ SetData(c, <<>>, <<>>, {})
        /\ UNCHANGED <<account, remote, cache, shown, calls, bought>>
    BY <1>4 DEF RunCreate, Ready
  <2>2. bought' \in [Coin -> Nat]
    BY <2>1 DEF TypeOK
  <2>3. <<>> \in Seq(Entry) /\ <<>> \in Lists \cup {<<>>} /\ {} \in SUBSET Coin
    BY EmptySeq
  <2>4. /\ bought' \in [Coin -> Nat] => TypeOK'
        /\ \A list \in Lists' : list \in Lists \/ list = <<>> \/ list = <<>>
    BY <1>3, <2>1, <2>3
  <2> QED BY <2>1, <2>2, <2>4 DEF StepResult, Made
<1>5. CASE RunGet(c)
  <2>1. /\ inflight[c] # <<>> /\ Finish(c)
        /\ shown' = [shown EXCEPT ![c] = call.coins]
        /\ UNCHANGED <<account, remote, cache, pending, calls, bought>>
    BY <1>5 DEF RunGet, Ready
  <2> HIDE DEF call
  <2>2. /\ call.coins \in Lists /\ call.coins \in Seq(Entry)
        /\ inflight' \in [Client -> Seq(Call)] /\ CallLists' \subseteq CallLists
    BY <1>1, <2>1
  <2>3. shown \in [Client -> Seq(Entry)] /\ shown' \in [Client -> Seq(Entry)]
    BY <2>1, <2>2 DEF TypeOK
  <2>4. TypeOK'
    BY <2>1, <2>2, <2>3 DEF TypeOK
  <2>5. \A d \in Client : shown'[d] \in Lists
    BY <2>1, <2>2, <2>3 DEF Lists
  <2>6. \A list \in Lists' : list \in Lists
    BY <2>1, <2>2, <2>5 DEF Lists, WriteLists
  <2> QED BY <2>1, <2>4, <2>6 DEF StepResult, Made
<1>6. CASE RunAdd(c)
  <2> DEFINE new == WithLot(call.coins, call.lot)
  <2>1. /\ inflight[c] # <<>> /\ Finish(c) /\ call.kind = "add"
        /\ SetData(c, new, call.coins, {})
        /\ bought' = [bought EXCEPT ![call.lot.id] = bought[call.lot.id] + call.lot.qty]
        /\ UNCHANGED <<account, remote, cache, shown, calls>>
    BY <1>6 DEF RunAdd, Ready
  <2>2. call \in Call /\ call.coins \in Lists /\ call.coins \in Seq(Entry)
    BY <1>1, <2>1
  <2>3. call.lot \in Lot /\ call.lot \in Entry
    BY <2>1, <2>2, LotIsEntry DEF Call
  <2>4. new \in Seq(Entry)
    BY <2>2, <2>3, WithLotEntries DEF OneEntryPerCoin
  <2> HIDE DEF call
  <2>5. bought' \in [Coin -> Nat]
    <3>1. call.lot.id \in Coin /\ call.lot.qty \in Nat
      BY <2>3 DEF Entry
    <3>2. bought \in [Coin -> Nat]
      BY DEF TypeOK
    <3>3. bought[call.lot.id] + call.lot.qty \in Nat
      BY <3>1, <3>2
    <3> QED BY <2>1, <3>2, <3>3
  <2>6. Longer(new)
    BY <2>1, <2>2, <2>3 DEF Longer
  <2> HIDE DEF new
  <2>7. TypeOK' /\ \A list \in Lists' : list \in Lists \/ list = <<>> \/ list = new
    BY <1>3, <2>1, <2>2, <2>4, <2>5
  <2> QED BY <2>1, <2>3, <2>6, <2>7 DEF StepResult, Made
<1>7. CASE RunDelete(c)
  <2> DEFINE k == call.lot.id
             new == Without(call.coins, k)
  <2>1. /\ inflight[c] # <<>> /\ Finish(c) /\ Held(call.coins, k)
        /\ SetData(c, new, call.coins, {k})
        /\ call.kind = "delete"
        /\ UNCHANGED <<account, remote, cache, shown, calls, bought>>
    BY <1>7 DEF RunDelete, Ready
  <2>2. call \in Call /\ call.coins \in Lists /\ call.coins \in Seq(Entry)
    BY <1>1, <2>1
  <2>3. k \in Coin
    BY <2>1, <2>2 DEF Call, Entry
  <2>4. Position(call.coins, k) \in 1..Len(call.coins)
    BY <2>1, <2>2, PositionFound DEF OneEntryPerCoin
  <2>5. new \in Seq(Entry)
    BY <2>2, <2>4, RemoveAtEntries DEF Without
  <2>6. Shorter(new)
    BY <2>2, <2>4 DEF Shorter, Without
  <2> HIDE DEF call, k, new
  <2>7. bought' \in [Coin -> Nat]
    BY <2>1 DEF TypeOK
  <2>8. {k} \in SUBSET Coin
    BY <2>3
  <2>9. TypeOK' /\ \A list \in Lists' : list \in Lists \/ list = <<>> \/ list = new
    BY <1>3, <2>1, <2>2, <2>5, <2>7, <2>8
  <2> QED BY <2>1, <2>6, <2>9 DEF StepResult, Made
<1>8. CASE RunDeleteMiss(c)
  BY <1>2, <1>8 DEF RunDeleteMiss, Ready
<1>9. CASE TrapDelete(c)
  BY <1>9, StopClient DEF TrapDelete
<1>10. CASE RunFailed(c)
  BY <1>2, <1>10 DEF RunFailed
<1> QED BY <1>4, <1>5, <1>6, <1>7, <1>8, <1>9, <1>10 DEF Completions

\* An answer of the server to a write, read or not, makes no new list.
LEMMA SendWrite ==
  ASSUME TypeOK, NEW c \in Client, Upload(c) \/ UploadUnanswered(c) \/ Reject(c)
  PROVE  StepResult
<1>1. ASSUME pending[c] # <<>>, Dequeue(c)
      PROVE  /\ Head(pending[c]) \in Write /\ Head(pending[c]).coins \in Lists
             /\ pending' \in [Client -> Seq(Write)] /\ WriteLists' \subseteq WriteLists
  BY <1>1, DequeueQueue DEF Lists
<1>2. CASE Upload(c)
  <2> DEFINE coins == Head(pending[c]).coins
  <2>1. /\ pending[c] # <<>> /\ Dequeue(c)
        /\ remote' = Document(coins)
        /\ cache' = [cache EXCEPT ![c] = remote']
        /\ UNCHANGED <<account, inflight, shown, calls, bought>>
    BY <1>2 DEF Upload
  <2>2. /\ coins \in Lists /\ coins \in Seq(Entry)
        /\ pending' \in [Client -> Seq(Write)] /\ WriteLists' \subseteq WriteLists
    BY <1>1, <2>1, ListsTyped
  <2> HIDE DEF coins
  <2>3. remote' \in Doc /\ remote'.coins = coins
    BY <2>1, <2>2 DEF Document, Doc
  <2>4. cache \in [Client -> Doc] /\ cache' \in [Client -> Doc]
    BY <2>1, <2>3 DEF TypeOK
  <2>5. TypeOK'
    BY <2>1, <2>2, <2>3, <2>4 DEF TypeOK
  <2>6. \A d \in Client : cache'[d].coins \in Lists
    BY <2>1, <2>2, <2>3, <2>4 DEF Lists
  <2>7. \A list \in Lists' : list \in Lists
    BY <2>1, <2>2, <2>3, <2>6 DEF Lists, CallLists
  <2> QED BY <2>1, <2>5, <2>7 DEF StepResult, Made
<1>3. CASE Reject(c)
  <2>1. /\ pending[c] # <<>> /\ Dequeue(c)
        /\ UNCHANGED <<account, remote, cache, inflight, shown, calls, bought>>
    BY <1>3 DEF Reject
  <2>2. pending' \in [Client -> Seq(Write)] /\ WriteLists' \subseteq WriteLists
    BY <1>1, <2>1
  <2>3. TypeOK'
    BY <2>1, <2>2 DEF TypeOK
  <2>4. \A list \in Lists' : list \in Lists
    BY <2>1, <2>2 DEF Lists, CallLists
  <2> QED BY <2>1, <2>3, <2>4 DEF StepResult, Made
<1>4. CASE UploadUnanswered(c)
  <2> DEFINE coins == Head(pending[c]).coins
  <2>1. /\ pending[c] # <<>>
        /\ remote' = Document(coins)
        /\ UNCHANGED <<account, cache, pending, inflight, shown, calls, bought>>
    BY <1>4 DEF UploadUnanswered
  <2>2. coins \in WriteLists /\ coins \in Lists /\ coins \in Seq(Entry)
    BY <2>1, OldestWrite, ListsTyped DEF Lists
  <2> HIDE DEF coins
  <2>3. remote' \in Doc /\ remote'.coins = coins
    BY <2>1, <2>2 DEF Document, Doc
  <2>4. TypeOK'
    BY <2>1, <2>3 DEF TypeOK
  <2>5. \A list \in Lists' : list \in Lists
    BY <2>1, <2>2, <2>3 DEF Lists, CallLists, WriteLists
  <2> QED BY <2>1, <2>4, <2>5 DEF StepResult, Made
<1> QED BY <1>2, <1>3, <1>4

\* Every step makes a list of one of the four forms, and keeps the types.
LEMMA StepMakes ==
  ASSUME TypeOK, OneEntryPerCoin, [Next]_vars
  PROVE  StepResult
<1>1. CASE UNCHANGED vars
  <2>1. TypeOK' /\ Lists' = Lists /\ bought' = bought
    BY <1>1 DEF vars, TypeOK, Lists, CallLists, WriteLists
  <2> QED BY <2>1 DEF StepResult, Made
<1>2. CASE Next
  <2>1. PICK c \in Client :
          Calls(c) \/ Answers(c) \/ Completions(c) \/ Upload(c) \/ UploadUnanswered(c)
            \/ Reject(c) \/ Kill(c)
    BY <1>2 DEF Next
  <2> QED BY <2>1, StartCall, AnswerCall, CompleteCall, SendWrite, StopClient DEF Kill
<1> QED BY <1>1, <1>2

-----------------------------------------------------------------------------
(* What the two ways to make a new list do to prices and quantities.        *)

\* The price of a lot is between the limits.
LEMMA LotPrices ==
  ASSUME NEW lot \in Lot
  PROVE  /\ lot.qty > 0
         /\ MinPrice * lot.qty <= lot.cost
         /\ lot.cost <= MaxPrice * lot.qty
<1>1. PICK k \in Coin, q \in Quantity, p \in MinPrice..MaxPrice :
        lot = [id |-> k, qty |-> q, cost |-> q * p]
  BY DEF Lot
<1>2. /\ q \in Nat /\ q > 0 /\ p \in Nat
      /\ MinPrice \in Nat /\ MaxPrice \in Nat /\ MinPrice <= p /\ p <= MaxPrice
  BY QuantityAssumption, PriceAssumption
<1>3. MinPrice * q <= q * p /\ q * p <= MaxPrice * q
  BY <1>2
<1> QED BY <1>1, <1>2, <1>3

\* The weighted mean of two prices between the limits is between them.
LEMMA MergedPrices ==
  ASSUME NEW entry \in Entry, NEW lot \in Entry,
         entry.qty > 0, MinPrice * entry.qty <= entry.cost, entry.cost <= MaxPrice * entry.qty,
         lot.qty > 0, MinPrice * lot.qty <= lot.cost, lot.cost <= MaxPrice * lot.qty
  PROVE  LET new == Merged(entry, lot)
         IN  /\ new.qty > 0
             /\ MinPrice * new.qty <= new.cost
             /\ new.cost <= MaxPrice * new.qty
<1>1. /\ entry.qty \in Nat /\ entry.cost \in Nat /\ lot.qty \in Nat /\ lot.cost \in Nat
      /\ MinPrice \in Nat /\ MaxPrice \in Nat
  BY PriceAssumption DEF Entry
<1>2. /\ MinPrice * (entry.qty + lot.qty) = MinPrice * entry.qty + MinPrice * lot.qty
      /\ MaxPrice * (entry.qty + lot.qty) = MaxPrice * entry.qty + MaxPrice * lot.qty
  BY <1>1
<1>3. /\ MinPrice * entry.qty \in Nat /\ MinPrice * lot.qty \in Nat
      /\ MaxPrice * entry.qty \in Nat /\ MaxPrice * lot.qty \in Nat
  BY <1>1
<1> QED BY <1>1, <1>2, <1>3, MergedEntry

\* Adding a lot keeps every mean price between the limits.
LEMMA WithLotPrices ==
  ASSUME NEW coins \in Seq(Entry), NEW lot \in Lot, NoCoinTwice(coins), PricesHold(coins)
  PROVE  PricesHold(WithLot(coins, lot))
<1> DEFINE new == WithLot(coins, lot)
<1>1. lot \in Entry
  BY LotIsEntry
<1>2. CASE Held(coins, lot.id)
  <2> DEFINE i == Position(coins, lot.id)
             merged == Merged(coins[i], lot)
  <2>1. i \in 1..Len(coins) /\ coins[i] \in Entry
    BY <1>2, PositionFound, ElementOfSeq
  <2>2. merged.qty > 0 /\ MinPrice * merged.qty <= merged.cost /\ merged.cost <= MaxPrice * merged.qty
    BY <1>1, <2>1, LotPrices, MergedPrices DEF PricesHold
  <2>3. /\ Len(new) = Len(coins)
        /\ \A j \in 1..Len(coins) : new[j] = IF j = i THEN merged ELSE coins[j]
    BY <1>1, <1>2, WithLotEntries
  <2> HIDE DEF new, i, merged
  <2> QED BY <2>1, <2>2, <2>3 DEF PricesHold, new
<1>3. CASE ~Held(coins, lot.id)
  <2>1. /\ Len(new) = Len(coins) + 1
        /\ \A j \in 1..Len(coins) : new[j] = coins[j]
        /\ new[Len(coins) + 1] = lot
        /\ Len(coins) \in Nat
    BY <1>1, <1>3, WithLotEntries, LenProperties
  <2> HIDE DEF new
  <2>2. ASSUME NEW j \in 1..Len(new)
        PROVE  /\ new[j].qty > 0
               /\ MinPrice * new[j].qty <= new[j].cost
               /\ new[j].cost <= MaxPrice * new[j].qty
    <3>1. CASE j = Len(coins) + 1
      BY <2>1, <3>1, LotPrices
    <3>2. CASE j # Len(coins) + 1
      BY <2>1, <3>2 DEF PricesHold
    <3> QED BY <3>1, <3>2
  <2> QED BY <2>2 DEF PricesHold, new
<1> QED BY <1>2, <1>3

\* Removing an entry keeps every mean price between the limits.
LEMMA RemoveAtPrices ==
  ASSUME NEW coins \in Seq(Entry), NEW i \in 1..Len(coins), PricesHold(coins)
  PROVE  PricesHold(RemoveAt(coins, i))
<1> DEFINE new == RemoveAt(coins, i)
<1>1. /\ Len(coins) \in Nat /\ Len(new) = Len(coins) - 1
      /\ \A j \in 1..(Len(coins) - 1) : new[j] = IF j < i THEN coins[j] ELSE coins[j + 1]
  BY RemoveAtEntries, LenProperties
<1> HIDE DEF new
<1>2. \A j \in 1..Len(new) : \E m \in 1..Len(coins) : new[j] = coins[m]
  <2> TAKE j \in 1..Len(new)
  <2>1. j \in 1..Len(coins) /\ j + 1 \in 1..Len(coins)
    BY <1>1
  <2> QED BY <1>1, <2>1
<1> QED BY <1>2 DEF PricesHold, new

\* A lot adds to a list what it adds to the quantity bought.
LEMMA WithLotBought ==
  ASSUME NEW coins \in Seq(Entry), NEW lot \in Lot, NoCoinTwice(coins),
         bought \in [Coin -> Nat], WithinBought(coins),
         bought' = [bought EXCEPT ![lot.id] = @ + lot.qty]
  PROVE  LET new == WithLot(coins, lot)
         IN  \A j \in 1..Len(new) : new[j].qty <= bought'[new[j].id]
<1> DEFINE new == WithLot(coins, lot)
<1>1. lot \in Entry /\ lot.id \in Coin /\ lot.qty \in Nat
  BY LotIsEntry DEF Entry
<1>2. \A k \in Coin : /\ bought[k] \in Nat
                      /\ bought'[k] = IF k = lot.id THEN bought[k] + lot.qty ELSE bought[k]
  BY <1>1
<1>3. \A j \in 1..Len(coins) : /\ coins[j] \in Entry
                               /\ coins[j].id \in Coin /\ coins[j].qty \in Nat
                               /\ coins[j].qty <= bought[coins[j].id]
  <2>1. \A j \in 1..Len(coins) : coins[j] \in Entry
    BY ElementOfSeq
  <2>2. \A j \in 1..Len(coins) : coins[j].qty <= bought[coins[j].id]
    BY DEF WithinBought
  <2> QED BY <2>1, <2>2 DEF Entry
<1>4. CASE Held(coins, lot.id)
  <2> DEFINE i == Position(coins, lot.id)
             merged == Merged(coins[i], lot)
  <2>1. i \in 1..Len(coins) /\ coins[i].id = lot.id
    BY <1>4, PositionFound
  <2>2. merged.id = lot.id /\ merged.qty = coins[i].qty + lot.qty
    BY <1>1, <1>3, <2>1, MergedEntry
  <2>3. /\ Len(new) = Len(coins)
        /\ \A j \in 1..Len(coins) : new[j] = IF j = i THEN merged ELSE coins[j]
    BY <1>1, <1>4, WithLotEntries
  <2> HIDE DEF new, i, merged
  <2>4. merged.qty <= bought'[merged.id]
    BY <1>1, <1>2, <1>3, <2>1, <2>2
  <2>5. \A j \in 1..Len(coins) : coins[j].qty <= bought'[coins[j].id]
    BY <1>1, <1>2, <1>3
  <2>6. \A j \in 1..Len(new) : new[j].qty <= bought'[new[j].id]
    BY <2>3, <2>4, <2>5
  <2> QED BY <2>6 DEF new
<1>5. CASE ~Held(coins, lot.id)
  <2>1. /\ Len(new) = Len(coins) + 1
        /\ \A j \in 1..Len(coins) : new[j] = coins[j]
        /\ new[Len(coins) + 1] = lot
        /\ Len(coins) \in Nat
    BY <1>1, <1>5, WithLotEntries, LenProperties
  <2> HIDE DEF new
  <2>2. lot.qty <= bought'[lot.id]
    BY <1>1, <1>2
  <2>3. \A j \in 1..Len(coins) : coins[j].qty <= bought'[coins[j].id]
    BY <1>1, <1>2, <1>3
  <2>4. ASSUME NEW j \in 1..Len(new)
        PROVE  new[j].qty <= bought'[new[j].id]
    <3>1. CASE j = Len(coins) + 1
      BY <2>1, <2>2, <3>1
    <3>2. CASE j # Len(coins) + 1
      BY <2>1, <2>3, <3>2
    <3> QED BY <3>1, <3>2
  <2> QED BY <2>4 DEF new
<1> QED BY <1>4, <1>5

-----------------------------------------------------------------------------
(* The invariants.  OneEntryPerCoin makes the others inductive: it is what   *)
(* makes the entry that the loops find the only entry of the coin.          *)

IndInv == TypeOK /\ OneEntryPerCoin /\ MeanPriceInRange /\ NothingInvented

\* The inductive invariant holds at first.
LEMMA InitIndInv == Init => IndInv
<1> SUFFICES ASSUME Init PROVE IndInv
  OBVIOUS
<1>1. TypeOK
  <2>1. NoDoc \in Doc
    BY EmptySeq DEF Doc, NoDoc
  <2>2. <<>> \in Seq(Write) /\ <<>> \in Seq(Call) /\ <<>> \in Seq(Entry)
    BY EmptySeq
  <2>3. 0 \in 0..MaxCalls
    BY BoundAssumption
  <2> QED BY <2>1, <2>2, <2>3 DEF Init, TypeOK
<1>2. \A list \in Lists : list = <<>>
  BY EmptySeq DEF Init, Lists, CallLists, WriteLists, NoDoc
<1>3. NoCoinTwice(<<>>) /\ PricesHold(<<>>) /\ WithinBought(<<>>)
  BY EmptySeq DEF NoCoinTwice, PricesHold, WithinBought
<1> QED BY <1>1, <1>2, <1>3 DEF IndInv, OneEntryPerCoin, MeanPriceInRange, NothingInvented

\* Every step keeps the inductive invariant.
LEMMA StepIndInv == IndInv /\ [Next]_vars => IndInv'
<1> SUFFICES ASSUME IndInv, [Next]_vars PROVE IndInv'
  OBVIOUS
<1>1. TypeOK /\ OneEntryPerCoin /\ MeanPriceInRange /\ NothingInvented
  BY DEF IndInv
<1>2. TypeOK' /\ \A list \in Lists' : Made(list)
  BY <1>1, StepMakes DEF StepResult
<1>3. ASSUME NEW list, Made(list)
      PROVE  NoCoinTwice(list) /\ PricesHold(list)
  <2>1. \A old \in Lists : old \in Seq(Entry) /\ NoCoinTwice(old) /\ PricesHold(old)
    BY <1>1, ListsTyped DEF OneEntryPerCoin, MeanPriceInRange
  <2>2. CASE list = <<>>
    BY <2>2, EmptySeq DEF NoCoinTwice, PricesHold
  <2>3. CASE Shorter(list)
    BY <2>1, <2>3, RemoveAtOnce, RemoveAtPrices DEF Shorter
  <2>4. CASE Longer(list)
    <3>1. PICK old \in Lists, lot \in Lot : list = WithLot(old, lot)
      BY <2>4 DEF Longer
    <3>2. lot \in Entry
      BY LotIsEntry
    <3> QED BY <2>1, <3>1, <3>2, WithLotOnce, WithLotPrices
  <2> QED BY <1>3, <2>1, <2>2, <2>3, <2>4 DEF Made
<1>4. ASSUME NEW list, Made(list)
      PROVE  \A j \in 1..Len(list) : list[j].qty <= bought'[list[j].id]
  <2>1. \A old \in Lists : old \in Seq(Entry) /\ NoCoinTwice(old) /\ WithinBought(old)
    BY <1>1, ListsTyped DEF OneEntryPerCoin, NothingInvented
  <2>2. bought \in [Coin -> Nat]
    BY <1>1 DEF TypeOK
  <2>3. \A k \in Coin : bought[k] \in Nat /\ bought'[k] \in Nat /\ bought[k] <= bought'[k]
    <3>1. bought' = bought \/ \E lot \in Lot : bought' = [bought EXCEPT ![lot.id] = @ + lot.qty]
      BY <1>1, StepMakes DEF StepResult
    <3>2. \A lot \in Lot : lot.id \in Coin /\ lot.qty \in Nat
      BY LotIsEntry DEF Entry
    <3> QED BY <2>2, <3>1, <3>2
  <2>4. ASSUME NEW old \in Lists
        PROVE  \A j \in 1..Len(old) : old[j].qty <= bought'[old[j].id]
    <3>1. \A j \in 1..Len(old) : /\ old[j].id \in Coin /\ old[j].qty \in Nat
                                 /\ old[j].qty <= bought[old[j].id]
      <4>1. \A j \in 1..Len(old) : old[j] \in Entry
        BY <2>1, ElementOfSeq
      <4>2. \A j \in 1..Len(old) : old[j].qty <= bought[old[j].id]
        BY <2>1 DEF WithinBought
      <4> QED BY <4>1, <4>2 DEF Entry
    <3> QED BY <2>3, <3>1
  <2>5. CASE list = <<>>
    BY <2>5, EmptySeq
  <2>6. CASE Shorter(list)
    <3>1. PICK old \in Lists : \E i \in 1..Len(old) : list = RemoveAt(old, i)
      BY <2>6 DEF Shorter
    <3>2. PICK i \in 1..Len(old) : list = RemoveAt(old, i)
      BY <3>1
    <3>3. /\ Len(old) \in Nat /\ Len(list) = Len(old) - 1
          /\ \A j \in 1..(Len(old) - 1) : list[j] = IF j < i THEN old[j] ELSE old[j + 1]
      BY <2>1, <3>2, RemoveAtEntries, LenProperties
    <3>4. \A j \in 1..Len(list) : \E m \in 1..Len(old) : list[j] = old[m]
      <4> TAKE j \in 1..Len(list)
      <4>1. j \in 1..Len(old) /\ j + 1 \in 1..Len(old)
        BY <3>3
      <4> QED BY <3>3, <4>1
    <3> QED BY <2>4, <3>4
  <2>7. CASE Longer(list)
    <3>1. PICK old \in Lists, lot \in Lot :
            /\ list = WithLot(old, lot)
            /\ bought' = [bought EXCEPT ![lot.id] = @ + lot.qty]
      BY <2>7 DEF Longer
    <3> QED BY <2>1, <2>2, <3>1, WithLotBought
  <2> QED BY <1>4, <2>4, <2>5, <2>6, <2>7 DEF Made
<1>5. OneEntryPerCoin' /\ MeanPriceInRange'
  BY <1>2, <1>3 DEF OneEntryPerCoin, MeanPriceInRange, NoCoinTwice, PricesHold
<1>6. NothingInvented'
  BY <1>2, <1>4 DEF NothingInvented, WithinBought
<1> QED BY <1>2, <1>5, <1>6 DEF IndInv

\* The inductive invariant always holds.
LEMMA IndInvHolds == Spec => []IndInv
BY InitIndInv, StepIndInv, PTL DEF Spec

\* Every variable keeps its type, whatever the devices, the server and the
\* order of calls, answers, completions and uploads do.
THEOREM TypeCorrect == Spec => []TypeOK
<1>1. IndInv => TypeOK
  BY DEF IndInv
<1> QED BY <1>1, IndInvHolds, PTL

\* No document, snapshot, queued write or screen ever holds a coin twice.
THEOREM EachCoinOnce == Spec => []OneEntryPerCoin
<1>1. IndInv => OneEntryPerCoin
  BY DEF IndInv
<1> QED BY <1>1, IndInvHolds, PTL

\* The mean price computed by add stays between the limits of the coin, and
\* the quantity it is divided by is positive.
THEOREM MeanPriceBetweenLimits == Spec => []MeanPriceInRange
<1>1. IndInv => MeanPriceInRange
  BY DEF IndInv
<1> QED BY <1>1, IndInvHolds, PTL

\* Whatever is lost or sent again, nothing is counted twice: no list holds
\* more of a coin than the adds that ran.
THEOREM NeverMoreThanBought == Spec => []NothingInvented
<1>1. IndInv => NothingInvented
  BY DEF IndInv
<1> QED BY <1>1, IndInvHolds, PTL

-----------------------------------------------------------------------------
(* Losses.  A write is queued with the list it was computed from; until the  *)
(* server takes it, it says of every coin what it said when it was queued.   *)

\* A write gives up no more than what its delete removed.
LosesOnlySold(write) ==
    \A k \in Coin : k \in write.sold \/ Amount(write.base, k) <= Amount(write.coins, k)

WritesLoseOnlySold ==
    \A c \in Client : \A n \in 1..Len(pending[c]) : LosesOnlySold(pending[c][n])

\* What a list holds of a coin is the quantity of its entry, or nothing.
LEMMA AmountOfEntry ==
  ASSUME NEW coins \in Seq(Entry), NoCoinTwice(coins), NEW k
  PROVE  /\ Amount(coins, k) \in Nat
         /\ \A i \in 1..Len(coins) : coins[i].id = k => Amount(coins, k) = coins[i].qty
         /\ ~Held(coins, k) => Amount(coins, k) = 0
<1>1. CASE Held(coins, k)
  <2>1. Position(coins, k) \in 1..Len(coins) /\ coins[Position(coins, k)].id = k
    BY <1>1, PositionFound
  <2>2. coins[Position(coins, k)] \in Entry
    BY <2>1, ElementOfSeq
  <2>3. Amount(coins, k) = coins[Position(coins, k)].qty
    BY <1>1 DEF Amount
  <2>4. \A i \in 1..Len(coins) : coins[i].id = k => i = Position(coins, k)
    BY <2>1 DEF NoCoinTwice
  <2> QED BY <1>1, <2>2, <2>3, <2>4 DEF Entry
<1>2. CASE ~Held(coins, k)
  BY <1>2 DEF Amount, Held
<1> QED BY <1>1, <1>2

\* A lot that is added takes nothing away.
LEMMA AmountWithLot ==
  ASSUME NEW coins \in Seq(Entry), NoCoinTwice(coins), NEW lot \in Entry, NEW k
  PROVE  Amount(coins, k) <= Amount(WithLot(coins, lot), k)
<1> DEFINE new == WithLot(coins, lot)
<1>1. new \in Seq(Entry) /\ NoCoinTwice(new)
  BY WithLotEntries, WithLotOnce
<1>2. Amount(new, k) \in Nat
  BY <1>1, AmountOfEntry
<1>3. CASE ~Held(coins, k)
  <2>1. Amount(coins, k) = 0
    BY <1>3, AmountOfEntry
  <2> QED BY <1>2, <2>1
<1>4. CASE Held(coins, k)
  <2>1. PICK i \in 1..Len(coins) : coins[i].id = k
    BY <1>4 DEF Held
  <2>2. coins[i] \in Entry /\ Amount(coins, k) = coins[i].qty /\ coins[i].qty \in Nat
    <3>1. coins[i] \in Entry
      BY ElementOfSeq
    <3> QED BY <2>1, <3>1, AmountOfEntry DEF Entry
  <2>3. i \in 1..Len(new) /\ new[i].id = k /\ new[i].qty >= coins[i].qty
    <3>1. CASE Held(coins, lot.id)
      <4> DEFINE p == Position(coins, lot.id)
      <4>1. /\ Len(new) = Len(coins)
            /\ \A j \in 1..Len(coins) :
                  new[j] = IF j = p THEN Merged(coins[p], lot) ELSE coins[j]
        BY <3>1, WithLotEntries
      <4> HIDE DEF new, p
      <4>2. CASE i = p
        <5>1. new[i] = Merged(coins[i], lot)
          BY <4>1, <4>2
        <5>2. new[i].id = coins[i].id /\ new[i].qty = coins[i].qty + lot.qty
          BY <5>1, <2>2, MergedEntry
        <5>3. lot.qty \in Nat
          BY DEF Entry
        <5> QED BY <2>1, <2>2, <4>1, <5>2, <5>3
      <4>3. CASE i # p
        BY <2>1, <2>2, <4>1, <4>3
      <4> QED BY <4>2, <4>3
    <3>2. CASE ~Held(coins, lot.id)
      <4>1. /\ Len(new) = Len(coins) + 1 /\ \A j \in 1..Len(coins) : new[j] = coins[j]
            /\ Len(coins) \in Nat
        BY <3>2, WithLotEntries, LenProperties
      <4> HIDE DEF new
      <4> QED BY <2>1, <2>2, <4>1
    <3> QED BY <3>1, <3>2
  <2>4. Amount(new, k) = new[i].qty
    BY <1>1, <2>3, AmountOfEntry
  <2> QED BY <2>2, <2>3, <2>4, <1>2
<1> QED BY <1>3, <1>4

\* A coin that is removed takes no other with it.
LEMMA AmountWithout ==
  ASSUME NEW coins \in Seq(Entry), NoCoinTwice(coins), NEW j, Held(coins, j), NEW k, k # j
  PROVE  Amount(coins, k) <= Amount(Without(coins, j), k)
<1> DEFINE p == Position(coins, j)
           new == Without(coins, j)
<1>1. p \in 1..Len(coins) /\ coins[p].id = j
  BY PositionFound
<1>2. /\ new \in Seq(Entry) /\ NoCoinTwice(new) /\ Len(new) = Len(coins) - 1
      /\ \A i \in 1..(Len(coins) - 1) : new[i] = IF i < p THEN coins[i] ELSE coins[i + 1]
      /\ Len(coins) \in Nat
  BY <1>1, RemoveAtEntries, RemoveAtOnce, LenProperties DEF Without
<1> HIDE DEF new, p
<1>3. Amount(new, k) \in Nat
  BY <1>2, AmountOfEntry
<1>4. CASE ~Held(coins, k)
  <2>1. Amount(coins, k) = 0
    BY <1>4, AmountOfEntry
  <2> QED BY <1>3, <2>1 DEF new
<1>5. CASE Held(coins, k)
  <2>1. PICK i \in 1..Len(coins) : coins[i].id = k
    BY <1>5 DEF Held
  <2>2. Amount(coins, k) = coins[i].qty /\ i # p
    BY <1>1, <2>1, AmountOfEntry
  <2>3. PICK m \in 1..Len(new) : new[m] = coins[i]
    <3>1. CASE i < p
      BY <1>1, <1>2, <3>1
    <3>2. CASE ~(i < p)
      <4>1. i - 1 \in 1..(Len(coins) - 1) /\ ~(i - 1 < p) /\ i - 1 + 1 = i
        BY <1>1, <1>2, <2>2, <3>2
      <4> QED BY <1>2, <4>1
    <3> QED BY <3>1, <3>2
  <2>4. Amount(new, k) = coins[i].qty
    BY <1>2, <2>1, <2>3, AmountOfEntry
  <2> QED BY <1>3, <2>2, <2>4 DEF new
<1> QED BY <1>4, <1>5

\* The queues of writes keep their promise when one is added or leaves.
LEMMA SetDataLoses ==
  ASSUME TypeOK, WritesLoseOnlySold, NEW c \in Client, NEW coins, NEW base, NEW sold,
         [coins |-> coins, base |-> base, sold |-> sold] \in Write,
         LosesOnlySold([coins |-> coins, base |-> base, sold |-> sold]),
         SetData(c, coins, base, sold)
  PROVE  WritesLoseOnlySold'
<1> DEFINE write == [coins |-> coins, base |-> base, sold |-> sold]
<1>1. /\ pending \in [Client -> Seq(Write)]
      /\ pending' = [pending EXCEPT ![c] = Append(pending[c], write)]
  BY DEF TypeOK, SetData
<1>2. write \in Write /\ LosesOnlySold(write)
  OBVIOUS
<1> HIDE DEF write
<1>3. /\ Len(Append(pending[c], write)) = Len(pending[c]) + 1 /\ Len(pending[c]) \in Nat
      /\ \A n \in 1..Len(pending[c]) : Append(pending[c], write)[n] = pending[c][n]
      /\ Append(pending[c], write)[Len(pending[c]) + 1] = write
  BY <1>1, <1>2, AppendProperties, LenProperties
<1>4. ASSUME NEW d \in Client, NEW n \in 1..Len(pending'[d])
      PROVE  LosesOnlySold(pending'[d][n])
  <2>1. CASE d = c /\ n = Len(pending[c]) + 1
    BY <1>1, <1>2, <1>3, <2>1
  <2>2. CASE d = c /\ n # Len(pending[c]) + 1
    <3>1. n \in 1..Len(pending[c]) /\ pending'[c][n] = pending[c][n]
      BY <1>1, <1>3, <2>2
    <3> QED BY <2>2, <3>1 DEF WritesLoseOnlySold
  <2>3. CASE d # c
    BY <1>1, <2>3 DEF WritesLoseOnlySold
  <2> QED BY <2>1, <2>2, <2>3
<1> QED BY <1>4 DEF WritesLoseOnlySold, LosesOnlySold, Amount, Held, Position

LEMMA DequeueLoses ==
  ASSUME TypeOK, WritesLoseOnlySold, NEW c \in Client, pending[c] # <<>>, Dequeue(c)
  PROVE  WritesLoseOnlySold'
<1>1. /\ pending \in [Client -> Seq(Write)]
      /\ pending' = [pending EXCEPT ![c] = Tail(pending[c])]
  BY DEF TypeOK, Dequeue
<1>2. /\ Len(Tail(pending[c])) = Len(pending[c]) - 1 /\ Len(pending[c]) \in Nat \ {0}
      /\ \A n \in 1..Len(Tail(pending[c])) : Tail(pending[c])[n] = pending[c][n + 1]
  BY <1>1, HeadTailProperties, LenProperties, EmptySeq
<1>3. ASSUME NEW d \in Client, NEW n \in 1..Len(pending'[d])
      PROVE  LosesOnlySold(pending'[d][n])
  <2>1. CASE d = c
    <3>1. n + 1 \in 1..Len(pending[c]) /\ pending'[c][n] = pending[c][n + 1]
      BY <1>1, <1>2, <2>1
    <3> QED BY <2>1, <3>1 DEF WritesLoseOnlySold
  <2>2. CASE d # c
    BY <1>1, <2>2 DEF WritesLoseOnlySold
  <2> QED BY <2>1, <2>2
<1> QED BY <1>3 DEF WritesLoseOnlySold, LosesOnlySold, Amount, Held, Position

\* The list that a completion works on.
LEMMA HeadOfCalls ==
  ASSUME IndInv, NEW c \in Client, inflight[c] # <<>>
  PROVE  /\ Head(inflight[c]) \in Call /\ Head(inflight[c]).coins \in Seq(Entry)
         /\ NoCoinTwice(Head(inflight[c]).coins)
<1>1. inflight[c] \in Seq(Call) /\ TypeOK
  BY DEF IndInv, TypeOK
<1>2. /\ Head(inflight[c]) \in Call /\ Head(inflight[c]) = inflight[c][1]
      /\ 1 \in 1..Len(inflight[c])
  BY <1>1, HeadTailProperties, EmptySeq
<1>3. Head(inflight[c]).coins \in Lists
  BY <1>2 DEF Lists, CallLists
<1> QED BY <1>1, <1>2, <1>3, ListsTyped DEF IndInv, OneEntryPerCoin

LEMMA StepLoses == IndInv /\ WritesLoseOnlySold /\ [Next]_vars => WritesLoseOnlySold'
<1> SUFFICES ASSUME IndInv, WritesLoseOnlySold, [Next]_vars PROVE WritesLoseOnlySold'
  OBVIOUS
<1>0. TypeOK
  BY DEF IndInv
<1>1. CASE UNCHANGED pending
  <2>1. ASSUME NEW d \in Client, NEW n \in 1..Len(pending'[d])
        PROVE  LosesOnlySold(pending'[d][n])
    BY <1>1 DEF WritesLoseOnlySold
  <2> QED BY <2>1 DEF WritesLoseOnlySold, LosesOnlySold, Amount, Held, Position
<1>2. CASE UNCHANGED vars
  BY <1>1, <1>2 DEF vars
<1>3. CASE Next
  <2>1. PICK c \in Client :
          Calls(c) \/ Answers(c) \/ Completions(c) \/ Upload(c) \/ UploadUnanswered(c)
            \/ Reject(c) \/ Kill(c)
    BY <1>3 DEF Next
  <2>2. CASE Calls(c) \/ Answers(c) \/ UploadUnanswered(c) \/ Kill(c)
    <3>1. UNCHANGED pending
      BY <2>2 DEF Calls, CreateUser, GetPortfolio, Add, Delete, Answers, AnswerOnline,
                  AnswerFromCache, AnswerError, UploadUnanswered, Kill, Stop
    <3> QED BY <1>1, <3>1
  <2>3. CASE Upload(c) \/ Reject(c)
    <3>1. pending[c] # <<>> /\ Dequeue(c)
      BY <2>3 DEF Upload, Reject
    <3> QED BY <1>0, <3>1, DequeueLoses
  <2>4. CASE RunGet(c) \/ RunDeleteMiss(c) \/ TrapDelete(c) \/ RunFailed(c)
    <3>1. UNCHANGED pending
      BY <2>4 DEF RunGet, RunDeleteMiss, TrapDelete, RunFailed, Stop
    <3> QED BY <1>1, <3>1
  <2>5. CASE RunCreate(c)
    <3>1. SetData(c, <<>>, <<>>, {})
      BY <2>5 DEF RunCreate
    <3>2. <<>> \in Seq(Entry) /\ NoCoinTwice(<<>>)
      BY EmptySeq DEF NoCoinTwice
    <3>3. [coins |-> <<>>, base |-> <<>>, sold |-> {}] \in Write
      BY <3>2 DEF Write
    <3>4. LosesOnlySold([coins |-> <<>>, base |-> <<>>, sold |-> {}])
      <4>1. \A k : Amount(<<>>, k) \in Nat
        BY <3>2, AmountOfEntry
      <4> QED BY <4>1 DEF LosesOnlySold
    <3> QED BY <1>0, <3>1, <3>3, <3>4, SetDataLoses
  <2>6. CASE RunAdd(c)
    <3> DEFINE call == Head(inflight[c])
               new == WithLot(call.coins, call.lot)
    <3>1. inflight[c] # <<>> /\ call.kind = "add" /\ SetData(c, new, call.coins, {})
      BY <2>6 DEF RunAdd, Ready
    <3>2. call \in Call /\ call.coins \in Seq(Entry) /\ NoCoinTwice(call.coins)
      BY <3>1, HeadOfCalls
    <3>3. call.lot \in Entry
      <4>1. call.lot \in Lot
        BY <3>1, <3>2 DEF Call
      <4> QED BY <4>1, LotIsEntry
    <3> HIDE DEF call
    <3>4. new \in Seq(Entry) /\ \A k : Amount(call.coins, k) <= Amount(new, k)
      BY <3>2, <3>3, WithLotEntries, AmountWithLot
    <3> HIDE DEF new
    <3>5. [coins |-> new, base |-> call.coins, sold |-> {}] \in Write
      BY <3>2, <3>4 DEF Write
    <3>6. LosesOnlySold([coins |-> new, base |-> call.coins, sold |-> {}])
      BY <3>4 DEF LosesOnlySold
    <3> QED BY <1>0, <3>1, <3>5, <3>6, SetDataLoses
  <2>7. CASE RunDelete(c)
    <3> DEFINE call == Head(inflight[c])
               new == Without(call.coins, call.lot.id)
    <3>1. /\ inflight[c] # <<>> /\ call.kind = "delete" /\ Held(call.coins, call.lot.id)
          /\ SetData(c, new, call.coins, {call.lot.id})
      BY <2>7 DEF RunDelete, Ready
    <3>2. call \in Call /\ call.coins \in Seq(Entry) /\ NoCoinTwice(call.coins)
      BY <3>1, HeadOfCalls
    <3>3. call.lot.id \in Coin
      <4>1. call.lot \in Entry
        BY <3>1, <3>2 DEF Call
      <4> QED BY <4>1 DEF Entry
    <3> HIDE DEF call
    <3>4. /\ new \in Seq(Entry)
          /\ \A k : k # call.lot.id => Amount(call.coins, k) <= Amount(new, k)
      BY <3>1, <3>2, PositionFound, RemoveAtEntries, AmountWithout DEF Without
    <3> HIDE DEF new
    <3>5. [coins |-> new, base |-> call.coins, sold |-> {call.lot.id}] \in Write
      BY <3>2, <3>3, <3>4 DEF Write
    <3>6. LosesOnlySold([coins |-> new, base |-> call.coins, sold |-> {call.lot.id}])
      BY <3>4 DEF LosesOnlySold
    <3> QED BY <1>0, <3>1, <3>5, <3>6, SetDataLoses
  <2> QED BY <2>1, <2>2, <2>3, <2>4, <2>5, <2>6, <2>7 DEF Completions
<1> QED BY <1>2, <1>3

\* The server loses some of a coin only when the user deleted that coin, or by a write
\* computed from a list that another write has replaced since.
THEOREM LossesHaveACause == Spec => LossHasACause
<1>1. Init => WritesLoseOnlySold
  BY EmptySeq DEF Init, WritesLoseOnlySold
<1>2. IndInv /\ WritesLoseOnlySold /\ [Next]_vars =>
        [\A k \in Coin :
            Amount(remote'.coins, k) < Amount(remote.coins, k) =>
                \E c \in Client :
                    /\ pending[c] # <<>>
                    /\ \/ k \in Head(pending[c]).sold
                       \/ Head(pending[c]).base # remote.coins]_vars
  <2>1. SUFFICES ASSUME IndInv, WritesLoseOnlySold, Next, NEW k \in Coin,
                        Amount(remote'.coins, k) < Amount(remote.coins, k)
                 PROVE  \E c \in Client :
                            /\ pending[c] # <<>>
                            /\ \/ k \in Head(pending[c]).sold
                               \/ Head(pending[c]).base # remote.coins
    OBVIOUS
  <2>2. remote.coins \in Seq(Entry) /\ NoCoinTwice(remote.coins) /\ TypeOK
    <3>1. TypeOK /\ OneEntryPerCoin /\ remote.coins \in Lists
      BY <2>1 DEF IndInv, Lists
    <3> QED BY <3>1, ListsTyped DEF OneEntryPerCoin
  <2>3. Amount(remote.coins, k) \in Nat
    BY <2>2, AmountOfEntry
  <2>4. remote' # remote
    BY <2>1, <2>3
  <2>5. PICK c \in Client : Upload(c) \/ UploadUnanswered(c)
    BY <2>1, <2>4 DEF Next, Calls, CreateUser, GetPortfolio, Add, Delete, Answers, AnswerOnline,
                      AnswerFromCache, AnswerError, Completions, RunCreate, RunGet, RunAdd,
                      RunDelete, RunDeleteMiss, TrapDelete, RunFailed, Kill, Stop, Reject
  <2>6. pending[c] # <<>> /\ remote'.coins = Head(pending[c]).coins
    BY <2>5 DEF Upload, UploadUnanswered, Document
  <2>7. Head(pending[c]) = pending[c][1] /\ 1 \in 1..Len(pending[c])
    <3>1. pending[c] \in Seq(Write)
      BY <2>2 DEF TypeOK
    <3> QED BY <2>6, <3>1, HeadTailProperties, EmptySeq
  <2>8. LosesOnlySold(Head(pending[c]))
    BY <2>1, <2>7 DEF WritesLoseOnlySold
  <2>9. Amount(remote'.coins, k) \in Nat
    <3>1. Head(pending[c]).coins \in Lists
      BY <2>7 DEF Lists, WriteLists
    <3>2. Head(pending[c]).coins \in Seq(Entry) /\ NoCoinTwice(Head(pending[c]).coins)
      BY <2>1, <2>2, <3>1, ListsTyped DEF IndInv, OneEntryPerCoin
    <3> QED BY <2>6, <3>2, AmountOfEntry
  <2>10. \/ k \in Head(pending[c]).sold
         \/ Amount(Head(pending[c]).base, k) <= Amount(remote'.coins, k)
    BY <2>6, <2>8 DEF LosesOnlySold
  <2>11. CASE k \in Head(pending[c]).sold
    BY <2>6, <2>11
  <2>12. CASE Amount(Head(pending[c]).base, k) <= Amount(remote'.coins, k)
    <3>1. Amount(Head(pending[c]).base, k) # Amount(remote.coins, k)
      BY <2>1, <2>3, <2>9, <2>12
    <3>2. Head(pending[c]).base # remote.coins
      BY <3>1
    <3> QED BY <2>6, <3>2
  <2> QED BY <2>10, <2>11, <2>12
<1> QED BY <1>1, <1>2, IndInvHolds, StepLoses, PTL DEF Spec, LossHasACause


-----------------------------------------------------------------------------
(* One device that waits for each call, the server refusing nothing.  What  *)
(* it sees changes only when one of its own completions runs, so the list   *)
(* that an answered call was told is still the one it sees, and every row   *)
(* of its screens is a coin of that list.                                   *)

OneDevice(c) == Client = {c} /\ MaxInFlight = 1 /\ ~MayReject

\* A call under way: the sign-up comes before any coin, a delete names a coin
\* there is and whose row is gone, and a call was told what the device sees.
CallFits(call, seen, rows) ==
    /\ call.kind = "create" => rows = <<>> /\ seen = <<>>
    /\ call.kind = "delete" => Held(seen, call.lot.id) /\ ~Held(rows, call.lot.id)
    /\ call.kind # "create" /\ call.state = "answered" => call.coins = seen

\* The rows of the screens are coins of the list the device sees.
RowsOf(rows, seen) == \A i \in 1..Len(rows) : Held(seen, rows[i].id)

Waits(c) ==
    /\ pending[c] = <<>> => cache[c] = remote
    /\ Len(inflight[c]) <= 1
    /\ \A n \in 1..Len(inflight[c]) :
          CallFits(inflight[c][n], Visible(c).coins, shown[c])
    /\ RowsOf(shown[c], Visible(c).coins)
    /\ ~account => inflight[c] = <<>> /\ shown[c] = <<>> /\ Visible(c).coins = <<>>


\* The call that runs is the only one, and it fits.
LEMMA OnlyCall ==
  ASSUME TypeOK, NEW c \in Client, Waits(c), inflight[c] # <<>>
  PROVE  /\ Head(inflight[c]) \in Call /\ inflight[c] = <<Head(inflight[c])>>
         /\ Tail(inflight[c]) = <<>>
         /\ CallFits(Head(inflight[c]), Visible(c).coins, shown[c])
<1>1. inflight[c] \in Seq(Call) /\ Len(inflight[c]) <= 1
  BY DEF TypeOK, Waits
<1>2. /\ Head(inflight[c]) \in Call /\ Head(inflight[c]) = inflight[c][1]
      /\ Tail(inflight[c]) \in Seq(Call) /\ Len(Tail(inflight[c])) = Len(inflight[c]) - 1
      /\ Len(inflight[c]) \in Nat \ {0}
  BY <1>1, HeadTailProperties, EmptySeq, LenProperties
<1>3. Len(inflight[c]) = 1 /\ Len(Tail(inflight[c])) = 0
  <2>1. \A k \in Nat \ {0} : k <= 1 => k = 1 /\ k - 1 = 0
    OBVIOUS
  <2> QED BY <1>1, <1>2, <2>1
<1>4. Tail(inflight[c]) = <<>>
  BY <1>2, <1>3, EmptySeq
<1>5. inflight[c] = <<Head(inflight[c])>>
  BY <1>1, <1>2, <1>3
<1>6. CallFits(inflight[c][1], Visible(c).coins, shown[c])
  BY <1>3 DEF Waits
<1> QED BY <1>2, <1>4, <1>5, <1>6

\* What the device sees after it queued a write.
LEMMA SeenAfterSetData ==
  ASSUME TypeOK, NEW c \in Client, NEW coins \in Seq(Entry), NEW base \in Seq(Entry),
         NEW sold \in SUBSET Coin, SetData(c, coins, base, sold)
  PROVE  pending'[c] # <<>> /\ Visible(c)'.coins = coins
<1> DEFINE write == [coins |-> coins, base |-> base, sold |-> sold]
           queue == Append(pending[c], write)
<1>1. pending \in [Client -> Seq(Write)] /\ pending[c] \in Seq(Write)
  BY DEF TypeOK
<1>2. write \in Write /\ write.coins = coins
  BY DEF Write
<1>3. pending'[c] = queue
  BY <1>1 DEF SetData
<1> HIDE DEF write
<1>4. /\ queue \in Seq(Write) /\ Len(queue) = Len(pending[c]) + 1
      /\ queue[Len(pending[c]) + 1] = write
      /\ Len(pending[c]) \in Nat
  BY <1>1, <1>2, AppendProperties, LenProperties
<1> HIDE DEF queue
<1>5. queue # <<>> /\ Last(queue) = write
  <2>1. Len(queue) # 0
    BY <1>4
  <2>2. queue # <<>>
    BY <1>4, <2>1, EmptySeq
  <2> QED BY <1>4, <2>2 DEF Last
<1> QED BY <1>2, <1>3, <1>5 DEF Visible, Overlay, Document

\* A write that the server takes changes nothing of what the device sees.
LEMMA SeenAfterUpload ==
  ASSUME TypeOK, NEW c \in Client, pending[c] # <<>>,
         remote' = Document(Head(pending[c]).coins),
         Dequeue(c) \/ UNCHANGED pending
  PROVE  Visible(c)'.coins = Visible(c).coins
<1>1. pending \in [Client -> Seq(Write)] /\ pending[c] \in Seq(Write)
  BY DEF TypeOK
<1>2. Visible(c).coins = Last(pending[c]).coins
  BY DEF Visible, Overlay, Document
<1>3. CASE UNCHANGED pending
  BY <1>2, <1>3 DEF Visible, Overlay, Document
<1>4. CASE Dequeue(c)
  <2> DEFINE rest == Tail(pending[c])
             size == Len(pending[c])
  <2>1. pending'[c] = rest
    BY <1>1, <1>4 DEF Dequeue
  <2>2. /\ rest \in Seq(Write) /\ Len(rest) = size - 1
        /\ \A n \in 1..Len(rest) : rest[n] = pending[c][n + 1]
        /\ Head(pending[c]) = pending[c][1] /\ size \in Nat \ {0}
    BY <1>1, HeadTailProperties, EmptySeq, LenProperties
  <2> HIDE DEF rest, size
  <2>3. CASE size = 1
    <3>1. rest = <<>>
      BY <2>2, <2>3, EmptySeq
    <3>2. Last(pending[c]) = Head(pending[c])
      BY <2>2, <2>3 DEF Last, size
    <3> QED BY <1>2, <2>1, <3>1, <3>2 DEF Visible, Overlay, Document
  <2>4. CASE size # 1
    <3>1. rest # <<>>
      <4>1. Len(rest) # 0
        BY <2>2, <2>4
      <4> QED BY <2>2, <4>1, EmptySeq
    <3>2. Last(rest) = Last(pending[c])
      <4>1. size - 1 \in 1..Len(rest) /\ size - 1 + 1 = size
        BY <2>2, <2>4
      <4>2. rest[size - 1] = pending[c][size]
        BY <2>2, <4>1
      <4> QED BY <2>2, <4>2 DEF Last, size
    <3> QED BY <1>2, <2>1, <3>1, <3>2 DEF Visible, Overlay, Document
  <2> QED BY <2>3, <2>4
<1> QED BY <1>3, <1>4

\* The parts of Waits, for a device that has one call under way or none.
LEMMA NowWaits ==
  ASSUME NEW c \in Client,
         pending'[c] = <<>> => cache'[c] = remote',
         \/ inflight'[c] = <<>>
         \/ \E call : /\ inflight'[c] = <<call>>
                      /\ CallFits(call, Visible(c)'.coins, shown'[c]),
         RowsOf(shown'[c], Visible(c)'.coins),
         \/ account'
         \/ inflight'[c] = <<>> /\ shown'[c] = <<>> /\ Visible(c)'.coins = <<>>
  PROVE  Waits(c)'
<1>1. Len(inflight'[c]) <= 1
      /\ \A n \in 1..Len(inflight'[c]) :
            CallFits(inflight'[c][n], Visible(c)'.coins, shown'[c])
  <2>1. CASE inflight'[c] = <<>>
    BY <2>1
  <2>2. CASE \E call : /\ inflight'[c] = <<call>>
                       /\ CallFits(call, Visible(c)'.coins, shown'[c])
    <3>1. PICK call : /\ inflight'[c] = <<call>>
                      /\ CallFits(call, Visible(c)'.coins, shown'[c])
      BY <2>2
    <3>2. Len(<<call>>) = 1 /\ <<call>>[1] = call
      OBVIOUS
    <3>3. \A n \in 1..1 : n = 1
      OBVIOUS
    <3>4. \A n \in 1..Len(inflight'[c]) : inflight'[c][n] = call
      BY <3>1, <3>2, <3>3
    <3> QED BY <3>1, <3>2, <3>4
  <2> QED BY <2>1, <2>2
<1> DEFINE seen == Visible(c).coins
<1>2. \A n \in 1..Len(inflight'[c]) : CallFits(inflight'[c][n], seen', shown'[c])
  BY <1>1
<1>3. RowsOf(shown'[c], seen')
  OBVIOUS
<1> QED BY <1>1, <1>2, <1>3 DEF Waits, CallFits, RowsOf, Held


\* A coin other than the one removed stays.
LEMMA HeldWithout ==
  ASSUME NEW coins \in Seq(Entry), NoCoinTwice(coins), NEW j, Held(coins, j),
         NEW k, k # j, Held(coins, k)
  PROVE  Held(Without(coins, j), k)
<1> DEFINE p == Position(coins, j)
           new == Without(coins, j)
<1>1. p \in 1..Len(coins) /\ coins[p].id = j
  BY PositionFound
<1>2. /\ Len(new) = Len(coins) - 1
      /\ \A i \in 1..(Len(coins) - 1) : new[i] = IF i < p THEN coins[i] ELSE coins[i + 1]
      /\ Len(coins) \in Nat
  BY <1>1, RemoveAtEntries, LenProperties DEF Without
<1> HIDE DEF new, p
<1>3. PICK i \in 1..Len(coins) : coins[i].id = k
  BY DEF Held
<1>4. PICK m \in 1..Len(new) : new[m] = coins[i]
  <2>1. i # p
    BY <1>1, <1>3
  <2>2. CASE i < p
    BY <1>1, <1>2, <2>2
  <2>3. CASE ~(i < p)
    <3>1. i - 1 \in 1..(Len(coins) - 1) /\ ~(i - 1 < p) /\ i - 1 + 1 = i
      BY <1>1, <1>2, <2>1, <2>3
    <3> QED BY <1>2, <3>1
  <2> QED BY <2>2, <2>3
<1> QED BY <1>3, <1>4 DEF Held, new

\* The coin removed is gone.
LEMMA GoneWithout ==
  ASSUME NEW coins \in Seq(Entry), NoCoinTwice(coins), NEW p \in 1..Len(coins)
  PROVE  /\ ~Held(RemoveAt(coins, p), coins[p].id)
         /\ \A k : Held(RemoveAt(coins, p), k) => Held(coins, k)
<1> DEFINE new == RemoveAt(coins, p)
<1>1. /\ Len(new) = Len(coins) - 1
      /\ \A i \in 1..(Len(coins) - 1) : new[i] = IF i < p THEN coins[i] ELSE coins[i + 1]
      /\ Len(coins) \in Nat
  BY RemoveAtEntries, LenProperties
<1> HIDE DEF new
<1>2. \A i \in 1..Len(new) : \E n \in 1..Len(coins) : n # p /\ new[i] = coins[n]
  <2>1. ASSUME NEW i \in 1..Len(new), i < p
        PROVE  \E n \in 1..Len(coins) : n # p /\ new[i] = coins[n]
    <3>1. i \in 1..Len(coins) /\ i # p /\ i \in 1..(Len(coins) - 1)
      BY <1>1, <2>1
    <3>2. new[i] = coins[i]
      BY <1>1, <2>1, <3>1
    <3> QED BY <3>1, <3>2
  <2>2. ASSUME NEW i \in 1..Len(new), ~(i < p)
        PROVE  \E n \in 1..Len(coins) : n # p /\ new[i] = coins[n]
    <3>1. i + 1 \in 1..Len(coins) /\ i + 1 # p /\ i \in 1..(Len(coins) - 1)
      BY <1>1, <2>2
    <3>2. new[i] = coins[i + 1]
      BY <1>1, <2>2, <3>1
    <3> QED BY <3>1, <3>2
  <2> QED BY <2>1, <2>2
<1>3. ~Held(new, coins[p].id)
  BY <1>2 DEF Held, NoCoinTwice
<1>4. \A k : Held(new, k) => Held(coins, k)
  BY <1>2 DEF Held
<1> QED BY <1>3, <1>4 DEF new

\* A lot that is added takes no coin away.
LEMMA HeldWithLot ==
  ASSUME NEW coins \in Seq(Entry), NoCoinTwice(coins), NEW lot \in Entry,
         NEW k, Held(coins, k)
  PROVE  Held(WithLot(coins, lot), k)
<1> DEFINE new == WithLot(coins, lot)
           p == Position(coins, lot.id)
<1>1. PICK i \in 1..Len(coins) : coins[i].id = k
  BY DEF Held
<1>2. CASE Held(coins, lot.id)
  <2>1. /\ Len(new) = Len(coins) /\ p \in 1..Len(coins)
        /\ \A j \in 1..Len(coins) :
              new[j] = IF j = p THEN Merged(coins[p], lot) ELSE coins[j]
    BY <1>2, WithLotEntries, PositionFound
  <2>2. Merged(coins[p], lot).id = coins[p].id
    BY <2>1, ElementOfSeq, MergedEntry
  <2> HIDE DEF new, p
  <2>3. i \in 1..Len(new) /\ new[i].id = k
    BY <1>1, <2>1, <2>2
  <2> QED BY <2>3 DEF Held, new
<1>3. CASE ~Held(coins, lot.id)
  <2>1. /\ Len(new) = Len(coins) + 1 /\ \A j \in 1..Len(coins) : new[j] = coins[j]
        /\ Len(coins) \in Nat
    BY <1>3, WithLotEntries, LenProperties
  <2> HIDE DEF new
  <2>2. i \in 1..Len(new) /\ new[i].id = k
    BY <1>1, <2>1
  <2> QED BY <2>2 DEF Held, new
<1> QED BY <1>2, <1>3


\* What the device sees is a list that holds no coin twice.
LEMMA SeenIsList ==
  ASSUME IndInv, NEW c \in Client
  PROVE  Visible(c).coins \in Seq(Entry) /\ NoCoinTwice(Visible(c).coins)
<1>1. TypeOK /\ OneEntryPerCoin /\ remote \in Doc /\ remote.coins \in Lists
  BY DEF IndInv, TypeOK, Lists
<1>2. Visible(c).coins \in Lists
  BY <1>1, OverlayIsList DEF Visible
<1> QED BY <1>1, <1>2, ListsTyped DEF OneEntryPerCoin

\* A call starts when no other is under way.
LEMMA StartAlone ==
  ASSUME TypeOK, NEW c \in Client, OneDevice(c), NEW call, Start(c, call)
  PROVE  inflight[c] = <<>> /\ inflight'[c] = <<call>>
<1>1. inflight \in [Client -> Seq(Call)] /\ inflight[c] \in Seq(Call) /\ Len(inflight[c]) < 1
  BY DEF TypeOK, OneDevice, Start
<1>2. Len(inflight[c]) \in Nat
  BY <1>1, LenProperties
<1>3. Len(inflight[c]) = 0
  BY <1>1, <1>2
<1>4. inflight[c] = <<>>
  BY <1>1, <1>3, EmptySeq
<1>5. inflight'[c] = Append(inflight[c], call)
  BY <1>1 DEF Start
<1> QED BY <1>4, <1>5

\* The call that is answered is the only one.
LEMMA AnswerAlone ==
  ASSUME TypeOK, NEW c \in Client, Waits(c), NEW i \in 1..Len(inflight[c]),
         NEW state, NEW coins, Answer(c, i, state, coins)
  PROVE  /\ inflight[c] # <<>>
         /\ inflight'[c] = <<Told(Head(inflight[c]), state, coins)>>
<1>1. inflight \in [Client -> Seq(Call)] /\ inflight[c] \in Seq(Call)
  BY DEF TypeOK
<1>2. Len(inflight[c]) \in Nat /\ Len(inflight[c]) <= 1
  BY <1>1, LenProperties DEF Waits
<1>3. i = 1 /\ Len(inflight[c]) # 0
  BY <1>2
<1>4. inflight[c] # <<>>
  BY <1>1, <1>3, EmptySeq
<1>5. inflight[c] = <<Head(inflight[c])>>
  BY <1>4, OnlyCall
<1> DEFINE head == Head(inflight[c])
<1>6. inflight'[c] = [inflight[c] EXCEPT ![i] = Told(inflight[c][i], state, coins)]
  BY <1>1 DEF Answer
<1> HIDE DEF head
<1>7. inflight[c] = <<head>>
  BY <1>5 DEF head
<1>8. inflight'[c] = [<<head>> EXCEPT ![1] = Told(head, state, coins)]
  BY <1>3, <1>6, <1>7
<1>9. inflight'[c] = <<Told(head, state, coins)>>
  BY <1>8
<1> QED BY <1>4, <1>9 DEF head

\* A completion that ends leaves no call.
LEMMA FinishAlone ==
  ASSUME TypeOK, NEW c \in Client, Waits(c), inflight[c] # <<>>, Finish(c)
  PROVE  inflight'[c] = <<>>
<1>1. Tail(inflight[c]) = <<>>
  BY OnlyCall
<1> QED BY <1>1 DEF Finish, TypeOK

LEMMA CallsWait ==
  ASSUME IndInv, NEW c \in Client, OneDevice(c), Waits(c), Calls(c)
  PROVE  Waits(c)'
<1>1. /\ TypeOK /\ UNCHANGED <<remote, cache, pending>>
      /\ Visible(c)' = Visible(c)
      /\ pending'[c] = <<>> => cache'[c] = remote'
  BY DEF IndInv, Calls, CreateUser, GetPortfolio, Add, Delete, Waits, Visible, Overlay
<1>2. CASE CreateUser(c)
  <2> DEFINE call == Told(NewCall("create", NoEntry), "answered", <<>>)
  <2>1. account' /\ ~account /\ UNCHANGED shown /\ inflight'[c] = <<call>>
    BY <1>1, <1>2, StartAlone DEF CreateUser
  <2>2. shown[c] = <<>> /\ Visible(c).coins = <<>> /\ RowsOf(shown[c], Visible(c).coins)
    BY <2>1 DEF Waits
  <2>3. CallFits(call, Visible(c)'.coins, shown'[c])
    BY <1>1, <2>1, <2>2 DEF CallFits, Told, NewCall
  <2> QED BY <1>1, <2>1, <2>2, <2>3, NowWaits
<1>3. CASE GetPortfolio(c) \/ \E lot \in Lot : Add(c, lot)
  <2>1. PICK call : /\ Start(c, call) /\ account /\ UNCHANGED <<account, shown>>
                    /\ call.kind \in {"get", "add"} /\ call.state = "sent"
    <3>1. CASE GetPortfolio(c)
      BY <3>1 DEF GetPortfolio, NewCall, SignedIn
    <3>2. CASE \E lot \in Lot : Add(c, lot)
      BY <3>2 DEF Add, NewCall, SignedIn
    <3> QED BY <1>3, <3>1, <3>2
  <2>2. inflight'[c] = <<call>>
    BY <1>1, <2>1, StartAlone
  <2>3. CallFits(call, Visible(c)'.coins, shown'[c])
    BY <2>1 DEF CallFits
  <2>4. RowsOf(shown'[c], Visible(c)'.coins)
    BY <1>1, <2>1 DEF Waits
  <2> QED BY <1>1, <2>1, <2>2, <2>3, <2>4, NowWaits
<1>4. CASE \E i \in 1..Len(shown[c]) : Delete(c, i)
  <2>1. PICK i \in 1..Len(shown[c]) : Delete(c, i)
    BY <1>4
  <2> DEFINE call == NewCall("delete", shown[c][i])
             rows == RemoveAt(shown[c], i)
  <2>2. account' /\ inflight'[c] = <<call>> /\ shown'[c] = rows
    BY <1>1, <2>1, StartAlone DEF Delete, SignedIn, TypeOK
  <2>3. shown[c] \in Seq(Entry) /\ NoCoinTwice(shown[c])
    BY DEF IndInv, TypeOK, OneEntryPerCoin, Lists
  <2>4. ~Held(rows, shown[c][i].id) /\ \A k : Held(rows, k) => Held(shown[c], k)
    BY <2>3, GoneWithout
  <2> HIDE DEF rows
  <2>5. RowsOf(shown[c], Visible(c).coins)
    BY DEF Waits
  <2>6. \A k : Held(shown[c], k) => Held(Visible(c).coins, k)
    BY <2>5 DEF RowsOf, Held
  <2>7. RowsOf(rows, Visible(c).coins)
    BY <2>4, <2>6 DEF RowsOf, Held
  <2>8. CallFits(call, Visible(c)'.coins, shown'[c])
    BY <1>1, <2>2, <2>4, <2>5 DEF CallFits, NewCall, RowsOf
  <2> HIDE DEF call
  <2> QED BY <1>1, <2>2, <2>7, <2>8, NowWaits
<1> QED BY <1>2, <1>3, <1>4 DEF Calls

LEMMA AnswersWait ==
  ASSUME IndInv, NEW c \in Client, OneDevice(c), Waits(c), Answers(c)
  PROVE  Waits(c)'
<1>1. /\ TypeOK /\ UNCHANGED <<account, remote, pending, shown>>
      /\ Visible(c)' = Visible(c)
  BY DEF IndInv, Answers, AnswerOnline, AnswerFromCache, AnswerError, Visible, Overlay
<1>2. pending'[c] = <<>> => cache'[c] = remote'
  BY <1>1 DEF Answers, AnswerOnline, AnswerFromCache, AnswerError, Waits, TypeOK
<1>3. Overlay(c, cache[c]).coins = Visible(c).coins
  BY DEF Waits, Visible, Overlay
<1>4. PICK i \in 1..Len(inflight[c]) : \E state, coins :
        Answer(c, i, state, coins) /\ (state = "answered" => coins = Visible(c).coins)
  <2>1. CASE AnswerOnline(c)
    BY <2>1 DEF AnswerOnline
  <2>2. CASE AnswerFromCache(c)
    BY <1>3, <2>2 DEF AnswerFromCache
  <2>3. CASE AnswerError(c)
    BY <2>3 DEF AnswerError
  <2> QED BY <2>1, <2>2, <2>3 DEF Answers
<1>5. PICK state, coins :
        Answer(c, i, state, coins) /\ (state = "answered" => coins = Visible(c).coins)
  BY <1>4
<1> DEFINE call == Told(Head(inflight[c]), state, coins)
<1>6. inflight[c] # <<>> /\ inflight'[c] = <<call>>
  BY <1>1, <1>5, AnswerAlone
<1>7. CallFits(Head(inflight[c]), Visible(c).coins, shown[c])
  BY <1>1, <1>6, OnlyCall
<1>8. CallFits(call, Visible(c)'.coins, shown'[c])
  BY <1>1, <1>5, <1>7 DEF CallFits, Told
<1>9. account' /\ RowsOf(shown'[c], Visible(c)'.coins)
  BY <1>1, <1>6 DEF Waits
<1> HIDE DEF call
<1> QED BY <1>2, <1>6, <1>8, <1>9, NowWaits


\* After a completion, nothing is under way.
LEMMA CompletionsWait ==
  ASSUME IndInv, NEW c \in Client, OneDevice(c), Waits(c), Completions(c)
  PROVE  Waits(c)'
<1> DEFINE call == Head(inflight[c])
           seen == Visible(c).coins
<1>1. TypeOK /\ inflight[c] # <<>> /\ UNCHANGED <<account, remote, cache>>
  BY DEF IndInv, Completions, RunCreate, RunGet, RunAdd, RunDelete, RunDeleteMiss,
         TrapDelete, DeleteWillTrap, RunFailed, Ready, Stop
<1>2. call \in Call /\ CallFits(call, seen, shown[c])
  BY <1>1, OnlyCall
<1>3. account' /\ RowsOf(shown[c], seen)
  BY <1>1 DEF Waits
<1>4. seen \in Seq(Entry) /\ NoCoinTwice(seen)
  BY SeenIsList
<1>5. inflight'[c] = <<>>
  <2>1. CASE Finish(c)
    BY <1>1, <2>1, FinishAlone
  <2>2. CASE Stop(c)
    BY <1>1, <2>2 DEF Stop, TypeOK
  <2> QED BY <2>1, <2>2 DEF Completions, RunCreate, RunGet, RunAdd, RunDelete,
                            RunDeleteMiss, TrapDelete, RunFailed
<1> HIDE DEF call
<1>6. CASE UNCHANGED pending
  <2>1. Visible(c)' = Visible(c)
    BY <1>1, <1>6 DEF Visible, Overlay
  <2>2. pending'[c] = <<>> => cache'[c] = remote'
    BY <1>1, <1>6 DEF Waits
  <2>3. RowsOf(shown'[c], Visible(c)'.coins)
    <3>1. CASE UNCHANGED shown
      BY <1>3, <2>1, <3>1
    <3>2. CASE RunGet(c)
      <4>1. shown'[c] = call.coins /\ call.kind = "get" /\ call.state = "answered"
        BY <1>1, <3>2 DEF RunGet, Ready, TypeOK, call
      <4>2. call.coins = seen
        BY <1>2, <4>1 DEF CallFits
      <4> HIDE DEF seen
      <4>3. RowsOf(seen, seen)
        BY DEF RowsOf, Held
      <4> QED BY <2>1, <4>1, <4>2, <4>3 DEF seen
    <3>3. CASE TrapDelete(c)
      <4>1. shown'[c] = <<>>
        BY <1>1, <3>3 DEF TrapDelete, Stop, TypeOK
      <4> QED BY <4>1 DEF RowsOf
    <3>4. CASE RunCreate(c) \/ RunAdd(c) \/ RunDelete(c) \/ RunDeleteMiss(c) \/ RunFailed(c)
      BY <3>1, <3>4 DEF RunCreate, RunAdd, RunDelete, RunDeleteMiss, RunFailed
    <3> QED BY <3>2, <3>3, <3>4 DEF Completions
  <2> QED BY <1>3, <1>5, <2>2, <2>3, NowWaits
<1>7. CASE RunCreate(c)
  <2>1. SetData(c, <<>>, <<>>, {}) /\ UNCHANGED shown /\ call.kind = "create"
    BY <1>7 DEF RunCreate, Ready, call
  <2>2. <<>> \in Seq(Entry) /\ {} \in SUBSET Coin
    BY EmptySeq
  <2>3. pending'[c] # <<>>
    BY <1>1, <2>1, <2>2, SeenAfterSetData
  <2>4. shown'[c] = <<>>
    BY <1>2, <2>1 DEF CallFits
  <2>5. RowsOf(shown'[c], Visible(c)'.coins)
    BY <2>4 DEF RowsOf
  <2> QED BY <1>3, <1>5, <2>3, <2>5, NowWaits
<1>8. CASE RunAdd(c)
  <2> DEFINE new == WithLot(call.coins, call.lot)
  <2>1. /\ SetData(c, new, call.coins, {}) /\ UNCHANGED shown
        /\ call.kind = "add" /\ call.state = "answered"
    BY <1>8 DEF RunAdd, Ready, call
  <2>2. call.coins = seen /\ call.lot \in Entry
    BY <1>2, <2>1, LotIsEntry DEF CallFits, Call
  <2>3. new \in Seq(Entry) /\ \A k : Held(seen, k) => Held(new, k)
    BY <1>4, <2>2, WithLotEntries, HeldWithLot
  <2> HIDE DEF new
  <2>4. pending'[c] # <<>> /\ Visible(c)'.coins = new
    BY <1>1, <1>4, <2>1, <2>2, <2>3, SeenAfterSetData
  <2>5. RowsOf(shown'[c], Visible(c)'.coins)
    BY <1>3, <2>1, <2>3, <2>4 DEF RowsOf
  <2> QED BY <1>3, <1>5, <2>4, <2>5, NowWaits
<1>9. CASE RunDelete(c)
  <2> DEFINE k == call.lot.id
             new == Without(call.coins, k)
  <2>1. /\ SetData(c, new, call.coins, {k}) /\ UNCHANGED shown
        /\ call.kind = "delete" /\ call.state = "answered"
    BY <1>9 DEF RunDelete, Ready, call
  <2>2. call.coins = seen /\ k \in Coin /\ Held(seen, k) /\ ~Held(shown[c], k)
    BY <1>2, <2>1 DEF CallFits, Call, Entry
  <2> HIDE DEF k
  <2>3. new \in Seq(Entry)
    BY <1>4, <2>2, PositionFound, RemoveAtEntries DEF Without
  <2>4. \A j : Held(seen, j) /\ j # k => Held(new, j)
    BY <1>4, <2>2, HeldWithout
  <2> HIDE DEF new
  <2>5. pending'[c] # <<>> /\ Visible(c)'.coins = new
    BY <1>1, <1>4, <2>1, <2>2, <2>3, SeenAfterSetData
  <2>6. RowsOf(shown'[c], Visible(c)'.coins)
    <3>1. \A i \in 1..Len(shown[c]) : shown[c][i].id # k
      BY <2>2 DEF Held
    <3> QED BY <1>3, <2>1, <2>4, <2>5, <3>1 DEF RowsOf
  <2> QED BY <1>3, <1>5, <2>5, <2>6, NowWaits
<1>10. CASE RunGet(c) \/ RunDeleteMiss(c) \/ TrapDelete(c) \/ RunFailed(c)
  BY <1>6, <1>10 DEF RunGet, RunDeleteMiss, TrapDelete, RunFailed, Stop
<1> QED BY <1>7, <1>8, <1>9, <1>10 DEF Completions

\* The server takes a write, or the process stops.
LEMMA OthersWait ==
  ASSUME IndInv, NEW c \in Client, OneDevice(c), Waits(c),
         Upload(c) \/ UploadUnanswered(c) \/ Reject(c) \/ Kill(c)
  PROVE  Waits(c)'
<1>1. TypeOK /\ UNCHANGED account
  BY DEF IndInv, Upload, UploadUnanswered, Reject, Kill, Stop
<1>2. CASE Upload(c) \/ UploadUnanswered(c)
  <2>1. /\ pending[c] # <<>> /\ remote' = Document(Head(pending[c]).coins)
        /\ UNCHANGED <<inflight, shown>>
        /\ Dequeue(c) \/ UNCHANGED pending
    BY <1>2 DEF Upload, UploadUnanswered
  <2>2. Visible(c)'.coins = Visible(c).coins
    BY <1>1, <2>1, SeenAfterUpload
  <2>3. pending'[c] = <<>> => cache'[c] = remote'
    <3>1. CASE Upload(c)
      BY <1>1, <3>1 DEF Upload, TypeOK
    <3>2. CASE UploadUnanswered(c)
      BY <3>2 DEF UploadUnanswered
    <3> QED BY <1>2, <3>1, <3>2
  <2>4. RowsOf(shown'[c], Visible(c)'.coins)
    BY <2>1, <2>2 DEF Waits
  <2>5. \/ inflight'[c] = <<>>
        \/ \E call : inflight'[c] = <<call>> /\ CallFits(call, Visible(c)'.coins, shown'[c])
    BY <1>1, <2>1, <2>2, OnlyCall
  <2>6. \/ account'
        \/ inflight'[c] = <<>> /\ shown'[c] = <<>> /\ Visible(c)'.coins = <<>>
    BY <1>1, <2>1, <2>2 DEF Waits
  <2> QED BY <2>3, <2>4, <2>5, <2>6, NowWaits
<1>3. CASE Reject(c)
  BY <1>3 DEF Reject, OneDevice
<1>4. CASE Kill(c)
  <2>1. /\ inflight'[c] = <<>> /\ shown'[c] = <<>> /\ UNCHANGED <<remote, cache, pending>>
        /\ Visible(c)' = Visible(c)
    BY <1>1, <1>4 DEF Kill, Stop, TypeOK, Visible, Overlay
  <2>2. RowsOf(shown'[c], Visible(c)'.coins)
    BY <2>1 DEF RowsOf
  <2>3. pending'[c] = <<>> => cache'[c] = remote'
    BY <2>1 DEF Waits
  <2>4. \/ account'
        \/ inflight'[c] = <<>> /\ shown'[c] = <<>> /\ Visible(c)'.coins = <<>>
    BY <1>1, <2>1 DEF Waits
  <2> QED BY <2>1, <2>2, <2>3, <2>4, NowWaits
<1> QED BY <1>2, <1>3, <1>4

LEMMA WaitsHolds ==
  ASSUME NEW c \in Client, OneDevice(c)
  PROVE  Spec => [](IndInv /\ Waits(c))
<1>1. Init => Waits(c)
  <2>1. SUFFICES ASSUME Init PROVE Waits(c)
    OBVIOUS
  <2>2. Visible(c).coins = <<>> /\ inflight[c] = <<>> /\ shown[c] = <<>> /\ cache[c] = remote
    BY <2>1 DEF Init, Visible, Overlay, NoDoc
  <2>3. Len(inflight[c]) = 0 /\ RowsOf(shown[c], Visible(c).coins)
    BY <2>2 DEF RowsOf
  <2> QED BY <2>2, <2>3 DEF Waits
<1>2. IndInv /\ Waits(c) /\ [Next]_vars => Waits(c)'
  <2>1. SUFFICES ASSUME IndInv, Waits(c), [Next]_vars PROVE Waits(c)'
    OBVIOUS
  <2>2. CASE UNCHANGED vars
    BY <2>1, <2>2 DEF vars, Waits, Visible, Overlay, CallFits, RowsOf, Held
  <2>3. CASE Next
    <3>1. \/ Calls(c) \/ Answers(c) \/ Completions(c)
          \/ Upload(c) \/ UploadUnanswered(c) \/ Reject(c) \/ Kill(c)
      BY <2>3 DEF Next, OneDevice
    <3> QED BY <2>1, <3>1, CallsWait, AnswersWait, CompletionsWait, OthersWait
  <2> QED BY <2>1, <2>2, <2>3
<1> QED BY <1>1, <1>2, IndInvHolds, PTL DEF Spec

\* One device that waits for each call: a delete always finds its coin in the list
\* it is told, so the loop over an empty list is never entered.
THEOREM DeleteNeverTraps ==
  ASSUME NEW c \in Client, OneDevice(c)
  PROVE  Spec => []DeleteFindsCoins
<1>1. IndInv /\ Waits(c) => DeleteFindsCoins
  <2>1. SUFFICES ASSUME IndInv, Waits(c), DeleteWillTrap(c) PROVE FALSE
    BY DEF DeleteFindsCoins, OneDevice
  <2> DEFINE call == Head(inflight[c])
  <2>2. /\ TypeOK /\ inflight[c] # <<>> /\ call.kind = "delete"
        /\ call.state = "answered" /\ call.coins = <<>>
    BY <2>1 DEF IndInv, DeleteWillTrap, Ready
  <2>3. CallFits(call, Visible(c).coins, shown[c])
    BY <2>1, <2>2, OnlyCall
  <2> HIDE DEF call
  <2>4. Held(<<>>, call.lot.id)
    BY <2>2, <2>3 DEF CallFits
  <2> QED BY <2>4 DEF Held
<1> QED BY <1>1, WaitsHolds, PTL


-----------------------------------------------------------------------------
(* The promise of the module Portfolio.  One device, so what it sees is what *)
(* the account holds; a request is the add or the delete under way.          *)

Holdings(coins) == [k \in Coin |-> HoldingIn(coins, k)]

\* What a list holds of a coin is its entry, if it has one.
LEMMA HoldingOfEntry ==
  ASSUME NEW coins \in Seq(Entry), NoCoinTwice(coins)
  PROVE  /\ \A i \in 1..Len(coins) :
               HoldingIn(coins, coins[i].id) = [qty |-> coins[i].qty, cost |-> coins[i].cost]
         /\ \A k : ~Held(coins, k) => HoldingIn(coins, k) = [qty |-> 0, cost |-> 0]
<1>1. ASSUME NEW i \in 1..Len(coins)
      PROVE  HoldingIn(coins, coins[i].id) = [qty |-> coins[i].qty, cost |-> coins[i].cost]
  <2>1. Held(coins, coins[i].id)
    BY DEF Held
  <2>2. Position(coins, coins[i].id) = i
    BY <2>1, PositionFound DEF NoCoinTwice
  <2> QED BY <2>1, <2>2 DEF HoldingIn
<1> QED BY <1>1 DEF HoldingIn

\* A lot that is added counts for its coin and for no other.
LEMMA HoldingWithLot ==
  ASSUME NEW coins \in Seq(Entry), NoCoinTwice(coins), NEW lot \in Entry
  PROVE  Holdings(WithLot(coins, lot)) =
           [Holdings(coins) EXCEPT ![lot.id] = [qty |-> @.qty + lot.qty, cost |-> @.cost + lot.cost]]
<1> DEFINE new == WithLot(coins, lot)
           p == Position(coins, lot.id)
           old(k) == HoldingIn(coins, k)
<1>1. new \in Seq(Entry) /\ NoCoinTwice(new) /\ Len(coins) \in Nat
  BY WithLotEntries, WithLotOnce, LenProperties
<1>2. lot.id \in Coin /\ lot.qty \in Nat /\ lot.cost \in Nat
  BY DEF Entry
<1>3. HoldingIn(new, lot.id) =
        [qty |-> old(lot.id).qty + lot.qty, cost |-> old(lot.id).cost + lot.cost]
  <2>1. CASE Held(coins, lot.id)
    <3>1. /\ Len(new) = Len(coins) /\ p \in 1..Len(coins) /\ coins[p].id = lot.id
          /\ new[p] = Merged(coins[p], lot)
      BY <2>1, WithLotEntries, PositionFound
    <3>2. coins[p] \in Entry
      BY <3>1, ElementOfSeq
    <3>3. /\ new[p].id = coins[p].id /\ new[p].qty = coins[p].qty + lot.qty
          /\ new[p].cost = coins[p].cost + lot.cost
      BY <3>1, <3>2, MergedEntry
    <3> HIDE DEF new, p
    <3>4. old(lot.id) = [qty |-> coins[p].qty, cost |-> coins[p].cost]
      BY <3>1, HoldingOfEntry
    <3>5. HoldingIn(new, new[p].id) = [qty |-> new[p].qty, cost |-> new[p].cost]
      BY <1>1, <3>1, HoldingOfEntry
    <3> HIDE DEF old
    <3> QED BY <3>1, <3>3, <3>4, <3>5
  <2>2. CASE ~Held(coins, lot.id)
    <3>1. Len(new) = Len(coins) + 1 /\ new[Len(coins) + 1] = lot
      BY <2>2, WithLotEntries
    <3> HIDE DEF new
    <3>2. old(lot.id) = [qty |-> 0, cost |-> 0]
      BY <2>2, HoldingOfEntry
    <3>3. Len(coins) + 1 \in 1..Len(new)
      BY <1>1, <3>1
    <3>4. HoldingIn(new, lot.id) = [qty |-> lot.qty, cost |-> lot.cost]
      BY <1>1, <3>1, <3>3, HoldingOfEntry
    <3> HIDE DEF old
    <3>5. 0 + lot.qty = lot.qty /\ 0 + lot.cost = lot.cost
      BY <1>2
    <3> QED BY <3>2, <3>4, <3>5
  <2> QED BY <2>1, <2>2
<1>4. ASSUME NEW k \in Coin, k # lot.id
      PROVE  HoldingIn(new, k) = old(k)
  <2>1. CASE Held(coins, k)
    <3>1. PICK i \in 1..Len(coins) : coins[i].id = k
      BY <2>1 DEF Held
    <3>2. i \in 1..Len(new) /\ new[i] = coins[i]
      <4>1. CASE Held(coins, lot.id)
        <5>1. /\ Len(new) = Len(coins) /\ coins[p].id = lot.id
              /\ new[i] = IF i = p THEN Merged(coins[p], lot) ELSE coins[i]
          BY <4>1, WithLotEntries, PositionFound
        <5> HIDE DEF new, p
        <5> QED BY <1>4, <3>1, <5>1
      <4>2. CASE ~Held(coins, lot.id)
        <5>1. Len(new) = Len(coins) + 1 /\ new[i] = coins[i]
          BY <4>2, WithLotEntries
        <5> HIDE DEF new
        <5> QED BY <1>1, <5>1
      <4> QED BY <4>1, <4>2
    <3> HIDE DEF new
    <3>3. HoldingIn(new, new[i].id) = [qty |-> new[i].qty, cost |-> new[i].cost]
      BY <1>1, <3>2, HoldingOfEntry
    <3>4. old(k) = [qty |-> coins[i].qty, cost |-> coins[i].cost]
      BY <3>1, HoldingOfEntry
    <3> HIDE DEF old
    <3> QED BY <3>1, <3>2, <3>3, <3>4
  <2>2. CASE ~Held(coins, k)
    <3>1. \A i \in 1..Len(new) : new[i].id # k
      <4>1. CASE Held(coins, lot.id)
        <5>1. /\ Len(new) = Len(coins) /\ p \in 1..Len(coins) /\ coins[p].id = lot.id
              /\ \A i \in 1..Len(coins) :
                    new[i] = IF i = p THEN Merged(coins[p], lot) ELSE coins[i]
          BY <4>1, WithLotEntries, PositionFound
        <5>2. Merged(coins[p], lot).id = lot.id
          BY <5>1, ElementOfSeq, MergedEntry
        <5> HIDE DEF new, p
        <5> QED BY <1>4, <2>2, <5>1, <5>2 DEF Held
      <4>2. CASE ~Held(coins, lot.id)
        <5>1. /\ Len(new) = Len(coins) + 1 /\ new[Len(coins) + 1] = lot
              /\ \A i \in 1..Len(coins) : new[i] = coins[i]
          BY <4>2, WithLotEntries
        <5> HIDE DEF new
        <5>2. ASSUME NEW i \in 1..Len(new)
              PROVE  new[i].id # k
          <6>1. i = Len(coins) + 1 \/ i \in 1..Len(coins)
            BY <1>1, <5>1
          <6> QED BY <1>4, <2>2, <5>1, <6>1 DEF Held
        <5> QED BY <5>2
      <4> QED BY <4>1, <4>2
    <3> HIDE DEF new
    <3>2. ~Held(new, k)
      BY <3>1 DEF Held
    <3> QED BY <1>1, <2>2, <3>2, HoldingOfEntry
  <2> QED BY <2>1, <2>2
<1> HIDE DEF new
<1>5. Holdings(new) = [k \in Coin |->
         IF k = lot.id
         THEN [qty |-> old(lot.id).qty + lot.qty, cost |-> old(lot.id).cost + lot.cost]
         ELSE old(k)]
  BY <1>3, <1>4 DEF Holdings
<1>6. Holdings(coins) = [k \in Coin |-> old(k)]
  BY DEF Holdings
<1> HIDE DEF old
<1> QED BY <1>2, <1>5, <1>6 DEF new

\* A coin that is removed is gone, and no other is touched.
LEMMA HoldingWithout ==
  ASSUME NEW coins \in Seq(Entry), NoCoinTwice(coins), NEW j \in Coin, Held(coins, j)
  PROVE  Holdings(Without(coins, j)) =
           [Holdings(coins) EXCEPT ![j] = [qty |-> 0, cost |-> 0]]
<1> DEFINE p == Position(coins, j)
           new == Without(coins, j)
           old(k) == HoldingIn(coins, k)
<1>1. p \in 1..Len(coins) /\ coins[p].id = j
  BY PositionFound
<1>2. /\ new \in Seq(Entry) /\ NoCoinTwice(new) /\ ~Held(new, j)
      /\ \A k : Held(new, k) => Held(coins, k)
  BY <1>1, RemoveAtEntries, RemoveAtOnce, GoneWithout DEF Without
<1>3. /\ Len(new) = Len(coins) - 1 /\ Len(coins) \in Nat
      /\ \A i \in 1..(Len(coins) - 1) : new[i] = IF i < p THEN coins[i] ELSE coins[i + 1]
  BY <1>1, RemoveAtEntries, LenProperties DEF Without
<1> HIDE DEF new, p
<1>4. HoldingIn(new, j) = [qty |-> 0, cost |-> 0]
  BY <1>2, HoldingOfEntry
<1>5. ASSUME NEW k \in Coin, k # j
      PROVE  HoldingIn(new, k) = old(k)
  <2>1. CASE Held(new, k)
    <3>1. PICK m \in 1..Len(new) : new[m].id = k
      BY <2>1 DEF Held
    <3>2. PICK i \in 1..Len(coins) : new[m] = coins[i]
      <4>1. m \in 1..Len(coins) /\ m + 1 \in 1..Len(coins) /\ m \in 1..(Len(coins) - 1)
        BY <1>3
      <4> QED BY <1>3, <4>1
    <3>3. HoldingIn(new, k) = [qty |-> new[m].qty, cost |-> new[m].cost]
      BY <1>2, <3>1, HoldingOfEntry
    <3>4. old(k) = [qty |-> coins[i].qty, cost |-> coins[i].cost]
      BY <3>1, <3>2, HoldingOfEntry
    <3> HIDE DEF old
    <3> QED BY <3>2, <3>3, <3>4
  <2>2. CASE ~Held(new, k)
    <3>1. ~Held(coins, k)
      BY <1>5, <2>2, HeldWithout DEF new
    <3> QED BY <1>2, <2>2, <3>1, HoldingOfEntry
  <2> QED BY <2>1, <2>2
<1>6. Holdings(new) = [k \in Coin |-> IF k = j THEN [qty |-> 0, cost |-> 0] ELSE old(k)]
  BY <1>4, <1>5 DEF Holdings
<1>7. Holdings(coins) = [k \in Coin |-> old(k)]
  BY DEF Holdings
<1> HIDE DEF old
<1> QED BY <1>6, <1>7 DEF new


\* What the module Portfolio speaks of, and the request that a call is.
held == [k \in Coin |-> HoldingIn(Visible(CHOOSE c \in Client : TRUE).coins, k)]
asked == [c \in Client |-> Requests(c)]

RequestOf(call) == IF Changes(call) THEN <<AsRequest(call)>> ELSE <<>>

\* One device: what the account holds is what it sees, and there is one queue.
LEMMA PromiseOfOne ==
  ASSUME NEW c \in Client, OneDevice(c)
  PROVE  /\ held = Holdings(Visible(c).coins)
         /\ held' = Holdings(Visible(c)'.coins)
         /\ inflight[c] = <<>> => asked = [d \in Client |-> <<>>]
         /\ inflight'[c] = <<>> => asked' = [d \in Client |-> <<>>]
         /\ \A call : inflight[c] = <<call>> => asked = [d \in Client |-> RequestOf(call)]
         /\ \A call : inflight'[c] = <<call>> => asked' = [d \in Client |-> RequestOf(call)]
<1>1. (CHOOSE d \in Client : TRUE) = c
  BY DEF OneDevice
<1>2. held = Holdings(Visible(c).coins) /\ held' = Holdings(Visible(c)'.coins)
  BY <1>1 DEF held, Holdings, HoldingIn, Held, Position
<1>3. \A d \in Client : d = c
  BY DEF OneDevice
<1>4. /\ inflight[c] = <<>> => Requests(c) = <<>>
      /\ inflight'[c] = <<>> => Requests(c)' = <<>>
  BY DEF Requests
<1>5. ASSUME NEW call
      PROVE  /\ inflight[c] = <<call>> => Requests(c) = RequestOf(call)
             /\ inflight'[c] = <<call>> => Requests(c)' = RequestOf(call)
  <2>1. <<call>> # <<>> /\ Head(<<call>>) = call
    OBVIOUS
  <2> QED BY <2>1 DEF Requests, RequestOf, Changes, AsRequest
<1> QED BY <1>2, <1>3, <1>4, <1>5 DEF asked

\* The steps of the promise, on what is held and what is asked.
LEMMA PromiseSteps ==
  ASSUME NEW c \in Client
  PROVE  /\ (UNCHANGED held /\ UNCHANGED asked) => UNCHANGED Promise!state
         /\ \A r \in Promise!Request :
               UNCHANGED held /\ asked' = [asked EXCEPT ![c] = Append(asked[c], r)]
                  => Promise!Ask(c)
         /\ UNCHANGED held /\ asked' = [asked EXCEPT ![c] = <<>>] => Promise!Quit(c)
         /\ (/\ asked[c] # <<>> /\ asked' = [asked EXCEPT ![c] = Tail(asked[c])]
             /\ UNCHANGED held)
               => Promise!Fail(c)
         /\ (/\ asked[c] # <<>> /\ asked' = [asked EXCEPT ![c] = Tail(asked[c])]
             /\ Head(asked[c]).kind = "add"
             /\ held' = [held EXCEPT ![Head(asked[c]).lot.id] =
                            [qty |-> @.qty + Head(asked[c]).lot.qty,
                             cost |-> @.cost + Head(asked[c]).lot.cost]])
               => Promise!Buy(c)
         /\ (/\ asked[c] # <<>> /\ asked' = [asked EXCEPT ![c] = Tail(asked[c])]
             /\ Head(asked[c]).kind = "delete"
             /\ held' = [held EXCEPT ![Head(asked[c]).coin] = [qty |-> 0, cost |-> 0]])
               => Promise!Sell(c)
<1>1. (UNCHANGED held /\ UNCHANGED asked) => UNCHANGED Promise!state
  BY DEF held, asked, Promise!state
<1>2. ASSUME NEW r \in Promise!Request, UNCHANGED held,
             asked' = [asked EXCEPT ![c] = Append(asked[c], r)]
      PROVE  Promise!Ask(c)
  BY <1>2 DEF held, asked, Promise!Ask
<1>3. UNCHANGED held /\ asked' = [asked EXCEPT ![c] = <<>>] => Promise!Quit(c)
  BY DEF held, asked, Promise!Quit
<1>4. asked[c] # <<>> /\ asked' = [asked EXCEPT ![c] = Tail(asked[c])] => Promise!Decide(c)
  BY DEF asked, Promise!Decide
<1>5. Promise!Decide(c) /\ UNCHANGED held => Promise!Fail(c)
  BY DEF held, Promise!Fail
<1>6. (/\ Promise!Decide(c)
       /\ Head(asked[c]).kind = "add"
       /\ held' = [held EXCEPT ![Head(asked[c]).lot.id] =
                       [qty |-> @.qty + Head(asked[c]).lot.qty,
                        cost |-> @.cost + Head(asked[c]).lot.cost]])
        => Promise!Buy(c)
  BY DEF held, asked, Promise!Buy
<1>7. (/\ Promise!Decide(c)
       /\ Head(asked[c]).kind = "delete"
       /\ held' = [held EXCEPT ![Head(asked[c]).coin] = [qty |-> 0, cost |-> 0]])
        => Promise!Sell(c)
  BY DEF held, asked, Promise!Sell, Promise!Nothing
<1> QED BY <1>1, <1>2, <1>3, <1>4, <1>5, <1>6, <1>7


\* A completion takes its request away.
LEMMA RequestEnds ==
  ASSUME IndInv, NEW c \in Client, OneDevice(c), Waits(c), inflight[c] # <<>>,
         inflight'[c] = <<>>, Changes(Head(inflight[c]))
  PROVE  /\ asked[c] # <<>> /\ asked' = [asked EXCEPT ![c] = Tail(asked[c])]
         /\ Head(asked[c]) = AsRequest(Head(inflight[c]))
<1> DEFINE call == Head(inflight[c])
<1>1. inflight[c] = <<call>>
  BY OnlyCall DEF IndInv
<1> HIDE DEF call
<1>2. asked = [d \in Client |-> RequestOf(call)] /\ asked' = [d \in Client |-> <<>>]
  BY <1>1, PromiseOfOne
<1>3. RequestOf(call) = <<AsRequest(call)>>
  BY DEF RequestOf, call
<1> DEFINE request == AsRequest(call)
<1> HIDE DEF request
<1>4. asked[c] = <<request>>
  BY <1>2, <1>3 DEF request
<1>5. asked[c] # <<>> /\ Head(asked[c]) = request /\ Tail(asked[c]) = <<>>
  BY <1>4
<1>6. asked' = [asked EXCEPT ![c] = <<>>]
  BY <1>2 DEF OneDevice
<1> QED BY <1>5, <1>6 DEF request, call

LEMMA CallsPromise ==
  ASSUME IndInv, NEW c \in Client, OneDevice(c), Waits(c), Calls(c)
  PROVE  Promise!Ask(c) \/ UNCHANGED Promise!state
<1>1. TypeOK /\ Visible(c)' = Visible(c)
  BY DEF IndInv, Calls, CreateUser, GetPortfolio, Add, Delete, Visible, Overlay
<1>2. UNCHANGED held
  BY <1>1, PromiseOfOne
<1>3. PICK call : Start(c, call) /\ (Changes(call) => AsRequest(call) \in Promise!Request)
  <2>1. CASE CreateUser(c)
    BY <2>1 DEF CreateUser, Told, NewCall, Changes
  <2>2. CASE GetPortfolio(c)
    BY <2>2 DEF GetPortfolio, NewCall, Changes
  <2>3. CASE \E lot \in Lot : Add(c, lot)
    BY <2>3 DEF Add, NewCall, AsRequest, Promise!Request
  <2>4. CASE \E i \in 1..Len(shown[c]) : Delete(c, i)
    <3>1. PICK i \in 1..Len(shown[c]) : Delete(c, i)
      BY <2>4
    <3>2. shown[c][i] \in Entry
      BY <1>1, ElementOfSeq DEF TypeOK
    <3>3. shown[c][i].id \in Coin
      BY <3>2 DEF Entry
    <3> QED BY <3>1, <3>3 DEF Delete, NewCall, AsRequest, Promise!Request
  <2> QED BY <2>1, <2>2, <2>3, <2>4 DEF Calls
<1>4. asked = [d \in Client |-> <<>>] /\ asked' = [d \in Client |-> RequestOf(call)]
  BY <1>1, <1>3, StartAlone, PromiseOfOne
<1>5. CASE ~Changes(call)
  <2>1. UNCHANGED asked
    BY <1>4, <1>5 DEF RequestOf
  <2> QED BY <1>2, <2>1, PromiseSteps
<1>6. CASE Changes(call)
  <2> DEFINE request == AsRequest(call)
  <2>1. request \in Promise!Request /\ RequestOf(call) = <<request>>
    BY <1>3, <1>6 DEF RequestOf
  <2> HIDE DEF request
  <2>2. asked[c] = <<>> /\ Append(<<>>, request) = <<request>>
    BY <1>4
  <2>3. asked' = [asked EXCEPT ![c] = Append(asked[c], request)]
    BY <1>4, <2>1, <2>2 DEF OneDevice
  <2> QED BY <1>2, <2>1, <2>3, PromiseSteps
<1> QED BY <1>5, <1>6

LEMMA CompletionsPromise ==
  ASSUME IndInv, NEW c \in Client, OneDevice(c), Waits(c), Completions(c)
  PROVE  Promise!Next \/ UNCHANGED Promise!state
<1> DEFINE call == Head(inflight[c])
           seen == Visible(c).coins
<1>1. TypeOK /\ inflight[c] # <<>> /\ UNCHANGED remote
  BY DEF IndInv, Completions, RunCreate, RunGet, RunAdd, RunDelete, RunDeleteMiss,
         TrapDelete, DeleteWillTrap, RunFailed, Ready, Stop
<1>2. call \in Call /\ inflight[c] = <<call>> /\ CallFits(call, seen, shown[c])
  BY <1>1, OnlyCall
<1>3. inflight'[c] = <<>>
  <2>1. CASE Finish(c)
    BY <1>1, <2>1, FinishAlone
  <2>2. CASE Stop(c)
    BY <1>1, <2>2 DEF Stop, TypeOK
  <2> QED BY <2>1, <2>2 DEF Completions, RunCreate, RunGet, RunAdd, RunDelete,
                            RunDeleteMiss, TrapDelete, RunFailed
<1>4. seen \in Seq(Entry) /\ NoCoinTwice(seen)
  BY SeenIsList
<1>5. /\ asked' = [d \in Client |-> <<>>] /\ asked = [d \in Client |-> RequestOf(call)]
      /\ held = Holdings(seen) /\ held' = Holdings(Visible(c)'.coins)
  BY <1>2, <1>3, PromiseOfOne
<1>6. Changes(call) =>
        /\ asked[c] # <<>> /\ asked' = [asked EXCEPT ![c] = Tail(asked[c])]
        /\ Head(asked[c]) = AsRequest(call)
  BY <1>1, <1>3, RequestEnds
<1>7. ~Changes(call) => UNCHANGED asked
  BY <1>5 DEF RequestOf
<1> HIDE DEF call, seen
<1>8. CASE UNCHANGED pending
  <2>1. UNCHANGED held
    BY <1>1, <1>5, <1>8 DEF Visible, Overlay, seen
  <2>2. CASE Changes(call)
    BY <1>6, <2>1, <2>2, PromiseSteps DEF Promise!Next
  <2>3. CASE ~Changes(call)
    BY <1>7, <2>1, <2>3, PromiseSteps
  <2> QED BY <2>2, <2>3
<1>9. CASE RunCreate(c)
  <2>1. SetData(c, <<>>, <<>>, {}) /\ call.kind = "create"
    BY <1>9 DEF RunCreate, Ready, call
  <2>2. <<>> \in Seq(Entry) /\ {} \in SUBSET Coin
    BY EmptySeq
  <2>3. Visible(c)'.coins = <<>> /\ seen = <<>>
    BY <1>1, <1>2, <2>1, <2>2, SeenAfterSetData DEF CallFits
  <2>4. UNCHANGED held /\ UNCHANGED asked
    BY <1>5, <1>7, <2>1, <2>3 DEF Changes
  <2> QED BY <2>4, PromiseSteps
<1>10. CASE RunAdd(c)
  <2> DEFINE new == WithLot(seen, call.lot)
  <2>1. /\ SetData(c, WithLot(call.coins, call.lot), call.coins, {})
        /\ call.kind = "add" /\ call.state = "answered"
    BY <1>10 DEF RunAdd, Ready, call
  <2>2. call.coins = seen /\ call.lot \in Entry
    BY <1>2, <2>1, LotIsEntry DEF CallFits, Call
  <2>3. new \in Seq(Entry)
    BY <1>4, <2>2, WithLotEntries
  <2>4. Visible(c)'.coins = new
    BY <1>1, <1>4, <2>1, <2>2, <2>3, SeenAfterSetData
  <2>5. held' = [held EXCEPT ![call.lot.id] =
                    [qty |-> @.qty + call.lot.qty, cost |-> @.cost + call.lot.cost]]
    BY <1>4, <1>5, <2>2, <2>4, HoldingWithLot
  <2>6. AsRequest(call).kind = "add" /\ AsRequest(call).lot = call.lot /\ Changes(call)
    BY <2>1 DEF AsRequest, Changes
  <2>7. Promise!Buy(c)
    BY <1>6, <2>5, <2>6, PromiseSteps
  <2> QED BY <2>7 DEF Promise!Next
<1>11. CASE RunDelete(c)
  <2> DEFINE k == call.lot.id
             new == Without(seen, k)
  <2>1. /\ SetData(c, Without(call.coins, k), call.coins, {k})
        /\ call.kind = "delete" /\ call.state = "answered"
    BY <1>11 DEF RunDelete, Ready, call
  <2>2. call.coins = seen /\ k \in Coin /\ Held(seen, k)
    BY <1>2, <2>1 DEF CallFits, Call, Entry
  <2>3. AsRequest(call).kind = "delete" /\ AsRequest(call).coin = k /\ Changes(call)
    BY <2>1 DEF AsRequest, Changes
  <2> HIDE DEF k
  <2>4. new \in Seq(Entry)
    BY <1>4, <2>2, PositionFound, RemoveAtEntries DEF Without
  <2>5. Visible(c)'.coins = new
    BY <1>1, <1>4, <2>1, <2>2, <2>4, SeenAfterSetData
  <2>6. held' = [held EXCEPT ![k] = [qty |-> 0, cost |-> 0]]
    BY <1>4, <1>5, <2>2, <2>5, HoldingWithout
  <2>7. Promise!Sell(c)
    BY <1>6, <2>3, <2>6, PromiseSteps
  <2> QED BY <2>7 DEF Promise!Next
<1>12. CASE RunGet(c) \/ RunDeleteMiss(c) \/ TrapDelete(c) \/ RunFailed(c)
  BY <1>8, <1>12 DEF RunGet, RunDeleteMiss, TrapDelete, RunFailed, Stop
<1> QED BY <1>9, <1>10, <1>11, <1>12 DEF Completions

LEMMA OthersPromise ==
  ASSUME IndInv, NEW c \in Client, OneDevice(c), Waits(c),
         Answers(c) \/ Upload(c) \/ UploadUnanswered(c) \/ Reject(c) \/ Kill(c)
  PROVE  Promise!Quit(c) \/ UNCHANGED Promise!state
<1>1. TypeOK
  BY DEF IndInv
<1>2. Visible(c)'.coins = Visible(c).coins
  <2>1. CASE Answers(c) \/ Kill(c)
    BY <2>1 DEF Answers, AnswerOnline, AnswerFromCache, AnswerError, Kill, Stop, Visible, Overlay
  <2>2. CASE Upload(c) \/ UploadUnanswered(c)
    BY <1>1, <2>2, SeenAfterUpload DEF Upload, UploadUnanswered
  <2>3. CASE Reject(c)
    BY <2>3 DEF Reject, OneDevice
  <2> QED BY <2>1, <2>2, <2>3
<1>3. UNCHANGED held
  BY <1>2, PromiseOfOne
<1>4. CASE Answers(c)
  <2>1. PICK i \in 1..Len(inflight[c]) : \E state, coins : Answer(c, i, state, coins)
    BY <1>4 DEF Answers, AnswerOnline, AnswerFromCache, AnswerError
  <2>2. PICK state, coins : Answer(c, i, state, coins)
    BY <2>1
  <2> DEFINE old == Head(inflight[c])
             new == Told(old, state, coins)
  <2>3. inflight[c] # <<>> /\ inflight'[c] = <<new>>
    BY <1>1, <2>2, AnswerAlone
  <2>4. inflight[c] = <<old>>
    BY <1>1, <2>3, OnlyCall
  <2>5. RequestOf(new) = RequestOf(old)
    BY DEF RequestOf, Changes, AsRequest, Told
  <2> HIDE DEF old, new
  <2>6. UNCHANGED asked
    BY <2>3, <2>4, <2>5, PromiseOfOne
  <2> QED BY <1>3, <2>6, PromiseSteps
<1>5. CASE Kill(c)
  <2>1. inflight'[c] = <<>>
    BY <1>1, <1>5 DEF Kill, Stop, TypeOK
  <2>2. asked' = [asked EXCEPT ![c] = <<>>]
    BY <2>1, PromiseOfOne DEF asked, OneDevice
  <2> QED BY <1>3, <2>2, PromiseSteps
<1>6. CASE Upload(c) \/ UploadUnanswered(c) \/ Reject(c)
  <2>1. UNCHANGED asked
    BY <1>6 DEF Upload, UploadUnanswered, Reject, asked, Requests, Changes, AsRequest
  <2> QED BY <1>3, <2>1, PromiseSteps
<1> QED BY <1>4, <1>5, <1>6

\* One device that waits for each call: every add and every delete takes effect at
\* most once, at one moment, in the order of the calls, on all that the account then
\* holds.
THEOREM StoreKeepsThePromise ==
  ASSUME NEW c \in Client, OneDevice(c)
  PROVE  Spec => KeepsThePromise
<1>1. Init => Promise!Init
  <2>1. SUFFICES ASSUME Init PROVE Promise!Init
    OBVIOUS
  <2>2. Visible(c).coins = <<>> /\ inflight[c] = <<>>
    BY <2>1 DEF Init, Visible, Overlay, NoDoc
  <2>3. Holdings(<<>>) = [k \in Coin |-> [qty |-> 0, cost |-> 0]]
    <3>1. <<>> \in Seq(Entry) /\ NoCoinTwice(<<>>) /\ \A k : ~Held(<<>>, k)
      BY EmptySeq DEF NoCoinTwice, Held
    <3> QED BY <3>1, HoldingOfEntry DEF Holdings
  <2>4. held = [k \in Coin |-> [qty |-> 0, cost |-> 0]] /\ asked = [d \in Client |-> <<>>]
    BY <2>2, <2>3, PromiseOfOne
  <2> QED BY <2>4 DEF held, asked, Promise!Init, Promise!Nothing
<1>2. IndInv /\ Waits(c) /\ [Next]_vars => [Promise!Next]_(Promise!state)
  <2>1. SUFFICES ASSUME IndInv, Waits(c), [Next]_vars
                 PROVE  Promise!Next \/ UNCHANGED Promise!state
    OBVIOUS
  <2>2. CASE UNCHANGED vars
    <3>1. UNCHANGED held /\ UNCHANGED asked
      BY <2>2 DEF vars, held, asked, Visible, Overlay, HoldingIn, Held, Position,
                  Requests, Changes, AsRequest
    <3> QED BY <3>1, PromiseSteps
  <2>3. CASE Next
    <3>1. \/ Calls(c) \/ Completions(c)
          \/ Answers(c) \/ Upload(c) \/ UploadUnanswered(c) \/ Reject(c) \/ Kill(c)
      BY <2>3 DEF Next, OneDevice
    <3>2. Promise!Ask(c) \/ Promise!Quit(c) \/ Promise!Next \/ UNCHANGED Promise!state
      BY <2>1, <3>1, CallsPromise, CompletionsPromise, OthersPromise
    <3> QED BY <3>2 DEF Promise!Next
  <2> QED BY <2>1, <2>2, <2>3
<1> QED BY <1>1, <1>2, WaitsHolds, PTL DEF Spec, KeepsThePromise, Promise!Spec
=============================================================================
