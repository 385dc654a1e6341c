----------------------------- MODULE WalletProofs -----------------------------
(***************************************************************************)
(* The safety invariants of Wallet, for any market and any bounds.          *)
(*                                                                         *)
(* A row can be of a coin the wallet no longer holds while an answer is      *)
(* under way, so NoGhostRow is not inductive.  What is: when no price       *)
(* request is outstanding, data has not changed since the last answer came, *)
(* and the rows made from that answer so far, or set from it, are of coins  *)
(* in data.  Whoever changes data sends a request, and makes this void.     *)
(*                                                                         *)
(* The other three have their invariants further down: what the pending     *)
(* calls will make of the account (HoldsThePortfolio), and how far the      *)
(* delegate queue has come with a listing (EveryCoinHasItsRow).             *)
(***************************************************************************)
EXTENDS Wallet, SequenceTheorems, FiniteSetTheorems, FunctionTheorems, TLAPS

\* The types that the steps on calls and requests rest on.
Typed ==
    /\ portfolio \in Seq(Coin)
    /\ data \in Seq(Coin)
    /\ calls \in Seq(Call) /\ answers \in Seq(AnswerTo)
    /\ prices \in Seq(Seq(Coin))

Current == ~lost /\ prices = <<>>

MadeHeld ==
    Current /\ background.step = "making" => background.made \in Seq(ToSet(data))

RowsHeld ==
    Current /\ background.step # "making" => viewCellData \in Seq(ToSet(data))

IndInv == Typed /\ MadeHeld /\ RowsHeld

-----------------------------------------------------------------------------
\* RemoveAt yields a list of the same kind.
LEMMA RemoveAtTyped ==
  ASSUME NEW S, NEW s \in Seq(S), NEW i \in 1..Len(s)
  PROVE  RemoveAt(s, i) \in Seq(S)
<1>1. Len(s) \in Nat /\ \A j \in 1..Len(s) : s[j] \in S
  BY LenProperties, ElementOfSeq
<1>2. SubSeq(s, 1, i - 1) \in Seq(S)
  <2>1. 1 \in Int /\ i - 1 \in Int /\ \A j \in 1..(i - 1) : s[j] \in S
    BY <1>1
  <2> QED BY <2>1, SubSeqProperties
<1>3. SubSeq(s, i + 1, Len(s)) \in Seq(S)
  <2>1. i + 1 \in Int /\ Len(s) \in Int /\ \A j \in (i + 1)..Len(s) : s[j] \in S
    BY <1>1
  <2> QED BY <2>1, SubSeqProperties
<1> QED BY <1>2, <1>3, ConcatProperties DEF RemoveAt

\* So does the deletion of a coin, whose loop stops at an entry of it.
LEMMA WithoutTyped ==
  ASSUME NEW coins \in Seq(Coin), NEW k
  PROVE  Without(coins, k) \in Seq(Coin)
<1>1. CASE ~Contains(coins, k)
  BY <1>1 DEF Without
<1>2. CASE Contains(coins, k)
  <2>1. (CHOOSE i \in 1..Len(coins) : coins[i] = k) \in 1..Len(coins)
    BY <1>2 DEF Contains
  <2>2. RemoveAt(coins, CHOOSE i \in 1..Len(coins) : coins[i] = k) \in Seq(Coin)
    BY <2>1, RemoveAtTyped
  <2> QED BY <2>2, <1>2 DEF Without
<1> QED BY <1>1, <1>2

\* A coin that data holds may be appended to coins that it holds.
LEMMA AppendHeld ==
  ASSUME data \in Seq(Coin), NEW k, Contains(data, k), NEW made \in Seq(ToSet(data))
  PROVE  Append(made, k) \in Seq(ToSet(data))
<1>1. PICK i \in 1..Len(data) : data[i] = k
  BY DEF Contains
<1>2. i \in DOMAIN data
  BY LenProperties
<1>3. k \in ToSet(data)
  BY <1>1, <1>2 DEF ToSet
<1> QED BY <1>3, AppendProperties

-----------------------------------------------------------------------------
\* The inductive invariant holds at first.
LEMMA InitIndInv == Init => IndInv
<1> SUFFICES ASSUME Init PROVE IndInv
  OBVIOUS
<1>1. Get \in Call
  BY DEF Get, Call
<1>2. <<Get>> \in Seq(Call)
  BY <1>1
<1>3. portfolio \in Seq(Coin)
  <2>1. portfolio \in SeqOf(Coin, Len(Market))
    BY DEF Init
  <2>2. PICK m \in 0..Len(Market) : portfolio \in [1..m -> Coin]
    BY <2>1 DEF SeqOf
  <2>3. m \in Nat
    BY <2>2
  <2> QED BY <2>2, <2>3
<1>4. Typed
  BY <1>2, <1>3, EmptySeq DEF Init, Typed
<1>5. MadeHeld /\ RowsHeld
  BY EmptySeq DEF Init, Idle, MadeHeld, RowsHeld
<1> QED BY <1>4, <1>5 DEF IndInv

\* A change of data sends a request, so that nothing is claimed of the rows.
LEMMA SetDataSends ==
  ASSUME Typed, NEW coins \in Seq(Coin), SetData(coins)
  PROVE  data' \in Seq(Coin) /\ prices' \in Seq(Seq(Coin)) /\ prices' # <<>>
<1>1. prices \in Seq(Seq(Coin)) /\ data' = coins /\ prices' = Append(prices, coins)
  BY DEF Typed, SetData
<1> QED BY <1>1, AppendProperties

\* Starting a call keeps the types.
LEMMA StartTyped ==
  ASSUME Typed, NEW call \in Call, Start(call)
  PROVE  calls' \in Seq(Call) /\ answers' \in Seq(AnswerTo)
BY AppendProperties DEF Typed, Start

\* A call that reads is one with an answer; a completion has one of them.
LEMMA AnswersTyped ==
  ASSUME NEW cs \in Seq(Call), NEW rs \in Seq(AnswerTo)
  PROVE  /\ cs # <<>> => /\ Tail(cs) \in Seq(Call)
                         /\ \A coins \in Seq(Coin) : Append(rs, Found(Head(cs), coins)) \in Seq(AnswerTo)
                         /\ Append(rs, Unread(Head(cs))) \in Seq(AnswerTo)
         /\ rs # <<>> => /\ Tail(rs) \in Seq(AnswerTo) /\ Head(rs) \in AnswerTo
                         /\ Head(rs).coins \in Seq(Coin)
                         /\ Head(rs).call \in Call
                         /\ Head(rs).call.kind # "get" => Head(rs).call.coin \in Coin
<1>1. ASSUME cs # <<>>
      PROVE  /\ Tail(cs) \in Seq(Call)
             /\ \A coins \in Seq(Coin) : Append(rs, Found(Head(cs), coins)) \in Seq(AnswerTo)
             /\ Append(rs, Unread(Head(cs))) \in Seq(AnswerTo)
  <2>1. Tail(cs) \in Seq(Call) /\ Head(cs) \in Call
    BY <1>1, HeadTailProperties
  <2>2. ASSUME NEW coins \in Seq(Coin) PROVE Append(rs, Found(Head(cs), coins)) \in Seq(AnswerTo)
    <3>1. Found(Head(cs), coins) \in AnswerTo
      BY <2>1 DEF Found, AnswerTo
    <3> QED BY <3>1, AppendProperties
  <2>3. Append(rs, Unread(Head(cs))) \in Seq(AnswerTo)
    <3>1. Unread(Head(cs)) \in AnswerTo
      BY <2>1, EmptySeq DEF Unread, AnswerTo
    <3> QED BY <3>1, AppendProperties
  <2> QED BY <2>1, <2>2, <2>3
<1>2. ASSUME rs # <<>>
      PROVE  /\ Tail(rs) \in Seq(AnswerTo) /\ Head(rs) \in AnswerTo
             /\ Head(rs).coins \in Seq(Coin)
             /\ Head(rs).call \in Call
             /\ Head(rs).call.kind # "get" => Head(rs).call.coin \in Coin
  <2>1. Tail(rs) \in Seq(AnswerTo) /\ Head(rs) \in AnswerTo
    BY <1>2, HeadTailProperties
  <2>2. Head(rs).coins \in Seq(Coin) /\ Head(rs).call \in Call
    BY <2>1 DEF AnswerTo
  <2>3. Head(rs).call.kind # "get" => Head(rs).call.coin \in Coin
    BY <2>2 DEF Call
  <2> QED BY <2>1, <2>2, <2>3
<1> QED BY <1>1, <1>2

\* Every step keeps the inductive invariant.
LEMMA StepIndInv == IndInv /\ [Next]_vars => IndInv'
<1> SUFFICES ASSUME IndInv, [Next]_vars PROVE IndInv'
  OBVIOUS
<1> USE DEF IndInv
<1>1. ASSUME Refresh PROVE IndInv'
  <2>1. calls' \in Seq(Call) /\ answers' \in Seq(AnswerTo)
    <3>1. Get \in Call /\ Start(Get)
      BY <1>1 DEF Refresh, Get, Call
    <3> QED BY <3>1, StartTyped
  <2>2. UNCHANGED <<portfolio, data, prices, viewCellData, background, lost>>
    BY <1>1 DEF Refresh, lists
  <2>3. Typed'
    BY <2>1, <2>2 DEF Typed
  <2>4. MadeHeld' /\ RowsHeld'
    BY <2>2 DEF MadeHeld, RowsHeld, Current
  <2> QED BY <2>3, <2>4
<1>2. ASSUME NEW k \in Coin, Buy(k) PROVE IndInv'
  <2>1. calls' \in Seq(Call) /\ answers' \in Seq(AnswerTo)
    <3>1. Add(k) \in Call /\ Start(Add(k))
      BY <1>2 DEF Buy, Add, Call
    <3> QED BY <3>1, StartTyped
  <2>2. UNCHANGED <<portfolio, data, prices, viewCellData, background, lost>>
    BY <1>2 DEF Buy, lists
  <2>3. Typed'
    BY <2>1, <2>2 DEF Typed
  <2>4. MadeHeld' /\ RowsHeld'
    BY <2>2 DEF MadeHeld, RowsHeld, Current
  <2> QED BY <2>3, <2>4
<1>3. ASSUME NEW i \in DOMAIN data, Swipe(i) PROVE IndInv'
  <2>1. i \in 1..Len(data) /\ data[i] \in Coin
    BY LenProperties, ElementOfSeq DEF Typed
  <2>2. calls' \in Seq(Call) /\ answers' \in Seq(AnswerTo)
    <3>1. Delete(data[i]) \in Call /\ Start(Delete(data[i]))
      BY <1>3, <2>1 DEF Swipe, Delete, Call
    <3> QED BY <3>1, StartTyped
  <2>3. SetData(RemoveAt(data, i)) /\ UNCHANGED portfolio
    BY <1>3 DEF Swipe
  <2>4. RemoveAt(data, i) \in Seq(Coin)
    BY <2>1, RemoveAtTyped DEF Typed
  <2>5. data' \in Seq(Coin) /\ prices' \in Seq(Seq(Coin)) /\ prices' # <<>>
    BY <2>3, <2>4, SetDataSends
  <2>6. Typed'
    BY <2>2, <2>3, <2>5 DEF Typed
  <2> QED BY <2>5, <2>6 DEF MadeHeld, RowsHeld, Current
<1>a. ASSUME Complete, answers # <<>>
      PROVE  /\ calls' \in Seq(Call) /\ answers' \in Seq(AnswerTo) /\ Seen \in Seq(Coin)
             /\ Head(answers).call.kind # "get" => Subject \in Coin
  BY <1>a, AnswersTyped DEF Complete, Typed, Seen, Subject
<1>4. CASE Read
  <2>1. /\ calls # <<>> /\ calls' = Tail(calls)
        /\ \/ answers' = Append(answers, Found(Head(calls), portfolio))
           \/ answers' = Append(answers, Unread(Head(calls)))
    BY <1>4 DEF Read
  <2>2. calls' \in Seq(Call) /\ answers' \in Seq(AnswerTo)
    BY <2>1, AnswersTyped DEF Typed
  <2>3. UNCHANGED <<portfolio, data, prices, viewCellData, background, lost>>
    BY <1>4 DEF Read, lists, history
  <2>4. Typed'
    BY <2>2, <2>3 DEF Typed
  <2>5. MadeHeld' /\ RowsHeld'
    BY <2>3 DEF MadeHeld, RowsHeld, Current
  <2> QED BY <2>4, <2>5
<1>5. ASSUME RunGet PROVE IndInv'
  <2>1. answers # <<>> /\ Complete /\ SetData(Seen) /\ UNCHANGED portfolio
    BY <1>5 DEF RunGet, Ready
  <2>2. calls' \in Seq(Call) /\ answers' \in Seq(AnswerTo) /\ Seen \in Seq(Coin)
    BY <2>1, <1>a
  <2>3. data' \in Seq(Coin) /\ prices' \in Seq(Seq(Coin)) /\ prices' # <<>>
    BY <2>1, <2>2, SetDataSends
  <2>4. Typed'
    BY <2>1, <2>2, <2>3 DEF Typed
  <2> QED BY <2>3, <2>4 DEF MadeHeld, RowsHeld, Current
<1>6. ASSUME RunAdd PROVE IndInv'
  <2>1. answers # <<>> /\ Complete /\ Head(answers).call.kind = "add"
    BY <1>6 DEF RunAdd, Ready
  <2>2. /\ calls' \in Seq(Call) /\ answers' \in Seq(AnswerTo) /\ Seen \in Seq(Coin)
        /\ Subject \in Coin
    BY <2>1, <1>a
  <2>3. portfolio' \in Seq(Coin)
    BY <2>2, <1>6, AppendProperties DEF RunAdd
  <2>4. UNCHANGED <<data, prices, viewCellData, background, lost>>
    BY <1>6 DEF RunAdd, lists
  <2>5. Typed'
    BY <2>2, <2>3, <2>4 DEF Typed
  <2>6. MadeHeld' /\ RowsHeld'
    BY <2>4 DEF MadeHeld, RowsHeld, Current
  <2> QED BY <2>5, <2>6
<1>7. ASSUME RunDelete PROVE IndInv'
  <2>1. /\ answers # <<>> /\ Complete
        /\ portfolio' = IF Contains(Seen, Subject) THEN Without(Seen, Subject) ELSE portfolio
    BY <1>7 DEF RunDelete, Ready
  <2>2. calls' \in Seq(Call) /\ answers' \in Seq(AnswerTo) /\ Seen \in Seq(Coin)
    BY <2>1, <1>a
  <2>3. portfolio' \in Seq(Coin)
    BY <2>1, <2>2, WithoutTyped DEF Typed
  <2>4. UNCHANGED <<data, prices, viewCellData, background, lost>>
    BY <1>7 DEF RunDelete, lists
  <2>5. Typed'
    BY <2>2, <2>3, <2>4 DEF Typed
  <2>6. MadeHeld' /\ RowsHeld'
    BY <2>4 DEF MadeHeld, RowsHeld, Current
  <2> QED BY <2>5, <2>6
<1>8. ASSUME RunFailed PROVE IndInv'
  <2>1. answers # <<>> /\ Complete
    BY <1>8 DEF RunFailed
  <2>2. calls' \in Seq(Call) /\ answers' \in Seq(AnswerTo)
    BY <2>1, <1>a
  <2>3. UNCHANGED <<portfolio, data, prices, viewCellData, background, lost>>
    BY <1>8 DEF RunFailed, lists
  <2>4. Typed'
    BY <2>2, <2>3 DEF Typed
  <2>5. MadeHeld' /\ RowsHeld'
    BY <2>3 DEF MadeHeld, RowsHeld, Current
  <2> QED BY <2>4, <2>5
<1>9. ASSUME NEW i \in DOMAIN prices PROVE RemoveAt(prices, i) \in Seq(Seq(Coin))
  <2>1. i \in 1..Len(prices)
    BY LenProperties DEF Typed
  <2> QED BY <2>1, RemoveAtTyped DEF Typed
<1>10. ASSUME NEW i \in DOMAIN prices, Answer(i) PROVE IndInv'
  <2>1. Typed'
    BY <1>9, <1>10 DEF Answer, Typed, store
  <2>2. background' = Making(viewData', <<>>)
    BY <1>10 DEF Answer
  <2>3. background'.step = "making" /\ background'.made = <<>>
    BY <2>2 DEF Making
  <2>4. <<>> \in Seq(ToSet(data'))
    BY EmptySeq
  <2> QED BY <2>1, <2>3, <2>4 DEF MadeHeld, RowsHeld
<1>11. ASSUME NEW i \in DOMAIN prices, Lose(i) PROVE IndInv'
  <2>1. Typed'
    BY <1>9, <1>11 DEF Lose, Typed, store, lists
  <2> QED BY <2>1, <1>11 DEF Lose, MadeHeld, RowsHeld, Current
<1>12. ASSUME MakeRow PROVE IndInv'
  <2> DEFINE k == Head(background.left)
             made == IF Contains(data, k) THEN Append(background.made, k)
                     ELSE background.made
  <2>1. Typed' /\ UNCHANGED <<data, lost, prices>>
    BY <1>12 DEF MakeRow, Typed, store, lists, history
  <2>2. background.step = "making" /\ background' = Making(Tail(background.left), made)
    BY <1>12 DEF MakeRow
  <2>3. background'.step = "making" /\ background'.made = made
    BY <2>2 DEF Making
  <2>4. ASSUME Current PROVE made \in Seq(ToSet(data))
    <3>1. background.made \in Seq(ToSet(data)) /\ data \in Seq(Coin)
      BY <2>2, <2>4 DEF MadeHeld, Typed
    <3> QED BY <3>1, AppendHeld
  <2> HIDE DEF made
  <2> QED BY <2>1, <2>3, <2>4 DEF MadeHeld, RowsHeld, Current
<1>13. ASSUME SetRows PROVE IndInv'
  <2>1. Typed' /\ UNCHANGED <<data, lost, prices>>
    BY <1>13 DEF SetRows, Typed, store, history
  <2>2. background.step = "making" /\ viewCellData' = background.made
        /\ background'.step = "summing"
    BY <1>13 DEF SetRows, Summing
  <2> QED BY <2>1, <2>2 DEF MadeHeld, RowsHeld, Current
<1>14. ASSUME SumUp PROVE IndInv'
  <2>1. Typed' /\ UNCHANGED <<data, lost, prices, viewCellData>>
    BY <1>14 DEF SumUp, Typed, store, lists, history
  <2>2. background.step = "summing" /\ background'.step = "idle"
    BY <1>14 DEF SumUp, Summing, Idle
  <2> QED BY <2>1, <2>2 DEF MadeHeld, RowsHeld, Current
<1>15. ASSUME Reload PROVE IndInv'
  <2>1. Typed' /\ UNCHANGED <<data, lost, prices, viewCellData, background>>
    BY <1>15 DEF Reload, Typed, store, lists, history
  <2> QED BY <2>1 DEF MadeHeld, RowsHeld, Current
<1>16. ASSUME Restart PROVE IndInv'
  <2>1. Get \in Call
    BY DEF Get, Call
  <2>2. <<Get>> \in Seq(Call)
    BY <2>1
  <2>3. Typed'
    BY <1>16, <2>2, EmptySeq DEF Restart, Typed
  <2>4. background'.step = "idle" /\ viewCellData' = <<>>
    BY <1>16 DEF Restart, Idle
  <2> QED BY <2>3, <2>4, EmptySeq DEF MadeHeld, RowsHeld
<1>17. ASSUME UNCHANGED vars PROVE IndInv'
  <2>1. UNCHANGED <<portfolio, calls, answers, data, prices, viewCellData, background, lost>>
    BY <1>17 DEF vars
  <2> QED BY <2>1 DEF Typed, MadeHeld, RowsHeld, Current
<1> QED
  BY <1>1, <1>2, <1>3, <1>4, <1>5, <1>6, <1>7, <1>8, <1>10, <1>11, <1>12, <1>13, <1>14,
     <1>15, <1>16, <1>17
  DEF Next, Acts, Completion, DeleteTraps, BackgroundStep, Trap

\* When nothing is under way and no answer was lost, every row is of a coin
\* that the wallet holds: deleteCoinFromPortfolio and getData change data while
\* answers are on their way, and each change is made good by a later answer.
THEOREM NoRowOfALostCoin == Spec => []NoGhostRow
<1>1. IndInv => NoGhostRow
  <2> SUFFICES ASSUME IndInv, Quiet, ~lost
               PROVE  ToSet(viewCellData) \subseteq ToSet(data)
    BY DEF NoGhostRow
  <2>1. viewCellData \in Seq(ToSet(data))
    BY DEF IndInv, RowsHeld, Current, Quiet, Idle
  <2>2. \A i \in DOMAIN viewCellData : viewCellData[i] \in ToSet(data)
    BY <2>1, LenProperties, ElementOfSeq
  <2> QED BY <2>2 DEF ToSet
<1> QED BY <1>1, InitIndInv, StepIndInv, PTL DEF Spec

-----------------------------------------------------------------------------
(* Types, lists without repetitions, and a table that catches up.           *)

\* The entries of a list from which one was removed.
LEMMA RemoveAtEntries ==
  ASSUME NEW S, NEW s \in Seq(S), NEW i \in 1..Len(s)
  PROVE  /\ RemoveAt(s, i) \in Seq(S) /\ Len(RemoveAt(s, i)) = Len(s) - 1
         /\ Len(s) \in Nat
         /\ \A j \in 1..(Len(s) - 1) : RemoveAt(s, i)[j] = IF j < i THEN s[j] ELSE s[j + 1]
<1> DEFINE a == SubSeq(s, 1, i - 1)
           b == SubSeq(s, i + 1, Len(s))
<1>1. Len(s) \in Nat /\ i \in Nat /\ 1 <= i /\ i <= Len(s) /\ \A j \in 1..Len(s) : s[j] \in S
  BY LenProperties, ElementOfSeq
<1>2. a \in Seq(S) /\ Len(a) = i - 1 /\ \A j \in 1..(i - 1) : a[j] = s[j]
  <2>1. 1 \in Int /\ i - 1 \in Int /\ \A j \in 1..(i - 1) : s[j] \in S
    BY <1>1
  <2>2. /\ a \in Seq(S) /\ Len(a) = IF 1 <= i - 1 THEN (i - 1) - 1 + 1 ELSE 0
        /\ \A j \in 1..((i - 1) - 1 + 1) : a[j] = s[1 + j - 1]
    BY <2>1, SubSeqProperties
  <2>3. (i - 1) - 1 + 1 = i - 1 /\ \A j \in 1..(i - 1) : 1 + j - 1 = j
    BY <1>1
  <2>4. (IF 1 <= i - 1 THEN (i - 1) - 1 + 1 ELSE 0) = i - 1
    BY <1>1
  <2> HIDE DEF a
  <2> QED BY <2>2, <2>3, <2>4
<1>3. b \in Seq(S) /\ Len(b) = Len(s) - i /\ \A j \in 1..(Len(s) - i) : b[j] = s[i + j]
  <2>1. i + 1 \in Int /\ Len(s) \in Int /\ \A j \in (i + 1)..Len(s) : s[j] \in S
    BY <1>1
  <2>2. /\ b \in Seq(S) /\ Len(b) = IF i + 1 <= Len(s) THEN Len(s) - (i + 1) + 1 ELSE 0
        /\ \A j \in 1..(Len(s) - (i + 1) + 1) : b[j] = s[(i + 1) + j - 1]
    BY <2>1, SubSeqProperties
  <2>3. Len(s) - (i + 1) + 1 = Len(s) - i /\ \A j \in 1..(Len(s) - i) : (i + 1) + j - 1 = i + j
    BY <1>1
  <2>4. (IF i + 1 <= Len(s) THEN Len(s) - (i + 1) + 1 ELSE 0) = Len(s) - i
    BY <1>1
  <2> HIDE DEF b
  <2> QED BY <2>2, <2>3, <2>4
<1> HIDE DEF a, b
<1>4. /\ a \o b \in Seq(S) /\ Len(a \o b) = (i - 1) + (Len(s) - i)
      /\ \A j \in 1..((i - 1) + (Len(s) - i)) :
            (a \o b)[j] = IF j <= i - 1 THEN a[j] ELSE b[j - (i - 1)]
  BY <1>2, <1>3, ConcatProperties
<1>5. (i - 1) + (Len(s) - i) = Len(s) - 1
  BY <1>1
<1>6. ASSUME NEW j \in 1..(Len(s) - 1)
      PROVE  (a \o b)[j] = IF j < i THEN s[j] ELSE s[j + 1]
  <2>1. (a \o b)[j] = IF j <= i - 1 THEN a[j] ELSE b[j - (i - 1)]
    BY <1>4, <1>5
  <2>2. CASE j < i
    <3>1. j \in 1..(i - 1) /\ j <= i - 1
      BY <2>2, <1>1
    <3> QED BY <3>1, <2>1, <2>2, <1>2
  <2>3. CASE ~(j < i)
    <3>1. j - (i - 1) \in 1..(Len(s) - i) /\ ~(j <= i - 1) /\ i + (j - (i - 1)) = j + 1
      BY <2>3, <1>1
    <3> QED BY <3>1, <2>1, <2>3, <1>3
  <2> QED BY <2>2, <2>3
<1> QED BY <1>1, <1>4, <1>5, <1>6 DEF RemoveAt, a, b

\* What has no repetition has none when an entry is removed.
LEMMA RemoveAtInjective ==
  ASSUME NEW S, NEW s \in Seq(S), IsInjective(s), NEW i \in 1..Len(s)
  PROVE  IsInjective(RemoveAt(s, i))
<1> DEFINE t == RemoveAt(s, i)
<1>1. /\ t \in Seq(S) /\ Len(t) = Len(s) - 1 /\ Len(s) \in Nat
      /\ \A j \in 1..(Len(s) - 1) : t[j] = IF j < i THEN s[j] ELSE s[j + 1]
  BY RemoveAtEntries
<1> HIDE DEF t
<1>2. DOMAIN t = 1..(Len(s) - 1) /\ DOMAIN s = 1..Len(s)
  BY <1>1, LenProperties
<1>3. ASSUME NEW j \in 1..(Len(s) - 1), NEW k \in 1..(Len(s) - 1), t[j] = t[k] PROVE j = k
  <2>1. /\ j \in 1..Len(s) /\ j + 1 \in 1..Len(s) /\ k \in 1..Len(s) /\ k + 1 \in 1..Len(s)
        /\ j \in Nat /\ k \in Nat /\ i \in Nat
    BY <1>1
  <2>2. \A m, n \in 1..Len(s) : s[m] = s[n] => m = n
    BY <1>2 DEF IsInjective
  <2>3. t[j] = (IF j < i THEN s[j] ELSE s[j + 1]) /\ t[k] = (IF k < i THEN s[k] ELSE s[k + 1])
    BY <1>1
  <2>4. CASE j < i /\ k < i
    BY <2>1, <2>2, <2>3, <2>4, <1>3
  <2>5. CASE j < i /\ ~(k < i)
    <3>1. j = k + 1
      BY <2>1, <2>2, <2>3, <2>5, <1>3
    <3> QED BY <3>1, <2>1, <2>5
  <2>6. CASE ~(j < i) /\ k < i
    <3>1. j + 1 = k
      BY <2>1, <2>2, <2>3, <2>6, <1>3
    <3> QED BY <3>1, <2>1, <2>6
  <2>7. CASE ~(j < i) /\ ~(k < i)
    <3>1. j + 1 = k + 1
      BY <2>1, <2>2, <2>3, <2>7, <1>3
    <3> QED BY <3>1, <2>1
  <2> QED BY <2>4, <2>5, <2>6, <2>7
<1>4. IsInjective(t)
  BY <1>2, <1>3 DEF IsInjective
<1> QED BY <1>4 DEF t

\* A list of coins without one that was sold.
LEMMA WithoutInjective ==
  ASSUME NEW coins \in Seq(Coin), IsInjective(coins), NEW k
  PROVE  IsInjective(Without(coins, k))
<1>1. CASE ~Contains(coins, k)
  BY <1>1 DEF Without
<1>2. CASE Contains(coins, k)
  <2>1. (CHOOSE i \in 1..Len(coins) : coins[i] = k) \in 1..Len(coins)
    BY <1>2 DEF Contains
  <2> DEFINE i == CHOOSE i \in 1..Len(coins) : coins[i] = k
  <2> HIDE DEF i
  <2>2. IsInjective(RemoveAt(coins, i))
    BY <2>1, RemoveAtInjective DEF i
  <2> QED BY <2>2, <1>2 DEF Without, i
<1> QED BY <1>1, <1>2

\* The entry of a coin is at one place.
LEMMA WithoutRemoves ==
  ASSUME NEW coins \in Seq(Coin), IsInjective(coins), NEW i \in 1..Len(coins)
  PROVE  Without(coins, coins[i]) = RemoveAt(coins, i)
<1>1. DOMAIN coins = 1..Len(coins)
  BY LenProperties
<1>2. \A j \in 1..Len(coins) : coins[j] = coins[i] => j = i
  BY <1>1 DEF IsInjective
<1>3. (CHOOSE j \in 1..Len(coins) : coins[j] = coins[i]) = i
  BY <1>2
<1>4. Contains(coins, coins[i])
  BY DEF Contains
<1> QED BY <1>3, <1>4 DEF Without

\* What has no repetition has none when something else comes behind it.
LEMMA LongerInjective ==
  ASSUME NEW S, NEW s \in Seq(S), IsInjective(s), NEW t \in Seq(S), Len(t) = Len(s) + 1,
         \A j \in 1..Len(s) : t[j] = s[j], \A j \in 1..Len(s) : s[j] # t[Len(s) + 1]
  PROVE  IsInjective(t)
<1>1. DOMAIN t = 1..(Len(s) + 1) /\ DOMAIN s = 1..Len(s) /\ Len(s) \in Nat
  BY LenProperties
<1>2. \A j, m \in 1..Len(s) : s[j] = s[m] => j = m
  BY <1>1 DEF IsInjective
<1>3. ASSUME NEW j \in 1..(Len(s) + 1), NEW m \in 1..(Len(s) + 1), t[j] = t[m]
      PROVE  j = m
  <2>1. (j \in 1..Len(s) \/ j = Len(s) + 1) /\ (m \in 1..Len(s) \/ m = Len(s) + 1)
    BY <1>1
  <2> QED BY <2>1, <1>1, <1>2, <1>3
<1> QED BY <1>1, <1>3 DEF IsInjective

\* A coin that is not there can be appended.
LEMMA AppendNewCoin ==
  ASSUME NEW coins \in Seq(Coin), IsInjective(coins), NEW k \in Coin, ~Contains(coins, k)
  PROVE  Append(coins, k) \in Seq(Coin) /\ IsInjective(Append(coins, k))
<1>1. /\ Append(coins, k) \in Seq(Coin) /\ Len(Append(coins, k)) = Len(coins) + 1
      /\ \A j \in 1..Len(coins) : Append(coins, k)[j] = coins[j]
      /\ Append(coins, k)[Len(coins) + 1] = k
  BY AppendProperties, LenProperties
<1>2. \A j \in 1..Len(coins) : coins[j] # k
  BY DEF Contains
<1>3. IsInjective(Append(coins, k))
  BY <1>1, <1>2, LongerInjective
<1> QED BY <1>1, <1>3

\* What the service lists is a list of coins.
LEMMA ListingsTyped ==
  ASSUME NEW ids, NEW listed \in Listings(ids)
  PROVE  listed \in Seq(Coin) /\ \A k : Without(listed, k) \in Seq(Coin)
<1>1. listed \in Seq(Coin)
  <2>1. CASE listed = Market
    BY <2>1, MarketAssumption
  <2>2. CASE listed = <<>>
    BY <2>2
  <2>3. CASE listed \in Listed(ids)
    <3>1. listed \in SeqOf(Coin, Len(Market))
      BY <2>3 DEF Listed
    <3>2. PICK m \in 0..Len(Market) : listed \in [1..m -> Coin]
      BY <3>1 DEF SeqOf
    <3>3. m \in Nat
      BY <3>2
    <3> QED BY <3>2, <3>3
  <2> QED BY <2>1, <2>2, <2>3 DEF Listings
<1> QED BY <1>1, WithoutTyped

-----------------------------------------------------------------------------
(* Types, and a table that catches up, step by step.                        *)

Lists == TypeOK /\ IsInjective(data) /\ RowsCatchUp

\* The queue of the calls and the requests keep their types.
LEMMA ListsInit == Init => Lists
<1> SUFFICES ASSUME Init PROVE Lists
  OBVIOUS
<1>1. portfolio \in Seq(Coin) /\ IsInjective(portfolio)
  <2>1. portfolio \in SeqOf(Coin, Len(Market)) /\ IsInjective(portfolio)
    BY DEF Init
  <2>2. PICK m \in 0..Len(Market) : portfolio \in [1..m -> Coin]
    BY <2>1 DEF SeqOf
  <2>3. m \in Nat
    BY <2>2
  <2> QED BY <2>1, <2>2, <2>3
<1>2. calls \in Seq(Call)
  <2>1. Get \in Call
    BY DEF Get, Call
  <2> QED BY <2>1 DEF Init
<1>a. answers \in Seq(AnswerTo) /\ \A n \in DOMAIN answers : IsInjective(answers[n].coins)
  BY EmptySeq DEF Init
<1>3. background \in [step: {"idle", "making", "summing"}, left: Seq(Coin), made: Seq(Coin)]
  BY EmptySeq DEF Init, Idle
<1>4. data \in Seq(Coin) /\ prices \in Seq(Seq(Coin)) /\ viewData \in Seq(Coin)
      /\ viewCellData \in Seq(Coin)
  BY EmptySeq DEF Init
<1>5. rows \in Nat /\ acts \in 0..MaxActs
  BY BoundAssumption DEF Init
<1>6. reload \in BOOLEAN /\ refreshing \in BOOLEAN /\ lost \in BOOLEAN /\ behind \in BOOLEAN
      /\ failed \in BOOLEAN
  BY DEF Init
<1>7. IsInjective(data)
  BY DEF Init, IsInjective
<1>8. RowsCatchUp
  BY DEF Init, RowsCatchUp
<1> QED BY <1>1, <1>2, <1>a, <1>3, <1>4, <1>5, <1>6, <1>7, <1>8 DEF Lists, TypeOK

\* What the acts and the store leave alone.
LEMMA ListsOfStore ==
  ASSUME Lists, UNCHANGED <<viewData, viewCellData, background, rows, reload>>,
         portfolio' \in Seq(Coin) /\ IsInjective(portfolio'), calls' \in Seq(Call),
         answers' \in Seq(AnswerTo), \A n \in DOMAIN answers' : IsInjective(answers'[n].coins),
         data' \in Seq(Coin) /\ IsInjective(data'), prices' \in Seq(Seq(Coin)),
         acts' = acts \/ Act, refreshing' \in BOOLEAN, lost' \in BOOLEAN, behind' \in BOOLEAN,
         failed' \in BOOLEAN
  PROVE  Lists'
<1>1. acts' \in 0..MaxActs
  BY BoundAssumption DEF Lists, TypeOK, Act
<1>2. TypeOK'
  BY <1>1 DEF Lists, TypeOK
<1> QED BY <1>2 DEF Lists, RowsCatchUp

\* What the delegate queue and the main queue leave alone.
LEMMA ListsOfRows ==
  ASSUME Lists, UNCHANGED <<store, data, acts>>, prices' \in Seq(Seq(Coin)),
         viewData' \in Seq(Coin), viewCellData' \in Seq(Coin),
         background' \in [step: {"idle", "making", "summing"}, left: Seq(Coin), made: Seq(Coin)],
         rows' \in Nat, reload' \in BOOLEAN, refreshing' \in BOOLEAN, lost' \in BOOLEAN,
         behind' \in BOOLEAN, failed' \in BOOLEAN, RowsCatchUp'
  PROVE  Lists'
<1>1. TypeOK'
  BY DEF Lists, TypeOK, store
<1> QED BY <1>1 DEF Lists

\* Data is set, and requested.
LEMMA DataSet ==
  ASSUME Lists, NEW coins \in Seq(Coin), SetData(coins)
  PROVE  data' = coins /\ prices' \in Seq(Seq(Coin)) /\ prices' # <<>>
<1>1. prices \in Seq(Seq(Coin)) /\ data' = coins /\ prices' = Append(prices, coins)
  BY DEF Lists, TypeOK, SetData
<1> QED BY <1>1, AppendProperties

\* The answer whose completion runs, and those behind it.
LEMMA HeadOfAnswers ==
  ASSUME Lists, Complete, answers # <<>>
  PROVE  /\ calls' \in Seq(Call) /\ answers' \in Seq(AnswerTo)
         /\ \A n \in DOMAIN answers' : IsInjective(answers'[n].coins)
         /\ Seen \in Seq(Coin) /\ IsInjective(Seen)
         /\ (Head(answers).call.kind # "get" => Subject \in Coin)
<1>1. /\ calls \in Seq(Call) /\ answers \in Seq(AnswerTo)
      /\ \A n \in DOMAIN answers : IsInjective(answers[n].coins)
  BY DEF Lists, TypeOK
<1>2. calls' = calls /\ answers' = Tail(answers)
  BY DEF Complete
<1>3. /\ Len(answers) \in Nat \ {0} /\ Head(answers) = answers[1]
      /\ Tail(answers) \in Seq(AnswerTo) /\ Len(Tail(answers)) = Len(answers) - 1
      /\ \A n \in 1..Len(Tail(answers)) : Tail(answers)[n] = answers[n + 1]
  BY <1>1, HeadTailProperties, LenProperties, EmptySeq
<1>4. DOMAIN answers = 1..Len(answers) /\ DOMAIN answers' = 1..(Len(answers) - 1)
  BY <1>1, <1>2, <1>3, LenProperties
<1>5. ASSUME NEW n \in DOMAIN answers' PROVE IsInjective(answers'[n].coins)
  <2>1. n + 1 \in DOMAIN answers /\ answers'[n] = answers[n + 1]
    BY <1>2, <1>3, <1>4
  <2> QED BY <2>1, <1>1
<1>6. IsInjective(Seen)
  <2>1. 1 \in DOMAIN answers
    BY <1>3, <1>4
  <2> QED BY <2>1, <1>1, <1>3 DEF Seen
<1>7. Seen \in Seq(Coin) /\ (Head(answers).call.kind # "get" => Subject \in Coin)
  BY <1>1, AnswersTyped DEF Seen, Subject
<1> QED BY <1>1, <1>2, <1>3, <1>5, <1>6, <1>7

\* An answer more, of what was read.
LEMMA OneMoreAnswer ==
  ASSUME Lists, NEW a \in AnswerTo, IsInjective(a.coins), answers' = Append(answers, a)
  PROVE  answers' \in Seq(AnswerTo) /\ \A n \in DOMAIN answers' : IsInjective(answers'[n].coins)
<1>1. answers \in Seq(AnswerTo) /\ \A n \in DOMAIN answers : IsInjective(answers[n].coins)
  BY DEF Lists, TypeOK
<1>2. /\ answers' \in Seq(AnswerTo) /\ Len(answers') = Len(answers) + 1
      /\ \A n \in 1..Len(answers) : answers'[n] = answers[n]
      /\ answers'[Len(answers) + 1] = a
  BY <1>1, AppendProperties
<1>3. /\ Len(answers) \in Nat /\ DOMAIN answers = 1..Len(answers)
      /\ DOMAIN answers' = 1..(Len(answers) + 1)
  BY <1>1, <1>2, LenProperties
<1>4. ASSUME NEW n \in DOMAIN answers' PROVE IsInjective(answers'[n].coins)
  <2>1. CASE n \in DOMAIN answers
    BY <2>1, <1>1, <1>2, <1>3
  <2>2. CASE n = Len(answers) + 1
    BY <2>2, <1>2
  <2> QED BY <2>1, <2>2, <1>3
<1> QED BY <1>2, <1>4

\* Every step keeps the lists and lets the table catch up.
LEMMA ListsStep == Lists /\ [Next]_vars => Lists'
<1> SUFFICES ASSUME Lists, [Next]_vars PROVE Lists'
  OBVIOUS
<1>t. /\ portfolio \in Seq(Coin) /\ IsInjective(portfolio) /\ calls \in Seq(Call)
      /\ answers \in Seq(AnswerTo) /\ (\A n \in DOMAIN answers : IsInjective(answers[n].coins))
      /\ data \in Seq(Coin) /\ IsInjective(data) /\ prices \in Seq(Seq(Coin))
      /\ viewData \in Seq(Coin) /\ viewCellData \in Seq(Coin)
      /\ background \in [step: {"idle", "making", "summing"}, left: Seq(Coin), made: Seq(Coin)]
      /\ rows \in Nat /\ acts \in 0..MaxActs
      /\ reload \in BOOLEAN /\ refreshing \in BOOLEAN
      /\ lost \in BOOLEAN /\ behind \in BOOLEAN /\ failed \in BOOLEAN
      /\ RowsCatchUp
  BY DEF Lists, TypeOK
<1>p. ASSUME NEW i \in DOMAIN prices
      PROVE  RemoveAt(prices, i) \in Seq(Seq(Coin))
  <2>1. i \in 1..Len(prices)
    BY <1>t, LenProperties
  <2> QED BY <2>1, <1>t, RemoveAtTyped
<1>1. CASE Refresh
  <2>1. Act /\ Start(Get) /\ refreshing' = TRUE
        /\ UNCHANGED <<portfolio, data, viewData, viewCellData, prices, background, rows, reload,
                       lost, behind, failed>>
    BY <1>1 DEF Refresh, lists
  <2>2. Get \in Call
    BY DEF Get, Call
  <2>3. /\ calls' \in Seq(Call) /\ answers' = answers
    BY <2>1, <2>2, <1>t, AppendProperties DEF Start
  <2> QED BY <2>1, <2>3, <1>t, ListsOfStore
<1>2. ASSUME NEW k \in Coin, Buy(k) PROVE Lists'
  <2>1. Act /\ Start(Add(k))
        /\ UNCHANGED <<portfolio, data, viewData, viewCellData, prices, background, rows, reload,
                       refreshing, lost, behind, failed>>
    BY <1>2 DEF Buy, lists, table
  <2>2. Add(k) \in Call
    BY DEF Add, Call
  <2>3. /\ calls' \in Seq(Call) /\ answers' = answers
    BY <2>1, <2>2, <1>t, AppendProperties DEF Start
  <2> QED BY <2>1, <2>3, <1>t, ListsOfStore
<1>3. ASSUME NEW i \in DOMAIN data, Swipe(i) PROVE Lists'
  <2>1. Act /\ Start(Delete(data[i])) /\ SetData(RemoveAt(data, i))
        /\ behind' = (behind \/ ReadingUnderWay)
        /\ UNCHANGED <<portfolio, viewData, viewCellData, background, rows, reload, refreshing,
                       lost, failed>>
    BY <1>3 DEF Swipe, table
  <2>2. i \in 1..Len(data) /\ data[i] \in Coin
    BY <1>t, LenProperties, ElementOfSeq
  <2>3. Delete(data[i]) \in Call
    BY <2>2 DEF Delete, Call
  <2>4. calls' \in Seq(Call) /\ answers' = answers
    BY <2>1, <2>3, <1>t, AppendProperties DEF Start
  <2>5. RemoveAt(data, i) \in Seq(Coin) /\ IsInjective(RemoveAt(data, i))
    BY <2>2, <1>t, RemoveAtTyped, RemoveAtInjective
  <2>6. data' = RemoveAt(data, i) /\ prices' \in Seq(Seq(Coin))
    BY <2>1, <2>5, DataSet
  <2>7. behind' \in BOOLEAN
    BY <2>1, <1>t DEF ReadingUnderWay
  <2> QED BY <2>1, <2>4, <2>5, <2>6, <2>7, <1>t, ListsOfStore
<1>a. CASE Read
  <2>1. /\ calls # <<>> /\ calls' = Tail(calls)
        /\ \/ answers' = Append(answers, Found(Head(calls), portfolio))
           \/ answers' = Append(answers, Unread(Head(calls)))
        /\ UNCHANGED <<portfolio, data, viewData, viewCellData, prices, background, rows, reload,
                       refreshing, acts, lost, behind, failed>>
    BY <1>a DEF Read, lists, table, history
  <2>2. calls' \in Seq(Call) /\ Head(calls) \in Call
    BY <2>1, <1>t, HeadTailProperties
  <2>3. /\ Found(Head(calls), portfolio) \in AnswerTo
        /\ IsInjective(Found(Head(calls), portfolio).coins)
    BY <2>2, <1>t DEF Found, AnswerTo
  <2>4. Unread(Head(calls)) \in AnswerTo /\ IsInjective(Unread(Head(calls)).coins)
    BY <2>2, EmptySeq DEF Unread, AnswerTo, IsInjective
  <2>5. answers' \in Seq(AnswerTo) /\ \A n \in DOMAIN answers' : IsInjective(answers'[n].coins)
    BY <2>1, <2>3, <2>4, OneMoreAnswer
  <2> QED BY <2>1, <2>2, <2>5, <1>t, ListsOfStore
<1>4. CASE RunGet
  <2>1. /\ answers # <<>> /\ Complete /\ SetData(Seen)
        /\ behind' = (calls' # <<>> \/ answers' # <<>> \/ Overtaken)
        /\ lost' = (lost /\ ~(prices = <<>> /\ background = Idle))
        /\ UNCHANGED <<portfolio, viewData, viewCellData, background, rows, reload, refreshing,
                       acts, failed>>
    BY <1>4 DEF RunGet, Ready, table
  <2>2. /\ calls' \in Seq(Call) /\ answers' \in Seq(AnswerTo)
        /\ \A n \in DOMAIN answers' : IsInjective(answers'[n].coins)
        /\ Seen \in Seq(Coin) /\ IsInjective(Seen)
    BY <2>1, HeadOfAnswers
  <2>3. data' = Seen /\ prices' \in Seq(Seq(Coin))
    BY <2>1, <2>2, DataSet
  <2>4. behind' \in BOOLEAN /\ lost' \in BOOLEAN
    BY <2>1, <1>t
  <2> QED BY <2>1, <2>2, <2>3, <2>4, <1>t, ListsOfStore
<1>5. CASE RunAdd
  <2>1. /\ answers # <<>> /\ Head(answers).call.kind = "add" /\ Complete /\ behind' = TRUE
        /\ UNCHANGED <<data, viewData, viewCellData, prices, background, rows, reload, refreshing,
                       acts, lost, failed>>
    BY <1>5 DEF RunAdd, Ready, lists, table
  <2>2. /\ calls' \in Seq(Call) /\ answers' \in Seq(AnswerTo)
        /\ \A n \in DOMAIN answers' : IsInjective(answers'[n].coins)
        /\ Seen \in Seq(Coin) /\ IsInjective(Seen) /\ Subject \in Coin
    BY <2>1, HeadOfAnswers
  <2>3. portfolio' \in Seq(Coin) /\ IsInjective(portfolio')
    <3>1. portfolio' = IF Contains(Seen, Subject) THEN Seen ELSE Append(Seen, Subject)
      BY <1>5 DEF RunAdd
    <3>2. CASE Contains(Seen, Subject)
      BY <3>1, <3>2, <2>2
    <3>3. CASE ~Contains(Seen, Subject)
      <4>1. portfolio' = Append(Seen, Subject)
        BY <3>1, <3>3
      <4>2. Append(Seen, Subject) \in Seq(Coin) /\ IsInjective(Append(Seen, Subject))
        BY <3>3, <2>2, AppendNewCoin
      <4> QED BY <4>1, <4>2
    <3> QED BY <3>2, <3>3
  <2> QED BY <2>1, <2>2, <2>3, <1>t, ListsOfStore
<1>6. CASE RunDelete
  <2>1. /\ answers # <<>> /\ Complete
        /\ portfolio' = IF Contains(Seen, Subject) THEN Without(Seen, Subject) ELSE portfolio
        /\ behind' = (behind \/ Overtaken)
        /\ UNCHANGED <<data, viewData, viewCellData, prices, background, rows, reload, refreshing,
                       acts, lost, failed>>
    BY <1>6 DEF RunDelete, Ready, lists, table
  <2>2. /\ calls' \in Seq(Call) /\ answers' \in Seq(AnswerTo)
        /\ \A n \in DOMAIN answers' : IsInjective(answers'[n].coins)
        /\ Seen \in Seq(Coin) /\ IsInjective(Seen)
    BY <2>1, HeadOfAnswers
  <2>3. portfolio' \in Seq(Coin) /\ IsInjective(portfolio')
    BY <2>1, <2>2, <1>t, WithoutTyped, WithoutInjective
  <2>4. behind' \in BOOLEAN
    BY <2>1, <1>t
  <2> QED BY <2>1, <2>2, <2>3, <2>4, <1>t, ListsOfStore
<1>7. CASE RunFailed
  <2>1. /\ answers # <<>> /\ Complete /\ behind' = TRUE /\ failed' = (failed \/ refreshing)
        /\ UNCHANGED <<portfolio, data, viewData, viewCellData, prices, background, rows, reload,
                       refreshing, acts, lost>>
    BY <1>7 DEF RunFailed, lists, table
  <2>2. /\ calls' \in Seq(Call) /\ answers' \in Seq(AnswerTo)
        /\ \A n \in DOMAIN answers' : IsInjective(answers'[n].coins)
    BY <2>1, HeadOfAnswers
  <2>3. failed' \in BOOLEAN
    BY <2>1, <1>t
  <2> QED BY <2>1, <2>2, <2>3, <1>t, ListsOfStore
<1>8. ASSUME NEW i \in DOMAIN prices, Answer(i) PROVE Lists'
  <2>1. background = Idle /\ prices' = RemoveAt(prices, i) /\ background' = Making(viewData', <<>>)
        /\ UNCHANGED <<store, data, viewCellData, rows, reload, refreshing, acts, behind, failed>>
    BY <1>8 DEF Answer, table
  <2>2. viewData' \in Seq(Coin) /\ lost' \in BOOLEAN
    <3>1. PICK listed \in Listings(prices[i]) :
            \/ viewData' = listed /\ UNCHANGED lost
            \/ /\ \E k \in Coin : viewData' = Without(listed, k)
               /\ lost' = TRUE
      BY <1>8 DEF Answer
    <3>2. listed \in Seq(Coin) /\ \A k : Without(listed, k) \in Seq(Coin)
      BY ListingsTyped
    <3> QED BY <3>1, <3>2, <1>t
  <2>3. background' \in [step: {"idle", "making", "summing"}, left: Seq(Coin), made: Seq(Coin)]
    BY <2>1, <2>2, EmptySeq DEF Making
  <2>4. RowsCatchUp'
    <3>1. background # Summing
      BY <2>1 DEF Idle, Summing
    <3> QED BY <3>1, <2>1, <1>t DEF RowsCatchUp
  <2> QED BY <2>1, <2>2, <2>3, <2>4, <1>p, <1>t, ListsOfRows
<1>9. ASSUME NEW i \in DOMAIN prices, Lose(i) PROVE Lists'
  <2>1. prices' = RemoveAt(prices, i) /\ lost' = TRUE
        /\ UNCHANGED <<store, data, viewData, viewCellData, background, rows, reload, refreshing,
                       acts, behind, failed>>
    BY <1>9 DEF Lose, lists, table
  <2>2. RowsCatchUp'
    BY <2>1, <1>t DEF RowsCatchUp
  <2> QED BY <2>1, <2>2, <1>p, <1>t, ListsOfRows
<1>10. CASE MakeRow
  <2> DEFINE k == Head(background.left)
  <2>1. /\ background.step = "making" /\ background.left # <<>>
        /\ background' = Making(Tail(background.left),
                                IF Contains(data, k) THEN Append(background.made, k)
                                ELSE background.made)
        /\ UNCHANGED <<store, data, viewData, viewCellData, prices, rows, reload, refreshing,
                       acts, lost, behind, failed>>
    BY <1>10 DEF MakeRow, lists, table, history
  <2>2. background.left \in Seq(Coin) /\ background.made \in Seq(Coin)
    BY <1>t
  <2>3. k \in Coin /\ Tail(background.left) \in Seq(Coin)
    BY <2>1, <2>2, HeadTailProperties
  <2>4. (IF Contains(data, k) THEN Append(background.made, k) ELSE background.made) \in Seq(Coin)
    BY <2>2, <2>3, AppendProperties
  <2>5. background' \in [step: {"idle", "making", "summing"}, left: Seq(Coin), made: Seq(Coin)]
    BY <2>1, <2>3, <2>4 DEF Making
  <2>6. RowsCatchUp'
    <3>1. background # Summing
      BY <2>1 DEF Summing
    <3> QED BY <3>1, <2>1, <1>t DEF RowsCatchUp
  <2> QED BY <2>1, <2>5, <2>6, <1>t, ListsOfRows
<1>11. CASE SetRows
  <2>1. /\ viewCellData' = background.made /\ background' = Summing
        /\ UNCHANGED <<store, data, viewData, prices, rows, reload, refreshing,
                       acts, lost, behind, failed>>
    BY <1>11 DEF SetRows, table, history
  <2>2. background' \in [step: {"idle", "making", "summing"}, left: Seq(Coin), made: Seq(Coin)]
    BY <2>1, EmptySeq DEF Summing
  <2>3. RowsCatchUp'
    BY <2>1 DEF RowsCatchUp
  <2> QED BY <2>1, <2>2, <2>3, <1>t, ListsOfRows
<1>12. CASE SumUp
  <2>1. /\ background' = Idle /\ reload' = TRUE
        /\ UNCHANGED <<store, data, viewData, viewCellData, prices, rows, refreshing,
                       acts, lost, behind, failed>>
    BY <1>12 DEF SumUp, lists, history
  <2>2. background' \in [step: {"idle", "making", "summing"}, left: Seq(Coin), made: Seq(Coin)]
    BY <2>1, EmptySeq DEF Idle
  <2>3. RowsCatchUp'
    BY <2>1 DEF RowsCatchUp
  <2> QED BY <2>1, <2>2, <2>3, <1>t, ListsOfRows
<1>13. CASE Reload
  <2>1. /\ reload' = FALSE /\ rows' = Len(viewCellData) /\ refreshing' = FALSE /\ failed' = FALSE
        /\ UNCHANGED <<store, data, viewData, viewCellData, prices, background,
                       acts, lost, behind>>
    BY <1>13 DEF Reload, lists
  <2>2. rows' \in Nat
    BY <2>1, <1>t, LenProperties
  <2>3. RowsCatchUp'
    BY <2>1 DEF RowsCatchUp
  <2> QED BY <2>1, <2>2, <2>3, <1>t, ListsOfRows
<1>14. ASSUME Restart PROVE Lists'
  <2>1. /\ calls' = <<Get>> /\ answers' = <<>> /\ data' = <<>> /\ viewData' = <<>> /\ viewCellData' = <<>>
        /\ prices' = <<>> /\ background' = Idle /\ rows' = 0 /\ reload' = FALSE
        /\ refreshing' = FALSE /\ lost' = FALSE /\ behind' = TRUE /\ failed' = FALSE
        /\ portfolio' = portfolio /\ acts' = acts
    BY <1>14 DEF Restart
  <2>2. calls' \in Seq(Call)
    <3>1. Get \in Call
      BY DEF Get, Call
    <3> QED BY <3>1, <2>1
  <2>8. answers' \in Seq(AnswerTo) /\ \A n \in DOMAIN answers' : IsInjective(answers'[n].coins)
    BY <2>1, EmptySeq
  <2>3. /\ data' \in Seq(Coin) /\ viewData' \in Seq(Coin) /\ viewCellData' \in Seq(Coin)
        /\ prices' \in Seq(Seq(Coin))
    BY <2>1, EmptySeq
  <2>4. background' \in [step: {"idle", "making", "summing"}, left: Seq(Coin), made: Seq(Coin)]
    BY <2>1, EmptySeq DEF Idle
  <2>5. IsInjective(data')
    BY <2>1 DEF IsInjective
  <2>6. RowsCatchUp'
    BY <2>1 DEF RowsCatchUp
  <2>7. TypeOK'
    BY <2>1, <2>2, <2>3, <2>4, <2>8, <1>t DEF TypeOK
  <2> QED BY <2>5, <2>6, <2>7 DEF Lists
<1>15. CASE UNCHANGED vars
  <2>1. UNCHANGED <<store, data, viewData, viewCellData, prices, background, rows, reload,
                    refreshing, acts, lost, behind, failed>>
    BY <1>15 DEF vars, store
  <2>2. RowsCatchUp'
    BY <2>1, <1>t DEF RowsCatchUp
  <2> QED BY <2>1, <2>2, <1>t, ListsOfRows
<1> QED
  BY <1>1, <1>2, <1>3, <1>a, <1>4, <1>5, <1>6, <1>7, <1>8, <1>9, <1>10, <1>11, <1>12, <1>13,
     <1>14, <1>15
  DEF Next, Acts, Completion, DeleteTraps, BackgroundStep, Trap

\* Every list holds coins, the wallet and the account hold none twice, and the table
\* never counts on other rows than there are without a reload on its way, whatever
\* order the user, the store and the delegate queue run in.
THEOREM TableCatchesUp == Spec => []RowsConsistent
<1>1. Lists => RowsConsistent
  BY DEF Lists, RowsConsistent
<1> QED BY <1>1, ListsInit, ListsStep, PTL DEF Spec

-----------------------------------------------------------------------------
(* The wallet and the account.                                              *)

Queue(rs, cs) == [n \in DOMAIN rs |-> rs[n].call] \o cs

\* The calls outstanding: those that have read, then the others.
LEMMA QueueTyped ==
  ASSUME NEW rs \in Seq(AnswerTo), NEW cs \in Seq(Call)
  PROVE  /\ Queue(rs, cs) \in Seq(Call) /\ Len(Queue(rs, cs)) = Len(rs) + Len(cs)
         /\ Len(rs) \in Nat /\ Len(cs) \in Nat
         /\ \A i \in 1..(Len(rs) + Len(cs)) :
               Queue(rs, cs)[i] = IF i <= Len(rs) THEN rs[i].call
                                ELSE cs[i - Len(rs)]
<1> DEFINE done == [n \in DOMAIN rs |-> rs[n].call]
<1>1. /\ cs \in Seq(Call) /\ rs \in Seq(AnswerTo)
      /\ DOMAIN rs = 1..Len(rs) /\ Len(rs) \in Nat /\ Len(cs) \in Nat
  BY LenProperties
<1>2. \A n \in 1..Len(rs) : rs[n].call \in Call
  <2>1. \A n \in 1..Len(rs) : rs[n] \in AnswerTo
    BY <1>1, ElementOfSeq
  <2> QED BY <2>1 DEF AnswerTo
<1>3. done \in Seq(Call) /\ Len(done) = Len(rs) /\ DOMAIN done = 1..Len(rs)
  <2>1. done \in [1..Len(rs) -> Call]
    BY <1>1, <1>2
  <2>2. done \in Seq(Call) /\ Len(done) = Len(rs)
    <3> DEFINE n == Len(rs)
    <3>1. n \in Nat /\ done \in [1..n -> Call]
      BY <2>1, <1>1
    <3> HIDE DEF n, done
    <3>2. done \in Seq(Call) /\ Len(done) = n
      BY <3>1
    <3> QED BY <3>2 DEF n
  <2>3. DOMAIN done = 1..Len(rs)
    BY <2>1
  <2> QED BY <2>2, <2>3
<1>4. \A n \in 1..Len(rs) : done[n] = rs[n].call
  BY <1>1
<1> HIDE DEF done
<1>5. /\ done \o cs \in Seq(Call) /\ Len(done \o cs) = Len(done) + Len(cs)
      /\ \A i \in 1..(Len(done) + Len(cs)) :
            (done \o cs)[i] = IF i <= Len(done) THEN done[i] ELSE cs[i - Len(done)]
  BY <1>1, <1>3, ConcatProperties
<1>6. Queue(rs, cs) = done \o cs
  BY DEF Queue, done
<1>7. ASSUME NEW i \in 1..(Len(rs) + Len(cs))
      PROVE  Queue(rs, cs)[i] = IF i <= Len(rs) THEN rs[i].call
                              ELSE cs[i - Len(rs)]
  <2>1. i <= Len(rs) => i \in 1..Len(rs)
    <3> DEFINE m == Len(rs)
               n == Len(cs)
    <3>1. m \in Nat /\ n \in Nat /\ i \in 1..(m + n)
      BY <1>1
    <3> HIDE DEF m, n
    <3>2. i <= m => i \in 1..m
      BY <3>1
    <3> QED BY <3>2 DEF m
  <2> QED BY <2>1, <1>3, <1>4, <1>5, <1>6
<1> QED BY <1>1, <1>3, <1>5, <1>6, <1>7

\* So before a step and after it.
LEMMA OutstandingTyped ==
  ASSUME Lists
  PROVE  /\ Outstanding \in Seq(Call) /\ Len(Outstanding) = Len(answers) + Len(calls)
         /\ Len(answers) \in Nat /\ Len(calls) \in Nat
         /\ \A i \in 1..(Len(answers) + Len(calls)) :
               Outstanding[i] = IF i <= Len(answers) THEN answers[i].call
                                ELSE calls[i - Len(answers)]
<1>1. Outstanding = Queue(answers, calls)
  BY DEF Outstanding, Queue
<1>2. answers \in Seq(AnswerTo) /\ calls \in Seq(Call)
  BY DEF Lists, TypeOK
<1> QED BY <1>1, <1>2, QueueTyped

\* After it.
LEMMA OutstandingTypedNext ==
  ASSUME Lists'
  PROVE  /\ Outstanding' \in Seq(Call) /\ Len(Outstanding') = Len(answers') + Len(calls')
         /\ Len(answers') \in Nat /\ Len(calls') \in Nat
         /\ \A i \in 1..(Len(answers') + Len(calls')) :
               Outstanding'[i] = IF i <= Len(answers') THEN answers'[i].call
                                 ELSE calls'[i - Len(answers')]
<1>1. Outstanding' = Queue(answers', calls')
  BY DEF Outstanding, Queue
<1>2. answers' \in Seq(AnswerTo) /\ calls' \in Seq(Call)
  BY DEF Lists, TypeOK
<1> QED BY <1>1, <1>2, QueueTyped

\* One list is another when it is as long and has the same entries.
LEMMA SameList ==
  ASSUME NEW S, NEW s \in Seq(S), NEW u \in Seq(S), Len(s) = Len(u),
         \A i \in 1..Len(s) : s[i] = u[i]
  PROVE  s = u
BY SeqEqual

\* A call that starts is outstanding behind the others.
LEMMA OutstandingStarts ==
  ASSUME Lists, Lists', NEW c \in Call, Start(c)
  PROVE  Outstanding' = Append(Outstanding, c)
<1> DEFINE a == Len(answers)
           n == Len(calls)
<1>1. /\ Outstanding \in Seq(Call) /\ Len(Outstanding) = a + n /\ a \in Nat /\ n \in Nat
      /\ \A i \in 1..(a + n) : Outstanding[i] = IF i <= a THEN answers[i].call ELSE calls[i - a]
  BY OutstandingTyped
<1>2. calls \in Seq(Call) /\ calls' = Append(calls, c) /\ answers' = answers
  BY DEF Lists, TypeOK, Start
<1>3. /\ Len(calls') = n + 1 /\ calls'[n + 1] = c /\ \A i \in 1..n : calls'[i] = calls[i]
  BY <1>2, AppendProperties
<1>4. /\ Outstanding' \in Seq(Call) /\ Len(Outstanding') = Len(answers') + Len(calls')
      /\ \A i \in 1..(Len(answers') + Len(calls')) :
            Outstanding'[i] = IF i <= Len(answers') THEN answers'[i].call
                              ELSE calls'[i - Len(answers')]
  BY OutstandingTypedNext
<1>5. /\ Append(Outstanding, c) \in Seq(Call) /\ Len(Append(Outstanding, c)) = a + n + 1
      /\ Append(Outstanding, c)[a + n + 1] = c
      /\ \A i \in 1..(a + n) : Append(Outstanding, c)[i] = Outstanding[i]
  <2> HIDE DEF a, n
  <2>1. a + n \in Nat /\ Outstanding \in Seq(Call) /\ Len(Outstanding) = a + n
    BY <1>1
  <2> QED BY <2>1, AppendProperties
<1>6. /\ Len(Outstanding') = a + n + 1
      /\ \A i \in 1..(a + n + 1) :
            Outstanding'[i] = IF i <= a THEN answers[i].call ELSE calls'[i - a]
  BY <1>1, <1>2, <1>3, <1>4
<1> HIDE DEF a, n
<1>7. ASSUME NEW i \in 1..(a + n + 1) PROVE Outstanding'[i] = Append(Outstanding, c)[i]
  <2>1. CASE i = a + n + 1
    <3>1. ~(i <= a) /\ i - a = n + 1
      BY <2>1, <1>1
    <3> QED BY <3>1, <2>1, <1>3, <1>5, <1>6
  <2>2. CASE i # a + n + 1 /\ i <= a
    <3>1. i \in 1..(a + n)
      BY <2>2, <1>1
    <3> QED BY <3>1, <2>2, <1>1, <1>5, <1>6
  <2>3. CASE i # a + n + 1 /\ ~(i <= a)
    <3>1. i \in 1..(a + n) /\ i - a \in 1..n
      BY <2>3, <1>1
    <3> QED BY <3>1, <2>3, <1>1, <1>3, <1>5, <1>6
  <2> QED BY <2>1, <2>2, <2>3
<1> QED BY <1>4, <1>5, <1>6, <1>7, SameList

\* A call that has read stays where it was.
LEMMA OutstandingRead ==
  ASSUME Lists, Lists', NEW r, calls # <<>>, calls' = Tail(calls),
         r.call = Head(calls), answers' = Append(answers, r)
  PROVE  Outstanding' = Outstanding
<1> DEFINE a == Len(answers)
           n == Len(calls)
<1>1. /\ Outstanding \in Seq(Call) /\ Len(Outstanding) = a + n /\ a \in Nat /\ n \in Nat
      /\ \A i \in 1..(a + n) : Outstanding[i] = IF i <= a THEN answers[i].call ELSE calls[i - a]
  BY OutstandingTyped
<1>2. /\ n # 0 /\ Head(calls) = calls[1] /\ Len(calls') = n - 1
      /\ \A i \in 1..(n - 1) : calls'[i] = calls[i + 1]
  <2>1. calls \in Seq(Call)
    BY DEF Lists, TypeOK
  <2> QED BY <2>1, HeadTailProperties, LenProperties, EmptySeq
<1>3. Len(answers') = a + 1 /\ answers'[a + 1] = r /\ \A i \in 1..a : answers'[i] = answers[i]
  <2>1. answers \in Seq(AnswerTo) /\ answers' \in Seq(AnswerTo)
    BY DEF Lists, TypeOK
  <2> QED BY <2>1
<1>4. /\ Outstanding' \in Seq(Call) /\ Len(Outstanding') = Len(answers') + Len(calls')
      /\ \A i \in 1..(Len(answers') + Len(calls')) :
            Outstanding'[i] = IF i <= Len(answers') THEN answers'[i].call
                              ELSE calls'[i - Len(answers')]
  BY OutstandingTypedNext
<1> HIDE DEF a, n
<1>5. (a + 1) + (n - 1) = a + n
  BY <1>1
<1>6. /\ Len(Outstanding') = a + n
      /\ \A i \in 1..(a + n) :
            Outstanding'[i] = IF i <= a + 1 THEN answers'[i].call ELSE calls'[i - (a + 1)]
  BY <1>2, <1>3, <1>4, <1>5
<1>7. ASSUME NEW i \in 1..(a + n) PROVE Outstanding'[i] = Outstanding[i]
  <2>1. CASE i <= a
    <3>1. i \in 1..a /\ i <= a + 1
      BY <2>1, <1>1
    <3> QED BY <3>1, <2>1, <1>1, <1>3, <1>6
  <2>2. CASE i = a + 1
    <3>1. ~(i <= a) /\ i - a = 1 /\ i <= a + 1
      BY <2>2, <1>1
    <3> QED BY <3>1, <2>2, <1>1, <1>2, <1>3, <1>6
  <2>3. CASE ~(i <= a) /\ i # a + 1
    <3>1. i - (a + 1) \in 1..(n - 1) /\ (i - (a + 1)) + 1 = i - a /\ ~(i <= a + 1)
      BY <2>3, <1>1
    <3> QED BY <3>1, <2>3, <1>1, <1>2, <1>6
  <2> QED BY <2>1, <2>2, <2>3
<1> QED BY <1>1, <1>4, <1>6, <1>7, SameList

\* The completion that runs is of the oldest.
LEMMA OutstandingCompletes ==
  ASSUME Lists, Lists', answers # <<>>, Complete
  PROVE  /\ Outstanding # <<>> /\ Head(Outstanding) = Head(answers).call
         /\ Outstanding' = Tail(Outstanding)
<1> DEFINE a == Len(answers)
           n == Len(calls)
<1>1. /\ Outstanding \in Seq(Call) /\ Len(Outstanding) = a + n /\ a \in Nat /\ n \in Nat
      /\ \A i \in 1..(a + n) : Outstanding[i] = IF i <= a THEN answers[i].call ELSE calls[i - a]
  BY OutstandingTyped
<1>2. calls' = calls /\ answers' = Tail(answers)
  BY DEF Complete
<1>3. /\ a # 0 /\ Head(answers) = answers[1] /\ Len(answers') = a - 1
      /\ \A i \in 1..(a - 1) : answers'[i] = answers[i + 1]
  <2>1. answers \in Seq(AnswerTo)
    BY DEF Lists, TypeOK
  <2> QED BY <2>1, <1>2, HeadTailProperties, LenProperties, EmptySeq
<1>4. /\ Outstanding' \in Seq(Call) /\ Len(Outstanding') = Len(answers') + Len(calls')
      /\ \A i \in 1..(Len(answers') + Len(calls')) :
            Outstanding'[i] = IF i <= Len(answers') THEN answers'[i].call
                              ELSE calls'[i - Len(answers')]
  BY OutstandingTypedNext
<1>5. /\ Outstanding # <<>> /\ Head(Outstanding) = Outstanding[1]
      /\ Tail(Outstanding) \in Seq(Call) /\ Len(Tail(Outstanding)) = a + n - 1
      /\ \A i \in 1..(a + n - 1) : Tail(Outstanding)[i] = Outstanding[i + 1]
  <2>1. a + n # 0
    BY <1>1, <1>3
  <2>2. Outstanding # <<>>
    BY <2>1, <1>1, EmptySeq
  <2> QED BY <2>2, <1>1, HeadTailProperties
<1> HIDE DEF a, n
<1>6. /\ Len(Outstanding') = a + n - 1
      /\ \A i \in 1..(a + n - 1) :
            Outstanding'[i] = IF i <= a - 1 THEN answers'[i].call ELSE calls[i - (a - 1)]
  <2>1. (a - 1) + n = a + n - 1
    BY <1>1
  <2> QED BY <2>1, <1>2, <1>3, <1>4 DEF n
<1>7. ASSUME NEW i \in 1..(a + n - 1) PROVE Outstanding'[i] = Tail(Outstanding)[i]
  <2>1. i + 1 \in 1..(a + n) /\ (i <= a - 1 <=> i + 1 <= a) /\ i - (a - 1) = (i + 1) - a
    BY <1>1
  <2>2. i <= a - 1 => i \in 1..(a - 1)
    BY <1>1, <1>3
  <2> QED BY <2>1, <2>2, <1>1, <1>3, <1>5, <1>6
<1>8. Head(Outstanding) = Head(answers).call
  <2>1. 1 \in 1..(a + n) /\ 1 <= a
    BY <1>1, <1>3
  <2> QED BY <2>1, <1>1, <1>3, <1>5
<1> QED BY <1>4, <1>5, <1>6, <1>7, <1>8, SameList

\* What the account holds is what it holds without a coin it does not.
LEMMA WithoutNothing ==
  ASSUME NEW coins, NEW k, ~Contains(coins, k)
  PROVE  Without(coins, k) = coins
BY DEF Without

\* Something other than a deletion waits for the store.
Otherwise == \E i \in 1..Len(Outstanding) : Outstanding[i].kind # "delete"

\* The deletions of cs lead from the coins p to the coins d: h has what is left after
\* each of them.
Leads(h, p, cs, d) ==
    /\ h[0] = p /\ h[Len(cs)] = d
    /\ \A i \in 0..Len(cs) : h[i] \in Seq(Coin) /\ IsInjective(h[i])
    /\ \A i \in 1..Len(cs) : h[i] = Without(h[i - 1], cs[i].coin)

\* The wallet is what the account will be, unless it is behind or a call that is no
\* deletion comes first.
Ahead == behind \/ Otherwise \/ \E h : Leads(h, portfolio, Outstanding, data)

\* A call that is no deletion still waits when one more comes or another is decided.
LEMMA OtherwiseWaits ==
  ASSUME Lists, Otherwise, Outstanding' \in Seq(Call),
         \/ \E c : Outstanding' = Append(Outstanding, c)
         \/ Outstanding # <<>> /\ Outstanding' = Tail(Outstanding) /\ Head(Outstanding).kind = "delete"
  PROVE  Otherwise'
<1>1. Outstanding \in Seq(Call) /\ Len(Outstanding) \in Nat
  BY LenProperties, OutstandingTyped
<1>2. PICK i \in 1..Len(Outstanding) : Outstanding[i].kind # "delete"
  BY DEF Otherwise
<1>3. ASSUME NEW c, Outstanding' = Append(Outstanding, c) PROVE Otherwise'
  <2>1. Len(Outstanding') = Len(Outstanding) + 1 /\ Outstanding'[i] = Outstanding[i]
    BY <1>1, <1>2, <1>3
  <2>2. i \in 1..Len(Outstanding')
    BY <2>1, <1>1
  <2> QED BY <2>1, <2>2, <1>2 DEF Otherwise
<1>4. ASSUME Outstanding # <<>>, Outstanding' = Tail(Outstanding), Head(Outstanding).kind = "delete" PROVE Otherwise'
  <2>1. /\ Len(Outstanding') = Len(Outstanding) - 1 /\ Head(Outstanding) = Outstanding[1]
        /\ \A j \in 1..Len(Outstanding') : Outstanding'[j] = Outstanding[j + 1]
    BY <1>1, <1>4, HeadTailProperties
  <2>2. i # 1
    BY <2>1, <1>2, <1>4
  <2>3. i - 1 \in 1..Len(Outstanding') /\ (i - 1) + 1 = i
    BY <2>1, <2>2, <1>1
  <2>4. Outstanding'[i - 1] = Outstanding[i]
    BY <2>1, <2>3
  <2> QED BY <2>3, <2>4, <1>2 DEF Otherwise
<1> QED BY <1>3, <1>4

\* Another deletion, of a coin that data holds.
LEMMA LeadsFurther ==
  ASSUME Lists, NEW h, Leads(h, portfolio, Outstanding, data), NEW i \in 1..Len(data), portfolio' = portfolio,
         Outstanding' = Append(Outstanding, Delete(data[i])), data' = RemoveAt(data, i)
  PROVE  \E g : Leads(g, portfolio', Outstanding', data')
<1> DEFINE n == Len(Outstanding)
           g == [m \in 0..(n + 1) |-> IF m <= n THEN h[m] ELSE RemoveAt(data, i)]
<1>1. n \in Nat /\ Outstanding \in Seq(Call) /\ data \in Seq(Coin) /\ IsInjective(data)
  BY LenProperties, OutstandingTyped DEF Lists, TypeOK
<1>2. /\ Len(Outstanding') = n + 1 /\ Outstanding'[n + 1] = Delete(data[i])
      /\ \A m \in 1..n : Outstanding'[m] = Outstanding[m]
  <2>1. data[i] \in Coin
    BY <1>1, ElementOfSeq
  <2>2. Delete(data[i]) \in Call
    BY <2>1 DEF Delete, Call
  <2> QED BY <2>2, <1>1, AppendProperties
<1> HIDE DEF n
<1>3. (\A m \in 0..n : g[m] = h[m]) /\ g[n + 1] = RemoveAt(data, i)
  <2>1. (\A m \in 0..n : m \in 0..(n + 1) /\ m <= n) /\ n + 1 \in 0..(n + 1) /\ ~(n + 1 <= n)
    BY <1>1
  <2> QED BY <2>1
<1> HIDE DEF g
<1>4. /\ h[0] = portfolio /\ h[n] = data
      /\ \A m \in 0..n : h[m] \in Seq(Coin) /\ IsInjective(h[m])
      /\ \A m \in 1..n : h[m] = Without(h[m - 1], Outstanding[m].coin)
  BY DEF Leads, n
<1>5. g[0] = portfolio' /\ g[n + 1] = data'
  BY <1>1, <1>3, <1>4
<1>6. ASSUME NEW m \in 0..(n + 1) PROVE g[m] \in Seq(Coin) /\ IsInjective(g[m])
  <2>1. m \in 0..n \/ m = n + 1
    BY <1>1
  <2>2. RemoveAt(data, i) \in Seq(Coin) /\ IsInjective(RemoveAt(data, i))
    BY <1>1, RemoveAtTyped, RemoveAtInjective
  <2> QED BY <2>1, <2>2, <1>3, <1>4
<1>7. ASSUME NEW m \in 1..(n + 1) PROVE g[m] = Without(g[m - 1], Outstanding'[m].coin)
  <2>1. CASE m \in 1..n
    <3>1. m \in 0..n /\ m - 1 \in 0..n
      BY <2>1, <1>1
    <3> QED BY <3>1, <2>1, <1>2, <1>3, <1>4
  <2>2. CASE m = n + 1
    <3>1. m - 1 \in 0..n /\ m - 1 = n
      BY <2>2, <1>1
    <3>2. Outstanding'[m].coin = data[i]
      BY <2>2, <1>2 DEF Delete
    <3>3. Without(data, data[i]) = RemoveAt(data, i)
      BY <1>1, WithoutRemoves
    <3>4. g[m - 1] = data /\ g[m] = RemoveAt(data, i)
      BY <3>1, <2>2, <1>3, <1>4
    <3> QED BY <3>2, <3>3, <3>4
  <2>3. m \in 1..n \/ m = n + 1
    <3>1. n \in Nat
      BY <1>1
    <3> QED BY <3>1
  <2> QED BY <2>1, <2>2, <2>3
<1>8. Leads(g, portfolio', Outstanding', data')
  BY <1>2, <1>5, <1>6, <1>7 DEF Leads
<1> QED BY <1>8

\* The first deletion is decided.
LEMMA LeadsFromThere ==
  ASSUME Lists, NEW h, Leads(h, portfolio, Outstanding, data), Outstanding # <<>>, Outstanding' = Tail(Outstanding), data' = data,
         portfolio' = Without(portfolio, Head(Outstanding).coin)
  PROVE  \E g : Leads(g, portfolio', Outstanding', data')
<1> DEFINE n == Len(Outstanding)
           g == [m \in 0..(n - 1) |-> h[m + 1]]
<1>1. /\ n \in Nat /\ Outstanding \in Seq(Call) /\ n # 0 /\ Head(Outstanding) = Outstanding[1]
      /\ Len(Outstanding') = n - 1 /\ \A m \in 1..Len(Outstanding') : Outstanding'[m] = Outstanding[m + 1]
  <2>1. Outstanding \in Seq(Call)
    BY OutstandingTyped
  <2> QED BY <2>1, HeadTailProperties, LenProperties, EmptySeq
<1> HIDE DEF n
<1>2. \A m \in 0..(n - 1) : g[m] = h[m + 1]
  OBVIOUS
<1> HIDE DEF g
<1>3. /\ h[0] = portfolio /\ h[n] = data
      /\ \A m \in 0..n : h[m] \in Seq(Coin) /\ IsInjective(h[m])
      /\ \A m \in 1..n : h[m] = Without(h[m - 1], Outstanding[m].coin)
  BY DEF Leads, n
<1>4. g[0] = portfolio' /\ g[n - 1] = data'
  <2>1. 0 \in 0..(n - 1) /\ 0 + 1 = 1 /\ 1 \in 1..n /\ 1 - 1 = 0
        /\ n - 1 \in 0..(n - 1) /\ (n - 1) + 1 = n
    BY <1>1
  <2>2. h[1] = Without(h[0], Outstanding[1].coin)
    BY <2>1, <1>3
  <2>3. g[0] = h[1] /\ g[n - 1] = h[n]
    BY <2>1, <1>2
  <2> QED BY <2>2, <2>3, <1>1, <1>3
<1>5. ASSUME NEW m \in 0..(n - 1) PROVE g[m] \in Seq(Coin) /\ IsInjective(g[m])
  <2>1. m + 1 \in 0..n
    BY <1>1
  <2> QED BY <2>1, <1>2, <1>3
<1>6. ASSUME NEW m \in 1..(n - 1) PROVE g[m] = Without(g[m - 1], Outstanding'[m].coin)
  <2>1. /\ m + 1 \in 1..n /\ m \in 0..(n - 1) /\ m - 1 \in 0..(n - 1) /\ (m - 1) + 1 = m
        /\ (m + 1) - 1 = m
    BY <1>1
  <2>2. h[m + 1] = Without(h[m], Outstanding[m + 1].coin)
    BY <2>1, <1>3
  <2>3. g[m] = h[m + 1] /\ g[m - 1] = h[m]
    BY <2>1, <1>2
  <2>4. Outstanding'[m] = Outstanding[m + 1]
    BY <1>1
  <2> QED BY <2>2, <2>3, <2>4
<1>7. Leads(g, portfolio', Outstanding', data')
  BY <1>1, <1>4, <1>5, <1>6 DEF Leads
<1> QED BY <1>7

\* A wallet that has just been read from the store leads nowhere else.
LEMMA LeadsNowhere ==
  ASSUME Lists', Outstanding' = <<>>, data' = portfolio'
  PROVE  \E g : Leads(g, portfolio', Outstanding', data')
<1> DEFINE g == [m \in 0..0 |-> data']
<1>1. Len(Outstanding') = 0 /\ data' \in Seq(Coin) /\ IsInjective(data')
  BY DEF Lists, TypeOK
<1>2. \A m \in 0..0 : g[m] = data'
  OBVIOUS
<1> HIDE DEF g
<1>3. \A m \in 1..0 : FALSE
  OBVIOUS
<1>4. 0 \in 0..0
  OBVIOUS
<1>5. Leads(g, portfolio', Outstanding', data')
  BY <1>1, <1>2, <1>3, <1>4 DEF Leads
<1> QED BY <1>5

\* Every step keeps the wallet ahead of the account.
LEMMA AheadStep == Lists /\ Ahead /\ [Next]_vars => Ahead'
<1> SUFFICES ASSUME Lists, Ahead, [Next]_vars PROVE Ahead'
  OBVIOUS
<1>t. Lists'
  BY ListsStep
<1>a. ASSUME behind' \/ Otherwise' PROVE Ahead'
  BY <1>a DEF Ahead
<1>b. Outstanding \in Seq(Call) /\ Outstanding' \in Seq(Call) /\ Len(Outstanding) \in Nat
  BY <1>t, LenProperties, OutstandingTyped, OutstandingTypedNext
<1>c. ASSUME NEW c \in Call, Start(c), c.kind # "delete" PROVE Ahead'
  <2>1. Outstanding' = Append(Outstanding, c)
    BY <1>c, <1>t, OutstandingStarts
  <2>2. Len(Outstanding') = Len(Outstanding) + 1 /\ Outstanding'[Len(Outstanding) + 1] = c
    BY <2>1, <1>b, <1>c, AppendProperties
  <2>3. Len(Outstanding) + 1 \in 1..Len(Outstanding')
    BY <2>2, <1>b
  <2> QED BY <2>2, <2>3, <1>a, <1>c DEF Otherwise
<1>u. ASSUME Outstanding' = Outstanding, UNCHANGED <<behind, portfolio, data>> PROVE Ahead'
  BY <1>u DEF Ahead, Otherwise, Leads
<1>v. ASSUME UNCHANGED <<behind, calls, answers, portfolio, data>> PROVE Ahead'
  <2>1. Outstanding' = Outstanding
    BY <1>v DEF Outstanding
  <2> QED BY <2>1, <1>u, <1>v
<1>1. CASE Refresh
  <2>1. Get \in Call /\ Get.kind # "delete" /\ Start(Get)
    BY <1>1 DEF Refresh, Get, Call
  <2> QED BY <2>1, <1>c
<1>2. ASSUME NEW k \in Coin, Buy(k) PROVE Ahead'
  <2>1. Add(k) \in Call /\ Add(k).kind # "delete" /\ Start(Add(k))
    BY <1>2 DEF Buy, Add, Call
  <2> QED BY <2>1, <1>c
<1>3. ASSUME NEW i \in DOMAIN data, Swipe(i) PROVE Ahead'
  <2>1. /\ Start(Delete(data[i])) /\ data' = RemoveAt(data, i)
        /\ behind' = (behind \/ ReadingUnderWay)
        /\ portfolio' = portfolio
    BY <1>3 DEF Swipe, SetData
  <2>2. i \in 1..Len(data) /\ data[i] \in Coin
    BY LenProperties, ElementOfSeq DEF Lists, TypeOK
  <2>3. Outstanding' = Append(Outstanding, Delete(data[i]))
    <3>1. Delete(data[i]) \in Call
      BY <2>2 DEF Delete, Call
    <3> QED BY <3>1, <2>1, <1>t, OutstandingStarts
  <2>4. CASE behind
    BY <2>1, <2>4, <1>a
  <2>5. CASE Otherwise
    BY <2>3, <2>5, <1>a, <1>b, OtherwiseWaits
  <2>6. ASSUME NEW h, Leads(h, portfolio, Outstanding, data) PROVE Ahead'
    <3>1. \E g : Leads(g, portfolio', Outstanding', data')
      BY <2>1, <2>2, <2>3, <2>6, LeadsFurther
    <3> QED BY <3>1 DEF Ahead
  <2> QED BY <2>4, <2>5, <2>6 DEF Ahead
<1>d. CASE Read
  <2>1. /\ calls # <<>> /\ calls' = Tail(calls)
        /\ \/ answers' = Append(answers, Found(Head(calls), portfolio))
           \/ answers' = Append(answers, Unread(Head(calls)))
        /\ UNCHANGED <<behind, portfolio, data>>
    BY <1>d DEF Read, lists, history
  <2>2. /\ Found(Head(calls), portfolio).call = Head(calls)
        /\ Unread(Head(calls)).call = Head(calls)
    BY DEF Found, Unread
  <2>3. Outstanding' = Outstanding
    BY <2>1, <2>2, <1>t, OutstandingRead
  <2> QED BY <2>1, <2>3, <1>u
<1>4. CASE RunGet
  <2>1. /\ data' = Seen /\ portfolio' = portfolio
        /\ behind' = (calls' # <<>> \/ answers' # <<>> \/ Overtaken)
    BY <1>4 DEF RunGet, SetData
  <2>2. CASE calls' = <<>> /\ answers' = <<>> /\ Seen = portfolio
    <3>1. Outstanding' = <<>>
      <4>1. Len(answers') = 0 /\ Len(calls') = 0
        BY <2>2
      <4>2. Len(Outstanding') = Len(answers') + Len(calls')
        BY <1>t, OutstandingTypedNext
      <4>3. Len(Outstanding') = 0
        BY <4>1, <4>2
      <4> QED BY <4>3, <1>b, EmptySeq
    <3>2. \E g : Leads(g, portfolio', Outstanding', data')
      BY <2>1, <2>2, <3>1, <1>t, LeadsNowhere
    <3> QED BY <3>2 DEF Ahead
  <2> QED BY <2>1, <2>2, <1>a DEF Overtaken
<1>5. CASE RunAdd
  BY <1>5, <1>a DEF RunAdd
<1>6. CASE RunDelete
  <2>1. /\ answers # <<>> /\ Complete /\ Head(answers).call.kind = "delete"
        /\ portfolio' = IF Contains(Seen, Subject) THEN Without(Seen, Subject) ELSE portfolio
        /\ behind' = (behind \/ Overtaken) /\ data' = data
    BY <1>6 DEF RunDelete, Ready, lists
  <2>2. /\ Outstanding # <<>> /\ Outstanding' = Tail(Outstanding)
        /\ Head(Outstanding).kind = "delete" /\ Head(Outstanding).coin = Subject
    BY <2>1, <1>t, OutstandingCompletes DEF Subject
  <2>3. CASE behind \/ Overtaken
    BY <2>1, <2>3, <1>a
  <2>4. CASE Otherwise
    BY <2>2, <2>4, <1>a, <1>b, OtherwiseWaits
  <2>5. ASSUME ~Overtaken, NEW h, Leads(h, portfolio, Outstanding, data) PROVE Ahead'
    <3>1. portfolio' = Without(portfolio, Head(Outstanding).coin)
      <4>1. Seen = portfolio
        BY <2>5 DEF Overtaken
      <4> QED BY <4>1, <2>1, <2>2, WithoutNothing
    <3>2. \E g : Leads(g, portfolio', Outstanding', data')
      BY <2>1, <2>2, <2>5, <3>1, LeadsFromThere
    <3> QED BY <3>2 DEF Ahead
  <2> QED BY <2>3, <2>4, <2>5 DEF Ahead
<1>7. CASE RunFailed
  BY <1>7, <1>a DEF RunFailed
<1>8. ASSUME Restart PROVE Ahead'
  BY <1>8, <1>a DEF Restart
<1>9. ASSUME NEW i \in DOMAIN prices, Answer(i) \/ Lose(i) PROVE Ahead'
  BY <1>9, <1>v DEF Answer, Lose, store, lists
<1>10. CASE BackgroundStep \/ Reload
  BY <1>10, <1>v DEF BackgroundStep, MakeRow, SetRows, SumUp, Reload, store, lists, history
<1>11. CASE UNCHANGED vars
  BY <1>11, <1>v DEF vars
<1> QED
  BY <1>1, <1>2, <1>3, <1>d, <1>4, <1>5, <1>6, <1>7, <1>8, <1>9, <1>10, <1>11
  DEF Next, Acts, Completion, DeleteTraps, Trap

\* Once the calls on the store have ended, the wallet holds what the account holds,
\* entry for entry, though deleteCoinFromPortfolio changes data before the store has
\* deleted anything, and the store reads and overwrites in two steps: unless, since data
\* was last read, a coin was bought, a call failed, a coin was deleted while a reading
\* was under way, or a completion used a list that another had changed meanwhile.
THEOREM WalletIsTheAccount == Spec => []HoldsThePortfolio
<1>1. Init => Lists /\ Ahead
  BY ListsInit DEF Init, Ahead
<1>2. Lists /\ Ahead /\ [Next]_vars => (Lists /\ Ahead)'
  BY ListsStep, AheadStep
<1>3. Lists /\ Ahead => HoldsThePortfolio
  <2> SUFFICES ASSUME Lists, Ahead, Outstanding = <<>>, ~behind PROVE data = portfolio
    BY DEF HoldsThePortfolio
  <2>1. Len(Outstanding) = 0
    OBVIOUS
  <2>2. ~Otherwise
    BY <2>1 DEF Otherwise
  <2> QED BY <2>1, <2>2 DEF Ahead, Leads
<1> QED BY <1>1, <1>2, <1>3, PTL DEF Spec

-----------------------------------------------------------------------------
(* A row for every coin.                                                    *)

\* The coins of the last answer are listed as the service lists them; and as long as
\* the wallet holds them all, each becomes a row.
Shown ==
    Current =>
        /\ viewData \in SeqOf(Coin, Len(Market)) /\ InOrder(viewData)
        /\ ToSet(viewData) \subseteq ToSet(data) =>
               IF background.step = "making"
               THEN background.made \o background.left = viewData
               ELSE viewCellData = viewData

\* What the service lists is in its order.
LEMMA ListingsInOrder ==
  ASSUME NEW ids, NEW listed \in Listings(ids)
  PROVE  listed \in SeqOf(Coin, Len(Market)) /\ InOrder(listed)
<1>m. Market \in Seq(Coin) /\ Len(Market) \in Nat /\ DOMAIN Market = 1..Len(Market)
  BY MarketAssumption, LenProperties
<1>1. CASE listed = Market
  <2>1. Market \in [1..Len(Market) -> Coin] /\ Len(Market) \in 0..Len(Market)
    BY <1>m, LenProperties
  <2>2. Market \in SeqOf(Coin, Len(Market))
    BY <2>1 DEF SeqOf
  <2>3. InOrder(Market)
    BY DEF InOrder
  <2> QED BY <2>2, <2>3, <1>1
<1>2. CASE listed = <<>>
  <2>1. <<>> \in [1..0 -> Coin] /\ 0 \in 0..Len(Market)
    BY <1>m
  <2>2. <<>> \in SeqOf(Coin, Len(Market))
    BY <2>1 DEF SeqOf
  <2>3. InOrder(<<>>)
    BY DEF InOrder
  <2> QED BY <2>2, <2>3, <1>2
<1>3. CASE listed \in Listed(ids)
  BY <1>3 DEF Listed
<1> QED BY <1>1, <1>2, <1>3 DEF Listings

\* The service lists no coin twice.
LEMMA InOrderInjective ==
  ASSUME NEW coins \in Seq(Coin), InOrder(coins)
  PROVE  IsInjective(coins)
<1>1. DOMAIN coins = 1..Len(coins) /\ Len(coins) \in Nat
  BY LenProperties
<1>2. DOMAIN Market = 1..Len(Market) /\ Len(Market) \in Nat
  BY MarketAssumption, LenProperties
<1>3. ASSUME NEW i \in DOMAIN coins, NEW j \in DOMAIN coins, i < j PROVE coins[i] # coins[j]
  <2>1. PICK m \in DOMAIN Market, n \in DOMAIN Market :
          m < n /\ Market[m] = coins[i] /\ Market[n] = coins[j]
    BY <1>3 DEF InOrder
  <2>2. m # n
    BY <2>1, <1>2
  <2> QED BY <2>1, <2>2, MarketAssumption DEF IsInjective
<1>4. \A i, j \in DOMAIN coins : i = j \/ i < j \/ j < i
  BY <1>1
<1> QED BY <1>3, <1>4 DEF IsInjective

\* A list without repetitions has as many entries as coins.
LEMMA LengthOfList ==
  ASSUME NEW s \in Seq(Coin), IsInjective(s)
  PROVE  Cardinality(ToSet(s)) = Len(s)
<1>1. s \in [1..Len(s) -> Coin] /\ DOMAIN s = 1..Len(s) /\ Len(s) \in Nat
  BY LenProperties
<1>2. s \in [1..Len(s) -> ToSet(s)]
  BY <1>1 DEF ToSet
<1>3. /\ \A a, b \in 1..Len(s) : s[a] = s[b] => a = b
      /\ \A t \in ToSet(s) : \E a \in 1..Len(s) : s[a] = t
  BY <1>1 DEF IsInjective, ToSet
<1>4. s \in Bijection(1..Len(s), ToSet(s))
  BY <1>2, <1>3, Fun_IsBij
<1>5. IsFiniteSet(1..Len(s)) /\ Cardinality(1..Len(s)) = Len(s)
  <2>1. 1 \in Int /\ Len(s) \in Int
    BY <1>1
  <2>2. /\ IsFiniteSet(1..Len(s))
        /\ Cardinality(1..Len(s)) = IF 1 > Len(s) THEN 0 ELSE Len(s) - 1 + 1
    BY <2>1, FS_Interval
  <2> QED BY <2>2, <1>1
<1>6. ExistsBijection(1..Len(s), ToSet(s))
  BY <1>4, Fun_ExistsBij
<1> QED BY <1>5, <1>6, FS_Bijection

\* The head of what is left is the next of what is made.
LEMMA NextRow ==
  ASSUME NEW S, NEW made \in Seq(S), NEW left \in Seq(S), left # <<>>
  PROVE  Append(made, Head(left)) \o Tail(left) = made \o left
<1>1. Head(left) \in S /\ Tail(left) \in Seq(S) /\ <<Head(left)>> \in Seq(S)
  BY HeadTailProperties
<1>2. <<Head(left)>> \o Tail(left) = left
  <2>1. Len(left) \in Nat \ {0}
    BY EmptySeq
  <2>2. 1 \in 1..Len(left) /\ Len(left) \in 1..Len(left)
    BY <2>1
  <2>3. SubSeq(left, 1, Len(left)) = <<left[1]>> \o SubSeq(left, 1 + 1, Len(left))
    BY <2>2, SubSeqRecursiveFirst
  <2>4. Tail(left) = SubSeq(left, 2, Len(left)) /\ Head(left) = left[1]
    BY TailIsSubSeq
  <2>5. SubSeq(left, 1, Len(left)) = left
    BY SubSeqFull
  <2> QED BY <2>3, <2>4, <2>5
<1>3. Append(made, Head(left)) = made \o <<Head(left)>>
  BY <1>1, AppendIsConcat
<1>4. (made \o <<Head(left)>>) \o Tail(left) = made \o (<<Head(left)>> \o Tail(left))
  BY <1>1, ConcatAssociative
<1> QED BY <1>2, <1>3, <1>4

\* The head of what is left is a coin of the answer.
LEMMA HeadIsListed ==
  ASSUME NEW S, NEW made \in Seq(S), NEW left \in Seq(S), left # <<>>
  PROVE  Head(left) \in ToSet(made \o left)
<1>1. /\ made \o left \in Seq(S) /\ Len(made \o left) = Len(made) + Len(left)
      /\ \A i \in 1..(Len(made) + Len(left)) :
            (made \o left)[i] = IF i <= Len(made) THEN made[i] ELSE left[i - Len(made)]
  BY ConcatProperties
<1>2. Len(made) \in Nat /\ Len(left) \in Nat /\ Len(left) # 0
  BY LenProperties, EmptySeq
<1>3. /\ Len(made) + 1 \in 1..(Len(made) + Len(left)) /\ ~(Len(made) + 1 <= Len(made))
      /\ (Len(made) + 1) - Len(made) = 1
  BY <1>2
<1>4. (made \o left)[Len(made) + 1] = left[1]
  BY <1>1, <1>3
<1>5. DOMAIN (made \o left) = 1..Len(made \o left)
  BY <1>1, LenProperties
<1> QED BY <1>1, <1>3, <1>4, <1>5 DEF ToSet

\* Every step keeps the rows whole.
LEMMA ShownStep == Lists /\ Shown /\ [Next]_vars => Shown'
<1> SUFFICES ASSUME Lists, Shown, [Next]_vars PROVE Shown'
  OBVIOUS
<1>t. Lists'
  BY ListsStep
<1>v. ASSUME ~Current' PROVE Shown'
  BY <1>v DEF Shown
<1>u. ASSUME UNCHANGED <<viewData, data, background, viewCellData, lost, prices>> PROVE Shown'
  BY <1>u DEF Shown, Current
<1>s. ASSUME NEW coins \in Seq(Coin), SetData(coins) PROVE Shown'
  <2>1. prices' # <<>>
    BY <1>s, DataSet
  <2> QED BY <2>1, <1>v DEF Current
<1>1. CASE Refresh
  BY <1>1, <1>u DEF Refresh, lists
<1>2. ASSUME NEW k \in Coin, Buy(k) PROVE Shown'
  BY <1>2, <1>u DEF Buy, lists
<1>3. ASSUME NEW i \in DOMAIN data, Swipe(i) PROVE Shown'
  <2>1. SetData(RemoveAt(data, i))
    BY <1>3 DEF Swipe
  <2>2. i \in 1..Len(data) /\ data \in Seq(Coin)
    BY LenProperties DEF Lists, TypeOK
  <2>3. RemoveAt(data, i) \in Seq(Coin)
    BY <2>2, RemoveAtTyped
  <2> QED BY <2>1, <2>3, <1>s
<1>4. CASE RunGet
  <2>1. SetData(Seen) /\ Complete /\ answers # <<>>
    BY <1>4 DEF RunGet, Ready
  <2>2. Seen \in Seq(Coin)
    BY <2>1, HeadOfAnswers
  <2> QED BY <2>1, <2>2, <1>s
<1>5. CASE Read \/ RunAdd \/ RunDelete \/ RunFailed
  BY <1>5, <1>u DEF Read, RunAdd, RunDelete, RunFailed, lists, history
<1>6. ASSUME NEW i \in DOMAIN prices, Answer(i) PROVE Shown'
  <2>1. PICK listed \in Listings(prices[i]) : viewData' = listed \/ lost' = TRUE
    BY <1>6 DEF Answer
  <2>2. CASE lost' = TRUE
    BY <2>2, <1>v DEF Current
  <2>3. CASE viewData' = listed
    <3>1. viewData' \in SeqOf(Coin, Len(Market)) /\ InOrder(viewData')
      <4>1. listed \in SeqOf(Coin, Len(Market)) /\ InOrder(listed)
        BY ListingsInOrder
      <4> QED BY <4>1, <2>3
    <3>2. background' = Making(viewData', <<>>)
      BY <1>6 DEF Answer
    <3>3. background'.step = "making" /\ background'.made = <<>> /\ background'.left = viewData'
      BY <3>2 DEF Making
    <3>4. <<>> \o viewData' = viewData'
      <4>1. viewData' \in Seq(Coin)
        BY <1>t DEF Lists, TypeOK
      <4> QED BY <4>1, ConcatEmptySeq
    <3> QED BY <3>1, <3>3, <3>4 DEF Shown
  <2> QED BY <2>1, <2>2, <2>3
<1>7. ASSUME NEW i \in DOMAIN prices, Lose(i) PROVE Shown'
  BY <1>7, <1>v DEF Lose, Current
<1>8. CASE MakeRow
  <2> DEFINE left == background.left
             made == background.made
  <2>1. /\ background.step = "making" /\ left # <<>>
        /\ background' = Making(Tail(left), IF Contains(data, Head(left))
                                            THEN Append(made, Head(left)) ELSE made)
        /\ UNCHANGED <<viewData, data, viewCellData, lost, prices>>
    BY <1>8 DEF MakeRow, lists, history
  <2>2. left \in Seq(Coin) /\ made \in Seq(Coin)
    BY DEF Lists, TypeOK
  <2>3. /\ background'.step = "making" /\ background'.left = Tail(left)
        /\ Contains(data, Head(left)) => background'.made = Append(made, Head(left))
    BY <2>1 DEF Making
  <2> HIDE DEF left, made
  <2>4. ASSUME Current, ToSet(viewData) \subseteq ToSet(data)
        PROVE  background'.made \o background'.left = viewData
    <3>1. made \o left = viewData
      BY <2>1, <2>4 DEF Shown, left, made
    <3>2. Head(left) \in ToSet(data)
      BY <3>1, <2>1, <2>2, <2>4, HeadIsListed
    <3>3. Contains(data, Head(left))
      <4>1. DOMAIN data = 1..Len(data)
        BY LenProperties DEF Lists, TypeOK
      <4> QED BY <4>1, <3>2 DEF ToSet, Contains
    <3>4. Append(made, Head(left)) \o Tail(left) = made \o left
      BY <2>1, <2>2, NextRow
    <3> QED BY <3>1, <3>3, <3>4, <2>3
  <2> QED BY <2>1, <2>3, <2>4 DEF Shown, Current
<1>9. CASE SetRows
  <2>1. /\ background.step = "making" /\ background.left = <<>>
        /\ viewCellData' = background.made /\ background'.step = "summing"
        /\ UNCHANGED <<viewData, data, lost, prices>>
    BY <1>9 DEF SetRows, Summing, history
  <2>2. background.made \o background.left = background.made
    <3>1. background.made \in Seq(Coin)
      BY DEF Lists, TypeOK
    <3> QED BY <3>1, <2>1, ConcatEmptySeq
  <2> QED BY <2>1, <2>2 DEF Shown, Current
<1>10. CASE SumUp
  <2>1. /\ background.step = "summing" /\ background'.step = "idle"
        /\ UNCHANGED <<viewData, data, viewCellData, lost, prices>>
    BY <1>10 DEF SumUp, Summing, Idle, lists, history
  <2> QED BY <2>1 DEF Shown, Current
<1>11. CASE Reload
  BY <1>11, <1>u DEF Reload, lists
<1>12. ASSUME Restart PROVE Shown'
  <2>1. background'.step = "idle" /\ viewCellData' = <<>> /\ viewData' = <<>>
    BY <1>12 DEF Restart, Idle
  <2>2. <<>> \in SeqOf(Coin, Len(Market)) /\ InOrder(<<>>)
    <3>1. <<>> \in Listings(<<>>)
      BY DEF Listings
    <3> QED BY <3>1, ListingsInOrder
  <2> QED BY <2>1, <2>2 DEF Shown
<1>13. CASE UNCHANGED vars
  BY <1>13, <1>u DEF vars
<1> QED
  BY <1>1, <1>2, <1>3, <1>4, <1>5, <1>6, <1>7, <1>8, <1>9, <1>10, <1>11, <1>12, <1>13
  DEF Next, Acts, Completion, DeleteTraps, BackgroundStep, Trap

\* When nothing is under way, no answer was lost, and the last one was about the coins
\* that the wallet holds, there is one row for each of them in the order of the market:
\* that viewCellData was made from viewData while data could change has left no gap.
THEOREM EveryCoinIsShown == Spec => []EveryCoinHasItsRow
<1>1. Init => Lists /\ Shown
  <2>1. Init => Shown
    <3>1. <<>> \in SeqOf(Coin, Len(Market)) /\ InOrder(<<>>)
      <4>1. <<>> \in Listings(<<>>)
        BY DEF Listings
      <4> QED BY <4>1, ListingsInOrder
    <3> QED BY <3>1 DEF Init, Idle, Shown
  <2> QED BY <2>1, ListsInit
<1>2. Lists /\ Shown /\ [Next]_vars => (Lists /\ Shown)'
  BY ListsStep, ShownStep
<1>3. Lists /\ Shown => EveryCoinHasItsRow
  <2> SUFFICES ASSUME Lists, Shown, Quiet, ~lost, ToSet(viewData) = ToSet(data)
               PROVE  viewCellData \in Listed(data) /\ rows = Len(data)
    BY DEF EveryCoinHasItsRow
  <2>1. /\ viewData \in SeqOf(Coin, Len(Market)) /\ InOrder(viewData)
        /\ viewCellData = viewData
    BY DEF Shown, Current, Quiet, Idle
  <2>2. viewCellData \in Listed(data)
    BY <2>1 DEF Listed
  <2>3. rows = Len(viewCellData)
    BY DEF Lists, RowsCatchUp, Quiet, Idle, Summing
  <2>4. Len(viewData) = Len(data)
    <3>1. /\ viewData \in Seq(Coin) /\ IsInjective(viewData)
          /\ data \in Seq(Coin) /\ IsInjective(data)
      BY <2>1, InOrderInjective DEF Lists, TypeOK
    <3>2. Cardinality(ToSet(viewData)) = Len(viewData) /\ Cardinality(ToSet(data)) = Len(data)
      BY <3>1, LengthOfList
    <3> QED BY <3>2
  <2> QED BY <2>1, <2>2, <2>3, <2>4
<1> QED BY <1>1, <1>2, <1>3, PTL DEF Spec
=============================================================================
