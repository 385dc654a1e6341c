---------------------------- MODULE SessionProofs ----------------------------
(***************************************************************************)
(* Proofs about Session, for any accounts and any bounds.                   *)
(*                                                                         *)
(* That somebody is signed in while a main screen is on display, unless he  *)
(* was signed out by force, needs to be known of the answers still to be     *)
(* delivered: see AnswersFindTheUser.  The other properties are about a user *)
(* who waits for each answer; then there is one thing under way at a time,   *)
(* and it belongs to the screen on display: see OneAtATime.                  *)
(***************************************************************************)
EXTENDS Session, SequenceTheorems, TLAPS

Kind(s) == screens[s].kind

\* The screen below the one on display.
Below == stack[Len(stack) - 1]

\* The blocks of the main queue, in no order.
Queued == ToSet(main)

ScreenRecord == [kind : {"signIn", "signUp", "main"}, text : Text,
                 shown : User \cup {Nobody}]

-----------------------------------------------------------------------------
(* The inductive invariant.                                                 *)

\* Only forms are waited for: a main screen sends no request of its own.
FormsAsk ==
    \A x \in requests \cup Queued : x.screen \in DOMAIN screens /\ Kind(x.screen) # "main"

\* The bound on screens is passed at most by one, by a main screen.
Room ==
    \/ Len(screens) <= MaxScreens
    \/ Len(screens) = MaxScreens + 1 /\ Kind(Top) = "main"

\* Biometry is asked for by a sign-in screen that has just appeared.
BiometryComesFirst ==
    prompt =>
        /\ alert = "none" /\ Kind(Top) = "signIn"
        /\ \A x \in requests \cup Queued : x.screen # Top

\* The sign-up form is a sheet over a sign-in form.
SheetOverForm == Kind(Top) = "signUp" => Len(stack) > 1 /\ Kind(Below) = "signIn"

\* An accepted answer whose form can still come up finds the user signed in, or signed
\* out by force: Sign Out has put a main screen, which is never taken away, over the
\* forms before it.
AnswersFindTheUser ==
    user = Nobody /\ ~forced =>
        \A b \in Queued :
            b.kind \in {"signedIn", "created"} =>
                b.screen # Top /\ (Kind(Top) = "signUp" => b.screen # Below)

Standing ==
    /\ SignedInOnMain /\ FormsAsk /\ Room /\ BiometryComesFirst
    /\ SheetOverForm /\ AnswersFindTheUser

\* While the user waits for each answer, one request or one block is under way, and
\* the screen it belongs to is on display with no alert.
OneAtATime ==
    /\ requests # {} \/ main # <<>> => ~prompt /\ alert = "none"
    /\ requests # {} => main = <<>>
    /\ \A r, q \in requests : r = q
    /\ Len(main) <= 1
    /\ \A x \in requests \cup Queued : x.screen = Top

\* Then somebody is signed in on a form only since the launch, or until the block that
\* covers the form has run.
SignedInSinceLaunch ==
    user # Nobody =>
        \/ Kind(Top) = "main"
        \/ Len(stack) = 1
        \/ Len(stack) = 2 /\ Kind(Top) = "signUp"
        \/ \E b \in Queued : b.kind \in {"signedIn", "created"}

\* Then the document to be made is that of the account just made, if any.
CreatedIsTheUser == \A b \in Queued : b.kind = "created" => user \in created \cup {Nobody}

Patient ==
    ~crossed => OneAtATime /\ SignedInSinceLaunch /\ CreatedIsTheUser

\* Nor has the user typed: the form holds what was sent.
FormsAreAsSent ==
    haste = 0 =>
        /\ ~crossed
        /\ \A r \in requests : screens[r.screen].text = r.text
        /\ \A b \in Queued :
               b.kind = "signedIn" =>
                   screens[b.screen].text = b.text /\ b.text \in accepted

IndInv ==
    /\ TypeOK /\ Standing /\ Patient /\ FormsAreAsSent
    /\ WalletIsTheUsers /\ KeychainWasAccepted /\ OnlyNewAreEmptied

-----------------------------------------------------------------------------
(* The screens, the stack and the main queue.                               *)

\* What TypeOK says of the places.
LEMMA Places ==
  ASSUME TypeOK
  PROVE  /\ screens \in Seq(ScreenRecord) /\ Len(screens) \in Nat
         /\ DOMAIN screens = 1..Len(screens)
         /\ Len(stack) \in Nat \ {0} /\ DOMAIN stack = 1..Len(stack)
         /\ Top = stack[Len(stack)] /\ Top \in DOMAIN screens
         /\ Len(stack) > 1 => Below \in DOMAIN screens
         /\ \A s \in DOMAIN screens : screens[s] \in ScreenRecord
<1>1. screens \in Seq(ScreenRecord)
  BY DEF TypeOK, ScreenRecord
<1>2. Len(screens) \in Nat /\ DOMAIN screens = 1..Len(screens)
      /\ \A s \in DOMAIN screens : screens[s] \in ScreenRecord
  BY <1>1, LenProperties, ElementOfSeq
<1>3. stack \in Seq(DOMAIN screens) /\ stack # <<>>
  BY DEF TypeOK
<1>4. /\ Len(stack) \in Nat \ {0} /\ DOMAIN stack = 1..Len(stack)
      /\ \A i \in 1..Len(stack) : stack[i] \in DOMAIN screens
  BY <1>3, LenProperties, ElementOfSeq, EmptySeq
<1>5. Len(stack) \in 1..Len(stack) /\ (Len(stack) > 1 => Len(stack) - 1 \in 1..Len(stack))
  BY <1>4
<1> QED BY <1>1, <1>2, <1>4, <1>5 DEF Top, Last, Below

\* The number of a screen is one that requests and blocks may carry.
LEMMA Numbered ==
  ASSUME TypeOK, Room, NEW s \in DOMAIN screens
  PROVE  s \in ScreenId
<1>1. Len(screens) \in Nat /\ s \in 1..Len(screens) /\ MaxScreens \in Nat
  BY Places, BoundAssumption
<1>2. Len(screens) <= MaxScreens + 1
  BY <1>1 DEF Room
<1> QED BY <1>1, <1>2 DEF ScreenId

\* A screen is put over the others, which keep their places.
LEMMA Shown ==
  ASSUME TypeOK, NEW form \in ScreenRecord, NEW ss \in Seq(ScreenRecord),
         Len(ss) = Len(screens),
         screens' = Append(ss, form), stack' = Append(stack, Len(ss) + 1)
  PROVE  /\ screens' \in Seq(ScreenRecord) /\ Len(screens') = Len(screens) + 1
         /\ DOMAIN screens' = 1..(Len(screens) + 1)
         /\ \A s \in DOMAIN screens : screens'[s] = ss[s]
         /\ screens'[Len(screens) + 1] = form
         /\ stack' \in Seq(DOMAIN screens') /\ stack' # <<>> /\ IsInjective(stack')
         /\ Top' = Len(screens) + 1 /\ Len(stack') = Len(stack) + 1 /\ Below' = Top
<1> USE Places
<1>1. /\ screens' \in Seq(ScreenRecord) /\ Len(screens') = Len(screens) + 1
      /\ \A s \in 1..Len(ss) : screens'[s] = ss[s]
      /\ screens'[Len(screens) + 1] = form
  BY AppendProperties
<1>2. DOMAIN screens' = 1..(Len(screens) + 1)
  BY <1>1, LenProperties
<1>3. stack \in Seq(DOMAIN screens') /\ Len(screens) + 1 \in DOMAIN screens'
  <2>1. DOMAIN screens \subseteq DOMAIN screens' /\ Len(screens) + 1 \in DOMAIN screens'
    BY <1>2
  <2>2. stack \in Seq(DOMAIN screens)
    BY DEF TypeOK
  <2> QED BY <2>1, <2>2, SeqMonotonic
<1>4. /\ stack' \in Seq(DOMAIN screens') /\ Len(stack') = Len(stack) + 1
      /\ \A i \in 1..Len(stack) : stack'[i] = stack[i]
      /\ stack'[Len(stack) + 1] = Len(screens) + 1
  BY <1>3, AppendProperties
<1>5. stack' # <<>> /\ DOMAIN stack' = 1..(Len(stack) + 1)
  BY <1>4, LenProperties, EmptySeq
<1>6. IsInjective(stack')
  <2>1. \A i \in 1..Len(stack) : stack[i] \in 1..Len(screens)
    BY ElementOfSeq DEF TypeOK
  <2>2. \A i \in 1..Len(stack) : stack'[i] # Len(screens) + 1
    BY <2>1, <1>4
  <2>3. IsInjective(stack)
    BY DEF TypeOK
  <2>4. \A i, j \in 1..(Len(stack) + 1) : stack'[i] = stack'[j] => i = j
    <3>1. ASSUME NEW i \in 1..(Len(stack) + 1), NEW j \in 1..(Len(stack) + 1),
                 stack'[i] = stack'[j]
          PROVE  i = j
      <4>1. CASE i \in 1..Len(stack) /\ j \in 1..Len(stack)
        BY <4>1, <3>1, <2>3, <1>4 DEF IsInjective
      <4>2. CASE i = Len(stack) + 1 \/ j = Len(stack) + 1
        BY <4>2, <3>1, <2>2, <1>4
      <4> QED BY <4>1, <4>2
    <3> QED BY <3>1
  <2> QED BY <2>4, <1>5 DEF IsInjective
<1>7. Top' = Len(screens) + 1
  BY <1>4 DEF Top, Last
<1>8. Below' = Top
  <2>1. Len(stack') - 1 = Len(stack) /\ Len(stack) \in 1..Len(stack)
    BY <1>4
  <2> QED BY <2>1, <1>4 DEF Below
<1> QED BY <1>1, <1>2, <1>4, <1>5, <1>6, <1>7, <1>8

\* A text is put into a form, and nothing else changes.
LEMMA Filled ==
  ASSUME NEW ss \in Seq(ScreenRecord), NEW s \in DOMAIN ss, NEW text \in Text
  PROVE  LET tt == [ss EXCEPT ![s].text = text]
         IN  /\ tt \in Seq(ScreenRecord) /\ Len(tt) = Len(ss) /\ DOMAIN tt = DOMAIN ss
             /\ \A i \in DOMAIN ss : tt[i].kind = ss[i].kind /\ tt[i].shown = ss[i].shown
             /\ \A i \in DOMAIN ss : i # s => tt[i] = ss[i]
             /\ tt[s].text = text
<1> DEFINE tt == [ss EXCEPT ![s].text = text]
<1>0. DOMAIN ss = 1..Len(ss)
  BY LenProperties
<1>1. ss[s] \in ScreenRecord
  BY <1>0, ElementOfSeq
<1> DEFINE filled == [ss[s] EXCEPT !.text = text]
<1>a. /\ filled \in ScreenRecord /\ filled.text = text
      /\ filled.kind = ss[s].kind /\ filled.shown = ss[s].shown
  BY <1>1 DEF ScreenRecord
<1>2. tt = [ss EXCEPT ![s] = [ss[s] EXCEPT !.text = text]]
  OBVIOUS
<1>3. tt \in Seq(ScreenRecord) /\ Len(tt) = Len(ss) /\ DOMAIN tt = DOMAIN ss
  BY <1>0, <1>a, <1>2, ExceptSeq, LenProperties
<1>4. /\ \A i \in DOMAIN ss : i # s => tt[i] = ss[i]
      /\ tt[s] = [ss[s] EXCEPT !.text = text]
  BY <1>2
<1>5. tt[s].kind = ss[s].kind /\ tt[s].shown = ss[s].shown /\ tt[s].text = text
  BY <1>4, <1>a
<1> QED BY <1>3, <1>4, <1>5

\* A block that is posted joins the others.
LEMMA Posted ==
  ASSUME TypeOK, NEW b \in Block, main' = Append(main, b)
  PROVE  /\ main' \in Seq(Block) /\ Queued' = Queued \cup {b} /\ main' # <<>>
         /\ Len(main) = 0 => Len(main') = 1
<1>1. main \in Seq(Block)
  BY DEF TypeOK
<1>2. /\ main' \in Seq(Block) /\ Len(main') = Len(main) + 1 /\ Len(main) \in Nat
      /\ \A i \in 1..Len(main) : main'[i] = main[i]
      /\ main'[Len(main) + 1] = b
  BY <1>1, AppendProperties, LenProperties
<1>3. DOMAIN main = 1..Len(main) /\ DOMAIN main' = 1..(Len(main) + 1)
  BY <1>1, <1>2, LenProperties
<1>4. Queued' = Queued \cup {b}
  BY <1>2, <1>3 DEF Queued, ToSet
<1>5. main' # <<>>
  BY <1>2, EmptySeq
<1> QED BY <1>2, <1>4, <1>5

\* A block that runs leaves the others.
LEMMA Ran ==
  ASSUME TypeOK, main # <<>>, main' = Tail(main)
  PROVE  /\ main' \in Seq(Block) /\ Queued' \subseteq Queued
         /\ Head(main) \in Queued /\ Head(main) \in Block
         /\ Len(main) <= 1 => main' = <<>> /\ Queued' = {} /\ Queued = {Head(main)}
         /\ Len(main') <= Len(main)
<1>1. main \in Seq(Block) /\ Len(main) \in Nat \ {0}
  BY LenProperties, EmptySeq DEF TypeOK
<1>2. /\ main' \in Seq(Block) /\ Len(main') = Len(main) - 1
      /\ \A i \in 1..Len(main') : main'[i] = main[i + 1]
      /\ Head(main) = main[1] /\ Head(main) \in Block
  BY <1>1, HeadTailProperties, ElementOfSeq
<1>3. DOMAIN main = 1..Len(main) /\ DOMAIN main' = 1..Len(main')
  BY <1>1, <1>2, LenProperties
<1>4. \A i \in DOMAIN main' : i + 1 \in DOMAIN main
  BY <1>1, <1>2, <1>3
<1>5. Queued' \subseteq Queued
  BY <1>2, <1>3, <1>4 DEF Queued, ToSet
<1>6. Head(main) \in Queued
  BY <1>1, <1>2, <1>3 DEF Queued, ToSet
<1>7. Len(main) <= 1 => Len(main') = 0
  BY <1>1, <1>2
<1>8. Len(main) <= 1 => main' = <<>>
  BY <1>7, <1>2, EmptySeq
<1>9. Len(main) <= 1 => Queued' = {}
  BY <1>7, <1>3 DEF Queued, ToSet
<1>10. Len(main) <= 1 => \A i \in DOMAIN main : i = 1
  BY <1>1, <1>3
<1>11. Len(main) <= 1 => Queued = {Head(main)}
  BY <1>10, <1>2, <1>6 DEF Queued, ToSet
<1> QED BY <1>1, <1>2, <1>5, <1>6, <1>8, <1>9, <1>11

\* No block waits exactly when the queue is empty.
LEMMA NoneQueued ==
  ASSUME TypeOK
  PROVE  /\ Queued = {} <=> main = <<>>
         /\ Queued \subseteq Block /\ Len(main) \in Nat
         /\ main = <<>> => Len(main) = 0
<1>1. main \in Seq(Block) /\ Len(main) \in Nat /\ DOMAIN main = 1..Len(main)
  BY LenProperties DEF TypeOK
<1>2. Queued \subseteq Block
  BY <1>1, ElementOfSeq DEF Queued, ToSet
<1>3. main = <<>> => Len(main) = 0
  OBVIOUS
<1>4. main = <<>> => Queued = {}
  BY <1>1, <1>3 DEF Queued, ToSet
<1>5. main # <<>> => 1 \in DOMAIN main
  BY <1>1, EmptySeq
<1>6. main # <<>> => main[1] \in Queued
  BY <1>5 DEF Queued, ToSet
<1> QED BY <1>1, <1>2, <1>3, <1>4, <1>6

-----------------------------------------------------------------------------
(* Steps that move no screen.                                               *)

\* Screens that keep their kinds and their places.
Unmoved ==
    /\ stack' = stack
    /\ screens' \in Seq(ScreenRecord) /\ Len(screens') = Len(screens)
    /\ DOMAIN screens' = DOMAIN screens
    /\ \A s \in DOMAIN screens : screens'[s].kind = screens[s].kind

LEMMA UnmovedKeeps ==
  ASSUME TypeOK, Unmoved
  PROVE  /\ Top' = Top /\ Below' = Below /\ Kind(Top)' = Kind(Top)
         /\ Len(stack) > 1 => Kind(Below)' = Kind(Below)
         /\ \A s \in DOMAIN screens : Kind(s)' = Kind(s)
<1>1. Top' = Top /\ Below' = Below
  BY DEF Unmoved, Top, Below
<1>2. \A s \in DOMAIN screens : Kind(s)' = Kind(s)
  BY DEF Unmoved, Kind
<1>3. Top \in DOMAIN screens /\ (Len(stack) > 1 => Below \in DOMAIN screens)
  BY Places
<1>4. Kind(Top)' = Kind(Top) /\ (Len(stack) > 1 => Kind(Below)' = Kind(Below))
  BY <1>1, <1>2, <1>3 DEF Kind
<1> QED BY <1>1, <1>2, <1>4

\* Nothing that the screens may be waiting for, and nobody's sign-in, changes.
LEMMA QuietStep ==
  ASSUME IndInv, Unmoved, UNCHANGED <<service, main, launches, history, patience, keychain>>,
         alert' \in {"none", "error", "notice"}, prompt' \in BOOLEAN,
         prompt' => prompt /\ alert' = alert,
         crossed \/ ~Waiting \/ alert' = "none",
         haste = 0 => \A s \in DOMAIN screens : screens'[s].text = screens[s].text \/ ~Waiting,
         \A s \in DOMAIN screens : screens'[s].shown \in {screens[s].shown, user}
  PROVE  IndInv'
<1> USE UnmovedKeeps DEF IndInv
<1> USE DEF service, history, patience, Unmoved
<1>0. Queued' = Queued
  BY DEF Queued
<1>1. TypeOK'
  BY DEF TypeOK, ScreenRecord
<1>2. Standing'
  BY <1>0, Places DEF Standing, SignedInOnMain, FormsAsk, Room, BiometryComesFirst, SheetOverForm,
     AnswersFindTheUser, Kind
<1>3. Patient'
  BY <1>0, Places, NoneQueued DEF Patient, OneAtATime, SignedInSinceLaunch, CreatedIsTheUser, Kind, Waiting
<1>4. FormsAreAsSent'
  BY <1>0, Places, NoneQueued DEF FormsAreAsSent, Standing, FormsAsk, Waiting
<1>5. WalletIsTheUsers'
  BY Places DEF WalletIsTheUsers, Kind
<1>6. KeychainWasAccepted' /\ OnlyNewAreEmptied'
  BY DEF KeychainWasAccepted, OnlyNewAreEmptied
<1> QED BY <1>1, <1>2, <1>3, <1>4, <1>5, <1>6


\* A gesture on a form: the user types, or taps, and a tap may send the form.
LEMMA FormStep ==
  ASSUME IndInv, Unmoved, NEW kind \in {"signIn", "signUp"}, Gesture(kind),
         UNCHANGED <<alert, keychain>>,
         \/ crossed' = crossed /\ requests' = requests
         \/ crossed' = (crossed \/ Waiting),
         \/ requests' = requests
         \/ /\ \E k \in {"signIn", "createUser"} :
                   requests' = requests \cup
                       {[kind |-> k, screen |-> Top, text |-> screens[Top].text]}
            /\ screens' = screens,
         \A s \in DOMAIN screens : screens'[s].shown = screens[s].shown
  PROVE  IndInv'
<1> USE UnmovedKeeps DEF IndInv
<1> USE DEF service, history, Unmoved
<1>0. /\ Queued' = Queued
      /\ UNCHANGED <<user, forced, accounts, main, prompt, launches, history>>
      /\ Kind(Top) = kind /\ alert = "none" /\ ~prompt
      /\ \/ ~Waiting /\ UNCHANGED haste
         \/ Waiting /\ haste < MaxHaste /\ haste' = haste + 1
  BY DEF Queued, Gesture, Touch, Kind
<1>1. Top \in DOMAIN screens /\ screens[Top].text \in Text /\ Top \in ScreenId
      /\ Top = stack[Len(stack)]
  <2>1. Top \in DOMAIN screens /\ screens[Top].text \in Text /\ Top = stack[Len(stack)]
    BY Places DEF ScreenRecord
  <2> QED BY <2>1, Numbered DEF Standing
<1>2. /\ requests' \subseteq Request
      /\ \A r \in requests' : r \in requests \/ (r.screen = Top /\ r.text = screens[Top].text)
  <2>1. \A k \in {"signIn", "createUser"} :
            [kind |-> k, screen |-> Top, text |-> screens[Top].text] \in Request
    BY <1>1 DEF Request
  <2>2. requests \subseteq Request
    BY DEF TypeOK
  <2>3. CASE requests' = requests
    BY <2>2, <2>3
  <2>4. CASE \E k \in {"signIn", "createUser"} :
                 requests' = requests \cup
                     {[kind |-> k, screen |-> Top, text |-> screens[Top].text]}
    BY <2>1, <2>2, <2>4
  <2> QED BY <2>3, <2>4
<1>3. haste' \in 0..MaxHaste /\ haste \in 0..MaxHaste
      /\ (haste' = 0 => haste = 0 /\ ~Waiting)
  BY <1>0, BoundAssumption DEF TypeOK
<1>4. crossed' \in BOOLEAN /\ crossed \in BOOLEAN
      /\ (~crossed' => ~crossed /\ (~Waiting \/ requests' = requests))
  BY DEF TypeOK
<1>5. TypeOK'
  BY <1>0, <1>2, <1>3, <1>4 DEF TypeOK, ScreenRecord
<1>6. Standing'
  BY <1>0, <1>1, <1>2, Places DEF Standing, SignedInOnMain, FormsAsk, Room, BiometryComesFirst, SheetOverForm,
     AnswersFindTheUser, Kind
<1>7. Patient'
  <2>1. ~crossed' => OneAtATime'
    BY <1>0, <1>1, <1>2, <1>4, NoneQueued DEF Patient, OneAtATime, Waiting
  <2>2. ~crossed' => SignedInSinceLaunch'
    BY <1>0, <1>4, Places DEF Patient, SignedInSinceLaunch, Kind
  <2>3. ~crossed' => CreatedIsTheUser'
    BY <1>0, <1>4 DEF Patient, CreatedIsTheUser
  <2> QED BY <2>1, <2>2, <2>3 DEF Patient
<1>8. FormsAreAsSent'
  BY <1>0, <1>1, <1>2, <1>3, <1>4, Places, NoneQueued DEF FormsAreAsSent, Waiting
<1>9. WalletIsTheUsers' /\ KeychainWasAccepted' /\ OnlyNewAreEmptied'
  BY <1>0, <1>1, <1>3, <1>4 DEF WalletIsTheUsers, KeychainWasAccepted, OnlyNewAreEmptied, Kind
<1> QED BY <1>5, <1>6, <1>7, <1>8, <1>9

\* What the service or biometry tells of a form comes as a block of the main queue.
LEMMA PostStep ==
  ASSUME IndInv, NEW b \in Block, main' = Append(main, b),
         UNCHANGED <<screens, stack, alert, keychain, launches, emptied, patience>>,
         requests' \subseteq requests, prompt' \in BOOLEAN, prompt' => prompt /\ b.screen # Top,
         b.screen \in DOMAIN screens, Kind(b.screen) # "main",
         accounts' \subseteq User, accepted' \subseteq User, created' \subseteq User,
         accepted \subseteq accepted', created \subseteq created',
         \/ user' = user /\ forced' = forced
         \/ user' \in User /\ forced' = FALSE /\ b.kind \in {"signedIn", "created"},
         b.kind \in {"signedIn", "created"} => user' # Nobody,
         b.kind = "created" => user' \in created',
         haste = 0 /\ b.kind = "signedIn" =>
             screens[b.screen].text = b.text /\ b.text \in accepted',
         ~crossed => requests' = {} /\ main = <<>> /\ b.screen = Top /\ ~prompt'
                     /\ alert = "none"
  PROVE  IndInv'
<1> USE DEF IndInv, patience
<1>0. /\ main' \in Seq(Block) /\ Queued' = Queued \cup {b} /\ main' # <<>>
      /\ Len(main) = 0 => Len(main') = 1
      /\ main = <<>> => Queued = {} /\ Len(main) = 0
  BY Posted, NoneQueued
<1>1. Top' = Top /\ Below' = Below /\ \A s : Kind(s)' = Kind(s)
  BY DEF Top, Below, Kind
<1>2. /\ user' \in User \cup {Nobody} /\ forced' \in BOOLEAN
      /\ user' = Nobody => user = Nobody /\ forced' = forced
  BY NobodyAssumption DEF TypeOK
<1>5. TypeOK'
  BY <1>0, <1>2 DEF TypeOK
<1>6. Standing'
  <2>1. SignedInOnMain' /\ Room' /\ SheetOverForm'
    BY <1>1, <1>2 DEF Standing, SignedInOnMain, Room, SheetOverForm, Kind
  <2>2. FormsAsk' /\ BiometryComesFirst'
    BY <1>0, <1>1 DEF Standing, FormsAsk, BiometryComesFirst
  <2>3. AnswersFindTheUser'
    BY <1>0, <1>1, <1>2 DEF Standing, AnswersFindTheUser
  <2> QED BY <2>1, <2>2, <2>3 DEF Standing
<1>7. Patient'
  <2>1. ~crossed' => OneAtATime'
    BY <1>0, <1>1 DEF Patient, OneAtATime
  <2>2. ~crossed' => SignedInSinceLaunch'
    BY <1>0, <1>1 DEF Patient, SignedInSinceLaunch
  <2>3. ~crossed' => CreatedIsTheUser'
    BY <1>0 DEF Patient, CreatedIsTheUser
  <2> QED BY <2>1, <2>2, <2>3 DEF Patient
<1>8. FormsAreAsSent'
  BY <1>0 DEF FormsAreAsSent
<1>9. WalletIsTheUsers' /\ KeychainWasAccepted' /\ OnlyNewAreEmptied'
  BY <1>1 DEF WalletIsTheUsers, KeychainWasAccepted, OnlyNewAreEmptied, Kind
<1> QED BY <1>5, <1>6, <1>7, <1>8, <1>9


\* A block runs and covers nothing.
LEMMA RunStep ==
  ASSUME IndInv, Unmoved, main # <<>>, main' = Tail(main),
         UNCHANGED <<service, launches, accepted, created, patience, prompt>>,
         alert' \in {"none", "error", "notice"}, prompt => alert' = alert,
         \A s \in DOMAIN screens : screens'[s].shown = screens[s].shown,
         keychain' \in Text, haste = 0 => keychain' \in accepted \cup {"empty"},
         emptied' \subseteq User, ~crossed => emptied' \subseteq created,
         ~crossed => user = Nobody \/ Head(main).kind \notin {"signedIn", "created"}
  PROVE  IndInv'
<1> USE UnmovedKeeps DEF IndInv
<1> USE DEF service, patience, Unmoved
<1>0. /\ main' \in Seq(Block) /\ Queued' \subseteq Queued
      /\ Len(main) <= 1 => main' = <<>> /\ Queued' = {} /\ Queued = {Head(main)}
  BY Ran
<1>1. main' = <<>> => Len(main') = 0
  OBVIOUS
<1>2. ~crossed => requests = {} /\ main' = <<>> /\ Queued' = {} /\ Queued = {Head(main)}
  BY <1>0 DEF Patient, OneAtATime
<1>3. Top \in DOMAIN screens
  BY Places
<1>5. TypeOK'
  BY <1>0 DEF TypeOK, ScreenRecord
<1>6. Standing'
  <2>1. SignedInOnMain' /\ Room' /\ SheetOverForm'
    BY DEF Standing, SignedInOnMain, Room, SheetOverForm, Kind
  <2>2. FormsAsk' /\ BiometryComesFirst'
    BY <1>0 DEF Standing, FormsAsk, BiometryComesFirst
  <2>3. AnswersFindTheUser'
    BY <1>0, Places DEF Standing, AnswersFindTheUser, SheetOverForm
  <2> QED BY <2>1, <2>2, <2>3 DEF Standing
<1>7. Patient'
  <2>1. ~crossed' => OneAtATime'
    BY <1>1, <1>2 DEF Patient, OneAtATime
  <2>2. ~crossed' => SignedInSinceLaunch'
    BY <1>2 DEF Patient, SignedInSinceLaunch
  <2>3. ~crossed' => CreatedIsTheUser'
    BY <1>2 DEF Patient, CreatedIsTheUser
  <2> QED BY <2>1, <2>2, <2>3 DEF Patient
<1>8. FormsAreAsSent'
  BY <1>2 DEF FormsAreAsSent
<1>9. WalletIsTheUsers' /\ KeychainWasAccepted' /\ OnlyNewAreEmptied'
  BY <1>3 DEF WalletIsTheUsers, KeychainWasAccepted, OnlyNewAreEmptied, Kind
<1> QED BY <1>5, <1>6, <1>7, <1>8, <1>9

-----------------------------------------------------------------------------
(* Steps that move a screen.                                                *)

\* A screen is presented.
LEMMA ShowStep ==
  ASSUME IndInv, NEW form \in ScreenRecord, form.shown = Nobody,
         NEW ss \in Seq(ScreenRecord), Len(ss) = Len(screens),
         \A s \in DOMAIN screens : ss[s].kind = screens[s].kind,
         screens' = Append(ss, form), stack' = Append(stack, Len(ss) + 1),
         Len(screens) < MaxScreens \/ (Len(screens) <= MaxScreens /\ form.kind = "main"),
         form.kind = "main" => user' # Nobody \/ forced',
         form.kind = "signUp" => Kind(Top) = "signIn",
         form.kind = "signIn" => user' = Nobody,
         \/ user' = user /\ forced' = forced
         \/ user' = Nobody /\ forced' = FALSE /\ form.kind # "signUp",
         prompt' \in BOOLEAN, prompt' => form.kind = "signIn" /\ alert' = "none",
         alert' \in {"none", "error", "notice"},
         main' \in Seq(Block), Queued' \subseteq Queued, requests' = requests,
         ~crossed' => ~crossed /\ requests = {} /\ main' = <<>> /\ Queued' = {}
                      /\ (form.kind = "signUp" => Queued = {}),
         haste' \in 0..MaxHaste, crossed' \in BOOLEAN, haste' = 0 => ~crossed',
         keychain' \in Text, haste' = 0 => keychain' \in accepted \cup {"empty"},
         emptied' \subseteq User, ~crossed' => emptied' \subseteq created,
         UNCHANGED <<accounts, launches, accepted, created>>
  PROVE  IndInv'
<1> USE DEF IndInv
<1>1. /\ screens' \in Seq(ScreenRecord) /\ Len(screens') = Len(screens) + 1
      /\ DOMAIN screens' = 1..(Len(screens) + 1)
      /\ \A s \in DOMAIN screens : screens'[s] = ss[s]
      /\ screens'[Len(screens) + 1] = form
      /\ stack' \in Seq(DOMAIN screens') /\ stack' # <<>> /\ IsInjective(stack')
      /\ Top' = Len(screens) + 1 /\ Len(stack') = Len(stack) + 1 /\ Below' = Top
  BY Shown
<1>2. /\ Len(screens) \in Nat /\ DOMAIN screens = 1..Len(screens)
      /\ Top \in DOMAIN screens /\ Len(stack) \in Nat \ {0}
  BY Places
<1>3. /\ \A s \in DOMAIN screens : s \in DOMAIN screens' /\ s # Top' /\ Kind(s)' = Kind(s)
      /\ Kind(Top)' = form.kind
  BY <1>1, <1>2 DEF Kind
<1>4. Kind(Below)' = Kind(Top)
  BY <1>1, <1>2, <1>3 DEF Kind
<1>a. Len(stack') > 1 /\ (Len(stack) = 1 => Len(stack') = 2)
  <2>1. \A n \in Nat \ {0} : n + 1 > 1 /\ (n = 1 => n + 1 = 2)
    OBVIOUS
  <2> QED BY <2>1, <1>1, <1>2
<1>b. main' = <<>> => Len(main') <= 1
  <2>1. main' = <<>> => Len(main') = 0
    OBVIOUS
  <2> QED BY <2>1
<1>c. /\ user' \in User \cup {Nobody} /\ forced' \in BOOLEAN
      /\ form.kind = "signUp" => user' = user /\ forced' = forced
  BY DEF TypeOK
<1>d. form.kind \in {"signIn", "signUp", "main"}
  BY DEF ScreenRecord
<1>5. TypeOK'
  <2>1. screens' \in Seq([kind : {"signIn", "signUp", "main"}, text : Text,
                          shown : User \cup {Nobody}])
    BY <1>1 DEF ScreenRecord
  <2> QED BY <2>1, <1>1, <1>c DEF TypeOK
<1>6. Standing'
  <2>1. SignedInOnMain'
    BY <1>3 DEF SignedInOnMain, Kind
  <2>2. FormsAsk'
    BY <1>3 DEF Standing, FormsAsk
  <2>3. Room'
    BY <1>1, <1>2, <1>3, BoundAssumption DEF Room, Kind
  <2>4. BiometryComesFirst'
    BY <1>3 DEF Standing, FormsAsk, BiometryComesFirst, Kind
  <2>5. SheetOverForm'
    BY <1>3, <1>4, <1>a DEF SheetOverForm, Kind
  <2>6. AnswersFindTheUser'
    <3>1. SUFFICES ASSUME user' = Nobody, ~forced', NEW b \in Queued', b.kind \in {"signedIn", "created"}
                   PROVE  b.screen # Top' /\ (Kind(Top)' = "signUp" => b.screen # Below')
      BY DEF AnswersFindTheUser, Kind
    <3>2. b \in Queued /\ b.screen \in DOMAIN screens
      BY DEF Standing, FormsAsk
    <3>3. b.screen # Top'
      BY <3>2, <1>3
    <3>4. form.kind = "signUp" => b.screen # Top
      BY <3>1, <3>2, <1>c DEF Standing, AnswersFindTheUser
    <3> QED BY <3>3, <3>4, <1>1, <1>3
  <2> QED BY <2>1, <2>2, <2>3, <2>4, <2>5, <2>6 DEF Standing
<1>7. Patient'
  <2>1. ~crossed' => OneAtATime'
    BY <1>b DEF OneAtATime
  <2>2. ~crossed' => SignedInSinceLaunch'
    <3>1. SUFFICES ASSUME ~crossed', user' # Nobody
                   PROVE  Kind(Top)' = "main" \/ (Len(stack') = 2 /\ Kind(Top)' = "signUp")
      BY DEF SignedInSinceLaunch, Kind
    <3>2. CASE form.kind = "signUp"
      <4>1. Len(stack) = 1
        BY <3>1, <3>2, <1>c DEF Patient, SignedInSinceLaunch
      <4> QED BY <4>1, <3>2, <1>3, <1>a
    <3>3. CASE form.kind = "main"
      BY <3>3, <1>3
    <3> QED BY <3>1, <3>2, <3>3, <1>d
  <2>3. ~crossed' => CreatedIsTheUser'
    BY DEF CreatedIsTheUser
  <2> QED BY <2>1, <2>2, <2>3 DEF Patient
<1>8. FormsAreAsSent'
  BY DEF FormsAreAsSent
<1>9. WalletIsTheUsers'
  BY <1>1 DEF WalletIsTheUsers
<1>10. KeychainWasAccepted' /\ OnlyNewAreEmptied'
  BY DEF KeychainWasAccepted, OnlyNewAreEmptied
<1> QED BY <1>5, <1>6, <1>7, <1>8, <1>9, <1>10

\* The sign-up form is swiped away.
LEMMA SwipeStep ==
  ASSUME IndInv, SwipeSignUp
  PROVE  IndInv'
<1> USE DEF IndInv, SwipeSignUp, Tap, Gesture, Touch, history
<1>1. /\ Len(stack) \in Nat \ {0} /\ DOMAIN stack = 1..Len(stack)
      /\ Top = stack[Len(stack)] /\ Len(stack) > 1 /\ Kind(Below) = "signIn"
  BY Places DEF Standing, SheetOverForm, Kind
<1>2. stack' = SubSeq(stack, 1, Len(stack) - 1)
  BY DEF Front
<1>3. /\ stack' \in Seq(DOMAIN screens) /\ Len(stack') = Len(stack) - 1
      /\ \A i \in 1..(Len(stack) - 1) : stack'[i] = stack[i]
  <2>1. stack \in Seq(DOMAIN screens) /\ 1 \in 1..(Len(stack) + 1)
        /\ Len(stack) - 1 \in 0..Len(stack)
    BY <1>1 DEF TypeOK
  <2> QED BY <2>1, <1>1, <1>2, SubSeqProperties
<1>4. stack' # <<>> /\ Top' = Below
  <2>1. Len(stack) - 1 \in 1..(Len(stack) - 1)
    BY <1>1
  <2>2. Len(stack') # 0
    BY <1>1, <1>3
  <2> QED BY <2>1, <2>2, <1>3, EmptySeq DEF Top, Last, Below
<1>5. IsInjective(stack')
  <2>1. DOMAIN stack' = 1..(Len(stack) - 1) /\ \A i \in DOMAIN stack' : i \in DOMAIN stack
    BY <1>1, <1>3, LenProperties
  <2>2. IsInjective(stack)
    BY DEF TypeOK
  <2> QED BY <2>1, <2>2, <1>3 DEF IsInjective
<1>6. Queued' = Queued /\ (\A s : Kind(s)' = Kind(s)) /\ Kind(Top)' = "signIn"
  BY <1>1, <1>4 DEF Queued, Kind
<1>7. haste' \in 0..MaxHaste /\ crossed' \in BOOLEAN
      /\ (haste' = 0 => haste = 0 /\ ~Waiting) /\ (~crossed' => ~crossed /\ ~Waiting)
  <2>1. haste' \in 0..MaxHaste /\ (haste' = 0 => haste = 0 /\ ~Waiting)
    <3>1. haste \in 0..MaxHaste /\ MaxHaste \in Nat
      BY BoundAssumption DEF TypeOK
    <3> QED BY <3>1
  <2>2. crossed \in BOOLEAN /\ crossed' = (crossed \/ Waiting)
    BY DEF TypeOK
  <2> QED BY <2>1, <2>2
<1>8. Waiting <=> requests # {} \/ Queued # {}
  <2>1. Queued = {} <=> main = <<>>
    BY NoneQueued
  <2> QED BY <2>1 DEF Waiting
<1>9. TypeOK'
  BY <1>3, <1>4, <1>5, <1>7 DEF TypeOK
<1>10. Standing'
  <2>1. Kind(Top) = "signUp"
    BY DEF Kind
  <2>2. SignedInOnMain' /\ Room' /\ SheetOverForm' /\ FormsAsk' /\ BiometryComesFirst'
    BY <1>6, <2>1 DEF Standing, SignedInOnMain, Room, SheetOverForm, FormsAsk, BiometryComesFirst, Kind
  <2>3. AnswersFindTheUser'
    BY <1>4, <1>6, <2>1 DEF Standing, AnswersFindTheUser
  <2> QED BY <2>2, <2>3 DEF Standing
<1>11. Patient'
  <2>1. ~crossed' => OneAtATime'
    BY <1>6, <1>7, <1>8 DEF Patient, OneAtATime
  <2>2. ~crossed' => SignedInSinceLaunch'
    <3>1. Kind(Top) = "signUp"
      BY DEF Kind
    <3>2. ~crossed' /\ user # Nobody => Len(stack) = 2
      BY <3>1, <1>1, <1>7, <1>8 DEF Patient, SignedInSinceLaunch
    <3>3. Len(stack) = 2 => Len(stack') = 1
      BY <1>3
    <3> QED BY <3>2, <3>3 DEF SignedInSinceLaunch
  <2>3. ~crossed' => CreatedIsTheUser'
    BY <1>6, <1>7 DEF Patient, CreatedIsTheUser
  <2> QED BY <2>1, <2>2, <2>3 DEF Patient
<1>12. FormsAreAsSent'
  BY <1>6, <1>7, <1>8 DEF FormsAreAsSent
<1>13. WalletIsTheUsers'
  BY <1>6 DEF WalletIsTheUsers, Kind
<1>14. KeychainWasAccepted' /\ OnlyNewAreEmptied'
  BY <1>7 DEF KeychainWasAccepted, OnlyNewAreEmptied
<1> QED BY <1>9, <1>10, <1>11, <1>12, <1>13, <1>14


\* The process ends: what is left is a user, the accounts and the keychain.
LEMMA RelaunchStep ==
  ASSUME IndInv, Relaunch
  PROVE  IndInv'
<1> USE DEF IndInv, history, patience
<1>1. /\ screens' = <<Form("signIn", "empty")>> /\ stack' = <<1>>
      /\ requests' = {} /\ main' = <<>>
      /\ forced' = FALSE
      /\ UNCHANGED <<user, keychain, accepted, created, emptied, haste, crossed>>
      /\ launches < MaxLaunches /\ launches' = launches + 1
  BY DEF Relaunch
<1>2. Form("signIn", "empty") \in ScreenRecord
  BY DEF Form, ScreenRecord, Text
<1>3. /\ screens' \in Seq(ScreenRecord) /\ Len(screens') = 1 /\ DOMAIN screens' = {1}
      /\ screens'[1] = Form("signIn", "empty")
  BY <1>1, <1>2
<1>4. /\ stack' \in Seq({1}) /\ stack' # <<>> /\ IsInjective(stack')
      /\ Len(stack') = 1 /\ stack'[1] = 1
  BY <1>1 DEF IsInjective
<1>5. Top' = 1 /\ Kind(Top)' = "signIn" /\ screens'[Top'].shown = Nobody
  BY <1>3, <1>4 DEF Top, Last, Kind, Form
<1>6. Queued' = {}
  <2>1. DOMAIN main' = {}
    BY <1>1
  <2> QED BY <2>1 DEF Queued, ToSet
<1>7. main' \in Seq(Block) /\ Len(main') <= 1
  <2>1. Len(main') = 0
    BY <1>1
  <2> QED BY <2>1, <1>1
<1>8. prompt' \in BOOLEAN /\ alert' \in {"none", "error", "notice"}
      /\ (prompt' => alert' = "none")
  BY DEF Relaunch, AskForBiometry
<1>9. accounts' \subseteq User
  BY DEF Relaunch, TypeOK
<1>10. launches' \in 0..MaxLaunches
  <2>1. launches \in 0..MaxLaunches /\ MaxLaunches \in Nat
    BY BoundAssumption DEF TypeOK
  <2> QED BY <2>1, <1>1
<1>11. TypeOK'
  <2>1. screens' \in Seq([kind : {"signIn", "signUp", "main"}, text : Text,
                          shown : User \cup {Nobody}])
    BY <1>3 DEF ScreenRecord
  <2>2. stack' \in Seq(DOMAIN screens')
    BY <1>3, <1>4
  <2> QED BY <2>1, <2>2, <1>1, <1>4, <1>7, <1>8, <1>9, <1>10 DEF TypeOK
<1>12. Standing'
  <2>1. Room'
    BY <1>3, BoundAssumption DEF Room
  <2> QED BY <2>1, <1>1, <1>5, <1>6, <1>8 DEF Standing, SignedInOnMain, FormsAsk,
          BiometryComesFirst, SheetOverForm, AnswersFindTheUser, Kind
<1>13. Patient'
  BY <1>1, <1>4, <1>6, <1>7 DEF Patient, OneAtATime, SignedInSinceLaunch, CreatedIsTheUser
<1>14. FormsAreAsSent'
  BY <1>1, <1>6 DEF FormsAreAsSent
<1>15. WalletIsTheUsers' /\ KeychainWasAccepted' /\ OnlyNewAreEmptied'
  BY <1>1, <1>5 DEF WalletIsTheUsers, KeychainWasAccepted, OnlyNewAreEmptied
<1> QED BY <1>11, <1>12, <1>13, <1>14, <1>15

-----------------------------------------------------------------------------
(* Every step.                                                              *)

LEMMA InitHolds == Init => IndInv
<1> SUFFICES ASSUME Init PROVE IndInv
  OBVIOUS
<1> USE DEF Init
<1>2. Form("signIn", "empty") \in ScreenRecord
  BY DEF Form, ScreenRecord, Text
<1>3. /\ screens \in Seq(ScreenRecord) /\ Len(screens) = 1 /\ DOMAIN screens = {1}
      /\ screens[1] = Form("signIn", "empty")
  BY <1>2
<1>4. /\ stack \in Seq({1}) /\ stack # <<>> /\ IsInjective(stack)
      /\ Len(stack) = 1 /\ stack[1] = 1
  BY DEF IsInjective
<1>5. Top = 1 /\ Kind(Top) = "signIn" /\ screens[Top].shown = Nobody
  BY <1>3, <1>4 DEF Top, Last, Kind, Form
<1>6. Queued = {}
  <2>1. DOMAIN main = {}
    OBVIOUS
  <2> QED BY <2>1 DEF Queued, ToSet
<1>7. main \in Seq(Block) /\ Len(main) <= 1
  <2>1. Len(main) = 0
    OBVIOUS
  <2> QED BY <2>1
<1>11. TypeOK
  <2>1. screens \in Seq([kind : {"signIn", "signUp", "main"}, text : Text,
                          shown : User \cup {Nobody}])
    BY <1>3 DEF ScreenRecord
  <2>2. stack \in Seq(DOMAIN screens)
    BY <1>3, <1>4
  <2>3. 0 \in 0..MaxHaste /\ 0 \in 0..MaxLaunches
    BY BoundAssumption
  <2> QED BY <2>1, <2>2, <2>3, <1>4, <1>7 DEF TypeOK, Text
<1>12. Standing
  <2>1. Room
    BY <1>3, BoundAssumption DEF Room
  <2> QED BY <2>1, <1>5, <1>6 DEF Standing, SignedInOnMain, FormsAsk,
          BiometryComesFirst, SheetOverForm, AnswersFindTheUser, Kind
<1>13. Patient
  BY <1>4, <1>6, <1>7 DEF Patient, OneAtATime, SignedInSinceLaunch, CreatedIsTheUser
<1>14. FormsAreAsSent
  BY <1>6 DEF FormsAreAsSent
<1>15. WalletIsTheUsers /\ KeychainWasAccepted /\ OnlyNewAreEmptied
  BY <1>5 DEF WalletIsTheUsers, KeychainWasAccepted, OnlyNewAreEmptied
<1> QED BY <1>11, <1>12, <1>13, <1>14, <1>15 DEF IndInv

\* A form that is touched is typed into, or tapped.
LEMMA FormGestures ==
  ASSUME IndInv, Type \/ TapLogIn \/ TapSignUp
  PROVE  IndInv'
<1> USE DEF IndInv
<1>1. /\ screens \in Seq(ScreenRecord) /\ Top \in DOMAIN screens
      /\ DOMAIN screens = 1..Len(screens)
  BY Places
<1>2. ASSUME NEW text \in Text, stack' = stack, Fill(Top, text)
      PROVE  Unmoved /\ \A s \in DOMAIN screens : screens'[s].shown = screens[s].shown
  BY <1>1, <1>2, Filled DEF Fill, Unmoved
<1>3. ASSUME stack' = stack, screens' = screens
      PROVE  Unmoved /\ \A s \in DOMAIN screens : screens'[s].shown = screens[s].shown
  BY <1>1, <1>3 DEF Unmoved
<1>4. "empty" \in Text
  BY DEF Text
<1>5. CASE Type
  <2>1. PICK text \in Text, kind \in {"signIn", "signUp"} :
            /\ Gesture(kind) /\ Fill(Top, text)
            /\ UNCHANGED <<requests, stack, alert, keychain, crossed>>
    BY <1>5 DEF Type
  <2> QED BY <2>1, <1>2, FormStep
<1>6. ASSUME NEW kind \in {"signIn", "signUp"}, NEW k \in {"signIn", "createUser"}, Tap(kind),
             Ask(k) \/ (Fill(Top, "empty") /\ UNCHANGED requests),
             UNCHANGED <<stack, alert, keychain>>
      PROVE  IndInv'
  <2>1. Gesture(kind) /\ crossed' = (crossed \/ Waiting)
    BY <1>6 DEF Tap
  <2>2. CASE Ask(k)
    <3>1. /\ requests' = requests \cup
                 {[kind |-> k, screen |-> Top, text |-> screens[Top].text]}
          /\ screens' = screens
      BY <2>2 DEF Ask
    <3> QED BY <3>1, <2>1, <1>3, <1>6, FormStep
  <2>3. CASE Fill(Top, "empty") /\ UNCHANGED requests
    BY <2>1, <2>3, <1>2, <1>4, <1>6, FormStep
  <2> QED BY <1>6, <2>2, <2>3
<1>7. CASE TapLogIn
  BY <1>6, <1>7 DEF TapLogIn
<1>8. CASE TapSignUp
  BY <1>6, <1>8 DEF TapSignUp
<1> QED BY <1>5, <1>7, <1>8

\* An alert is dismissed, the wallet looked at, a sign-out fails.
LEMMA QuietGestures ==
  ASSUME IndInv, DismissAlert \/ OpenWallet \/ SignOutFails
  PROVE  IndInv'
<1> USE DEF IndInv
<1>1. /\ screens \in Seq(ScreenRecord) /\ Top \in DOMAIN screens
      /\ DOMAIN screens = 1..Len(screens) /\ Len(screens) \in Nat
  BY Places
<1>2. prompt \in BOOLEAN /\ alert \in {"none", "error", "notice"}
      /\ user \in User \cup {Nobody}
  BY DEF TypeOK
<1>3. haste = 0 => ~crossed
  BY DEF FormsAreAsSent
<1>4. CASE DismissAlert
  <2>1. /\ alert # "none" /\ alert' = "none"
        /\ UNCHANGED <<service, main, stack, prompt, keychain, launches, history, patience>>
        /\ Fill(Top, "empty") \/ UNCHANGED screens
    BY <1>4 DEF DismissAlert
  <2>2. ~crossed => ~Waiting
    BY <2>1 DEF Patient, OneAtATime, Waiting
  <2>3. ~prompt
    BY <2>1 DEF Standing, BiometryComesFirst
  <2>4. Unmoved /\ \A s \in DOMAIN screens : screens'[s].shown = screens[s].shown
    <3>1. "empty" \in Text
      BY DEF Text
    <3>2. CASE Fill(Top, "empty")
      BY <3>1, <3>2, <2>1, <1>1, Filled DEF Fill, Unmoved
    <3>3. CASE UNCHANGED screens
      BY <3>3, <2>1, <1>1 DEF Unmoved
    <3> QED BY <2>1, <3>2, <3>3
  <2> QED BY <2>1, <2>2, <2>3, <2>4, <1>2, <1>3, QuietStep
<1>5. CASE OpenWallet
  <2>1. /\ alert = "none" /\ ~prompt
        /\ screens' = [screens EXCEPT ![Top].shown = user]
        /\ UNCHANGED <<service, main, stack, alert, prompt, keychain, launches, history, patience>>
    BY <1>5 DEF OpenWallet, Touch
  <2> DEFINE looked == [screens[Top] EXCEPT !.shown = user]
  <2>2. /\ looked \in ScreenRecord /\ looked.text = screens[Top].text
        /\ looked.kind = screens[Top].kind /\ looked.shown = user
    <3>1. screens[Top] \in ScreenRecord
      BY Places
    <3> QED BY <3>1, <1>2 DEF ScreenRecord
  <2>3. screens' = [screens EXCEPT ![Top] = looked]
    BY <2>1
  <2>4. /\ screens' \in Seq(ScreenRecord) /\ Len(screens') = Len(screens)
        /\ DOMAIN screens' = DOMAIN screens /\ screens'[Top] = looked
        /\ \A s \in DOMAIN screens : s # Top => screens'[s] = screens[s]
    BY <2>2, <2>3, <1>1, ExceptSeq, LenProperties
  <2> HIDE DEF looked
  <2>5. \A s \in DOMAIN screens :
            /\ screens'[s].kind = screens[s].kind /\ screens'[s].text = screens[s].text
            /\ screens'[s].shown \in {screens[s].shown, user}
    BY <2>2, <2>4
  <2>6. Unmoved
    BY <2>1, <2>4, <2>5 DEF Unmoved
  <2> QED BY <2>1, <2>5, <2>6, <1>2, QuietStep
<1>6. CASE SignOutFails
  <2>1. /\ Kind(Top) = "main" /\ ~prompt /\ alert' = "notice"
        /\ UNCHANGED <<service, main, screens, stack, prompt, keychain, launches, history, patience>>
    BY <1>6 DEF SignOutFails, Touch, Kind
  <2>2. ~crossed => ~Waiting
    <3>1. \A x \in requests \cup Queued : x.screen = Top => Kind(Top) # "main"
      BY DEF Standing, FormsAsk
    <3>2. ~crossed => requests \cup Queued = {}
      BY <3>1, <2>1 DEF Patient, OneAtATime
    <3>3. Queued = {} <=> main = <<>>
      BY NoneQueued
    <3> QED BY <3>2, <3>3 DEF Waiting
  <2>3. Unmoved
    BY <2>1, <1>1 DEF Unmoved
  <2> QED BY <2>1, <2>2, <2>3, <1>2, QuietStep
<1> QED BY <1>4, <1>5, <1>6


\* The sign-up form is opened over a form that is cleared.
LEMMA OpenSignUpStep ==
  ASSUME IndInv, OpenSignUp
  PROVE  IndInv'
<1> USE DEF IndInv
<1> DEFINE ss == [screens EXCEPT ![Top].text = "empty"]
           form == Form("signUp", "empty")
<1>1. /\ screens \in Seq(ScreenRecord) /\ Top \in DOMAIN screens
      /\ DOMAIN screens = 1..Len(screens) /\ Len(screens) \in Nat
  BY Places
<1>2. "empty" \in Text
  BY DEF Text
<1>3. /\ ss \in Seq(ScreenRecord) /\ Len(ss) = Len(screens)
      /\ \A s \in DOMAIN screens : ss[s].kind = screens[s].kind
  BY <1>1, <1>2, Filled
<1>4. form \in ScreenRecord /\ form.shown = Nobody /\ form.kind = "signUp"
  BY <1>2 DEF Form, ScreenRecord
<1> HIDE DEF ss
<1>5. /\ screens' = Append(ss, form) /\ stack' = Append(stack, Len(ss) + 1)
      /\ UNCHANGED <<prompt, alert, requests, keychain>>
      /\ Len(screens) < MaxScreens /\ Gesture("signIn") /\ crossed' = (crossed \/ Waiting)
  BY <1>4 DEF OpenSignUp, Show, Tap, ss
<1> HIDE DEF form
<1>6. /\ UNCHANGED <<user, forced, accounts, main, launches, accepted, created, emptied>>
      /\ Kind(Top) = "signIn" /\ ~prompt /\ alert = "none"
      /\ \/ ~Waiting /\ UNCHANGED haste
         \/ Waiting /\ haste < MaxHaste /\ haste' = haste + 1
  BY <1>5 DEF Gesture, Touch, Kind, history
<1>7. haste' \in 0..MaxHaste /\ (haste' = 0 => haste = 0 /\ ~Waiting)
  <2>1. haste \in 0..MaxHaste /\ MaxHaste \in Nat
    BY BoundAssumption DEF TypeOK
  <2> QED BY <2>1, <1>6
<1>8. crossed' \in BOOLEAN /\ (~crossed' => ~crossed /\ ~Waiting)
      /\ (haste' = 0 => ~crossed')
  BY <1>5, <1>7 DEF TypeOK, FormsAreAsSent, Waiting
<1>9. Queued' = Queued /\ (~Waiting => requests = {} /\ main = <<>> /\ Queued = {})
  <2>1. Queued = {} <=> main = <<>>
    BY NoneQueued
  <2> QED BY <2>1, <1>6 DEF Waiting, Queued
<1>10. /\ main' \in Seq(Block) /\ keychain' \in Text /\ emptied' \subseteq User
       /\ prompt' \in BOOLEAN /\ alert' \in {"none", "error", "notice"}
  BY <1>5, <1>6 DEF TypeOK
<1>11. /\ haste' = 0 => keychain' \in accepted \cup {"empty"}
       /\ ~crossed' => emptied' \subseteq created
  BY <1>5, <1>6, <1>7, <1>8 DEF KeychainWasAccepted, OnlyNewAreEmptied
<1> QED BY <1>3, <1>4, <1>5, <1>6, <1>7, <1>8, <1>9, <1>10, <1>11, ShowStep

\* Nothing is under way below a main screen, for the user who waits.
LEMMA MainIsQuiet ==
  ASSUME IndInv, Kind(Top) = "main", ~crossed
  PROVE  requests = {} /\ main = <<>> /\ Queued = {}
<1> USE DEF IndInv
<1>1. \A x \in requests \cup Queued : x.screen = Top => Kind(Top) # "main"
  BY DEF Standing, FormsAsk
<1>2. requests \cup Queued = {}
  BY <1>1 DEF Patient, OneAtATime
<1>3. Queued = {} <=> main = <<>>
  BY NoneQueued
<1> QED BY <1>2, <1>3

LEMMA SignOutStep ==
  ASSUME IndInv, SignOut
  PROVE  IndInv'
<1> USE DEF IndInv
<1> DEFINE form == Form("signIn", "empty")
<1>1. form \in ScreenRecord /\ form.shown = Nobody /\ form.kind = "signIn"
  BY DEF Form, ScreenRecord, Text
<1>2. /\ screens' = Append(screens, form) /\ stack' = Append(stack, Len(screens) + 1)
      /\ prompt' \in BOOLEAN /\ alert' \in {"none", "error", "notice"}
      /\ prompt' => alert' = "none"
      /\ user' = Nobody /\ forced' = FALSE /\ Kind(Top) = "main" /\ Len(screens) < MaxScreens
      /\ UNCHANGED <<accounts, requests, main, keychain, launches, history, patience>>
  BY <1>1 DEF SignOut, Show, AskForBiometry, Touch, Kind
<1> HIDE DEF form
<1>3. screens \in Seq(ScreenRecord)
  BY Places
<1>4. Queued' = Queued /\ (~crossed => requests = {} /\ main = <<>> /\ Queued = {})
  BY <1>2, MainIsQuiet DEF Queued
<1>5. /\ main \in Seq(Block) /\ keychain \in Text /\ emptied \subseteq User
      /\ haste \in 0..MaxHaste /\ crossed \in BOOLEAN
  BY DEF TypeOK
<1>6. /\ haste = 0 => ~crossed
      /\ haste = 0 => keychain \in accepted \cup {"empty"}
      /\ ~crossed => emptied \subseteq created
  BY DEF FormsAreAsSent, KeychainWasAccepted, OnlyNewAreEmptied
<1>7. UNCHANGED <<accepted, created, emptied, haste, crossed>>
  BY <1>2 DEF history, patience
<1> QED BY <1>1, <1>2, <1>3, <1>4, <1>5, <1>6, <1>7, ShowStep

\* The service answers.
LEMMA ServiceStep ==
  ASSUME IndInv, Service
  PROVE  IndInv'
<1> USE DEF IndInv
<1>1. \A r \in requests :
          /\ r \in Request /\ r.screen \in DOMAIN screens /\ Kind(r.screen) # "main"
          /\ prompt => r.screen # Top
          /\ ~crossed => /\ requests \ {r} = {} /\ main = <<>> /\ r.screen = Top
                         /\ ~prompt /\ alert = "none"
          /\ haste = 0 => screens[r.screen].text = r.text
  <2>1. requests \subseteq Request
    BY DEF TypeOK
  <2> QED BY <2>1 DEF Standing, FormsAsk, BiometryComesFirst, Patient, OneAtATime, FormsAreAsSent
<1>2. /\ user \in User \cup {Nobody} /\ accounts \subseteq User /\ accepted \subseteq User
      /\ created \subseteq User /\ prompt \in BOOLEAN
  BY DEF TypeOK
<1>3. ASSUME NEW r \in requests, Answer(r),
             NEW k \in {"signedIn", "refused", "created", "notCreated"}, Post(k, r)
      PROVE  LET b == [kind |-> k, screen |-> r.screen, text |-> r.text]
             IN  /\ b \in Block /\ main' = Append(main, b)
                 /\ b.kind = k /\ b.screen = r.screen /\ b.text = r.text
                 /\ requests' = requests \ {r}
                 /\ UNCHANGED <<screens, stack, alert, prompt, keychain, launches, emptied,
                                patience>>
  <2>1. r \in Request
    BY <1>1
  <2> QED BY <1>3, <2>1 DEF Answer, Post, Block, Request
<1>4. CASE AcceptSignIn
  <2>1. PICK r \in requests :
            /\ r.text \in accounts /\ Answer(r) /\ Post("signedIn", r)
            /\ user' = r.text /\ forced' = FALSE /\ accepted' = accepted \cup {r.text}
            /\ UNCHANGED <<accounts, created>>
    BY <1>4 DEF AcceptSignIn
  <2> DEFINE b == [kind |-> "signedIn", screen |-> r.screen, text |-> r.text]
  <2>2. /\ b \in Block /\ main' = Append(main, b)
        /\ b.kind = "signedIn" /\ b.screen = r.screen /\ b.text = r.text
        /\ requests' = requests \ {r}
        /\ UNCHANGED <<screens, stack, alert, prompt, keychain, launches, emptied, patience>>
    BY <2>1, <1>3
  <2> HIDE DEF b
  <2>3. user' \in User /\ user' # Nobody
    BY <2>1, <1>2, NobodyAssumption
  <2> QED BY <2>1, <2>2, <2>3, <1>1, <1>2, PostStep
<1>5. CASE AcceptCreateUser
  <2>1. PICK r \in requests :
            /\ r.text \in User \ accounts /\ Answer(r) /\ Post("created", r)
            /\ user' = r.text /\ forced' = FALSE /\ accounts' = accounts \cup {r.text}
            /\ created' = created \cup {r.text} /\ UNCHANGED accepted
    BY <1>5 DEF AcceptCreateUser
  <2> DEFINE b == [kind |-> "created", screen |-> r.screen, text |-> r.text]
  <2>2. /\ b \in Block /\ main' = Append(main, b)
        /\ b.kind = "created" /\ b.screen = r.screen /\ b.text = r.text
        /\ requests' = requests \ {r}
        /\ UNCHANGED <<screens, stack, alert, prompt, keychain, launches, emptied, patience>>
    BY <2>1, <1>3
  <2> HIDE DEF b
  <2>3. user' \in User /\ user' # Nobody
    BY <2>1, NobodyAssumption
  <2> QED BY <2>1, <2>2, <2>3, <1>1, <1>2, PostStep
<1>6. CASE Refuse
  <2>1. PICK r \in requests :
            /\ Answer(r)
            /\ Post("refused", r) \/ Post("notCreated", r)
            /\ accounts' \subseteq accounts \cup User
            /\ UNCHANGED <<user, forced, accepted, created>>
    BY <1>6 DEF Refuse
  <2>2. ASSUME NEW k \in {"refused", "notCreated"}, Post(k, r)
        PROVE  IndInv'
    <3> DEFINE b == [kind |-> k, screen |-> r.screen, text |-> r.text]
    <3>1. /\ b \in Block /\ main' = Append(main, b)
          /\ b.kind = k /\ b.screen = r.screen /\ b.text = r.text
          /\ requests' = requests \ {r}
          /\ UNCHANGED <<screens, stack, alert, prompt, keychain, launches, emptied, patience>>
      BY <2>1, <2>2, <1>3
    <3> HIDE DEF b
    <3>2. b.kind \notin {"signedIn", "created"} /\ b.kind # "signedIn" /\ b.kind # "created"
      BY <2>2, <3>1
    <3> QED BY <2>1, <3>1, <3>2, <1>1, <1>2, PostStep
  <2> QED BY <2>1, <2>2
<1> QED BY <1>4, <1>5, <1>6 DEF Service

\* FIRAuth takes the user off, whatever is under way and on display.
LEMMA SignOutByForceStep ==
  ASSUME IndInv, SignOutByForce
  PROVE  IndInv'
<1> USE DEF IndInv
<1>1. /\ user' = Nobody /\ forced' = TRUE
      /\ UNCHANGED <<accounts, requests, main, screens, stack, alert, prompt, keychain,
                     launches, history, patience>>
  BY DEF SignOutByForce
<1>2. /\ Queued' = Queued /\ Top' = Top /\ Below' = Below /\ \A s : Kind(s)' = Kind(s)
      /\ UNCHANGED <<accepted, created, emptied, haste, crossed>>
  BY <1>1 DEF Queued, Top, Below, Kind, history, patience
<1>3. TypeOK'
  BY <1>1, <1>2 DEF TypeOK
<1>4. Standing'
  <2>1. SignedInOnMain' /\ AnswersFindTheUser'
    BY <1>1 DEF SignedInOnMain, AnswersFindTheUser
  <2>2. FormsAsk' /\ Room' /\ BiometryComesFirst' /\ SheetOverForm'
    BY <1>1, <1>2 DEF Standing, FormsAsk, Room, BiometryComesFirst, SheetOverForm
  <2> QED BY <2>1, <2>2 DEF Standing
<1>5. Patient'
  <2>1. ~crossed' => OneAtATime'
    BY <1>1, <1>2 DEF Patient, OneAtATime
  <2>2. SignedInSinceLaunch' /\ CreatedIsTheUser'
    BY <1>1 DEF SignedInSinceLaunch, CreatedIsTheUser
  <2> QED BY <2>1, <2>2 DEF Patient
<1>6. FormsAreAsSent' /\ KeychainWasAccepted' /\ OnlyNewAreEmptied'
  BY <1>1, <1>2 DEF FormsAreAsSent, KeychainWasAccepted, OnlyNewAreEmptied
<1>7. WalletIsTheUsers'
  BY <1>1 DEF WalletIsTheUsers
<1> QED BY <1>3, <1>4, <1>5, <1>6, <1>7

LEMMA EndBiometryStep ==
  ASSUME IndInv, EndBiometry
  PROVE  IndInv'
<1> USE DEF IndInv
<1>1. /\ prompt /\ prompt' = FALSE
      /\ UNCHANGED <<service, screens, stack, alert, keychain, launches, history, patience>>
  BY DEF EndBiometry
<1>2. Kind(Top) = "signIn" /\ alert = "none"
  BY <1>1 DEF Standing, BiometryComesFirst
<1>3. ~crossed => requests = {} /\ main = <<>>
  BY <1>1 DEF Patient, OneAtATime
<1>4. CASE UNCHANGED main
  <2>1. Unmoved
    BY <1>1, Places DEF Unmoved
  <2> QED BY <1>1, <1>2, <1>4, <2>1, QuietStep
<1>5. CASE Post("unlocked", [screen |-> Top, text |-> "empty"])
  <2> DEFINE b == [kind |-> "unlocked", screen |-> Top, text |-> "empty"]
  <2>1. Top \in DOMAIN screens /\ Top \in ScreenId
    BY Places, Numbered DEF Standing
  <2>2. /\ b \in Block /\ main' = Append(main, b)
        /\ b.kind = "unlocked" /\ b.screen = Top
    BY <1>5, <2>1 DEF Post, Block, Text
  <2> HIDE DEF b
  <2>3. /\ user \in User \cup {Nobody} /\ accounts \subseteq User /\ accepted \subseteq User
        /\ created \subseteq User
    BY DEF TypeOK
  <2>4. UNCHANGED <<user, forced, accounts, requests, accepted, created, emptied>>
    BY <1>1 DEF service, history
  <2>5. b.kind \notin {"signedIn", "created"} /\ b.kind # "signedIn" /\ b.kind # "created"
    BY <2>2
  <2> QED BY <1>1, <1>2, <1>3, <2>1, <2>2, <2>3, <2>4, <2>5, PostStep
<1> QED BY <1>4, <1>5 DEF EndBiometry


-----------------------------------------------------------------------------
(* The blocks.                                                              *)

\* A block that runs was waited for: by a form, and alone for the user who waits.
LEMMA RunFacts ==
  ASSUME IndInv, NEW kind, Run(kind)
  PROVE  /\ main # <<>> /\ main' = Tail(main) /\ Head(main).kind = kind
         /\ UNCHANGED <<service, user, forced, accounts, requests, launches, accepted, created,
                        patience, haste, crossed>>
         /\ Head(main) \in Queued /\ Head(main) \in Block
         /\ main' \in Seq(Block) /\ Queued' \subseteq Queued
         /\ Screen \in DOMAIN screens /\ Kind(Screen) # "main"
         /\ prompt => Screen # Top
         /\ ~crossed => /\ requests = {} /\ main' = <<>> /\ Queued' = {}
                        /\ Screen = Top /\ ~prompt /\ alert = "none"
         /\ haste = 0 => ~crossed
<1> USE DEF IndInv
<1>1. /\ main # <<>> /\ main' = Tail(main) /\ Head(main).kind = kind
      /\ UNCHANGED <<service, user, forced, accounts, requests, launches, accepted, created,
                     patience, haste, crossed>>
  BY DEF Run, service, patience
<1>2. /\ Head(main) \in Queued /\ Head(main) \in Block
      /\ main' \in Seq(Block) /\ Queued' \subseteq Queued
      /\ Len(main) <= 1 => main' = <<>> /\ Queued' = {}
  BY <1>1, Ran
<1>3. /\ Screen \in DOMAIN screens /\ Kind(Screen) # "main"
      /\ prompt => Screen # Top
  BY <1>2 DEF Standing, FormsAsk, BiometryComesFirst, Screen
<1>4. ~crossed => /\ requests = {} /\ main' = <<>> /\ Queued' = {}
                  /\ Screen = Top /\ ~prompt /\ alert = "none"
  BY <1>1, <1>2 DEF Patient, OneAtATime, Screen
<1>5. haste = 0 => ~crossed
  BY DEF FormsAreAsSent
<1> QED BY <1>1, <1>2, <1>3, <1>4, <1>5

\* The main screen opens for somebody, unless the form is covered or has an alert.
LEMMA NavigateStep ==
  ASSUME IndInv, NEW kind, Run(kind), Navigate(Screen),
         Screen = Top => user # Nobody \/ forced,
         keychain' \in Text, haste = 0 => keychain' \in accepted \cup {"empty"},
         emptied' \subseteq User, ~crossed => emptied' \subseteq created
  PROVE  IndInv'
<1> USE DEF IndInv
<1>1. screens \in Seq(ScreenRecord) /\ Len(screens) \in Nat
  BY Places
<1>2. /\ alert \in {"none", "error", "notice"} /\ prompt \in BOOLEAN
      /\ haste \in 0..MaxHaste /\ crossed \in BOOLEAN
  BY DEF TypeOK
<1>3. CASE CanPresent(Screen)
  <2> DEFINE form == Form("main", "empty")
  <2>1. form \in ScreenRecord /\ form.shown = Nobody /\ form.kind = "main"
    BY DEF Form, ScreenRecord, Text
  <2>2. /\ screens' = Append(screens, form) /\ stack' = Append(stack, Len(screens) + 1)
        /\ UNCHANGED <<prompt, alert>>
    BY <1>3, <2>1 DEF Navigate, Show
  <2> HIDE DEF form
  <2>3. Screen = Top /\ Kind(Top) # "main" /\ ~prompt
    BY <1>3, RunFacts DEF CanPresent
  <2>4. Len(screens) <= MaxScreens
    BY <2>3 DEF Standing, Room
  <2>5. form.kind # "signIn" /\ form.kind # "signUp"
    BY <2>1
  <2>6. /\ prompt' \in BOOLEAN /\ alert' \in {"none", "error", "notice"} /\ ~prompt'
        /\ haste' \in 0..MaxHaste /\ crossed' \in BOOLEAN
    BY <1>2, <2>2, <2>3, RunFacts
  <2>7. /\ UNCHANGED <<accounts, launches, accepted, created>>
        /\ user' = user /\ forced' = forced /\ requests' = requests
        /\ haste' = haste /\ crossed' = crossed
        /\ main' \in Seq(Block) /\ Queued' \subseteq Queued
        /\ ~crossed => requests = {} /\ main' = <<>> /\ Queued' = {}
        /\ haste = 0 => ~crossed
    BY RunFacts
  <2> QED BY <1>1, <2>1, <2>2, <2>3, <2>4, <2>5, <2>6, <2>7, ShowStep
<1>4. CASE ~CanPresent(Screen)
  <2>1. UNCHANGED <<screens, stack, prompt, alert>>
    BY <1>4 DEF Navigate
  <2>2. Unmoved
    BY <2>1, Places DEF Unmoved
  <2>3. crossed
    BY <1>4, RunFacts DEF CanPresent
  <2> QED BY <1>2, <2>1, <2>2, <2>3, RunFacts, RunStep
<1> QED BY <1>3, <1>4

LEMMA BlocksStep ==
  ASSUME IndInv, Blocks
  PROVE  IndInv'
<1> USE DEF IndInv
<1>1. /\ keychain \in Text /\ emptied \subseteq User /\ created \subseteq User
      /\ accepted \subseteq User /\ user \in User \cup {Nobody}
      /\ alert \in {"none", "error", "notice"}
  BY DEF TypeOK
<1>2. /\ haste = 0 => keychain \in accepted \cup {"empty"}
      /\ ~crossed => emptied \subseteq created
  BY DEF KeychainWasAccepted, OnlyNewAreEmptied
<1>3. \A s \in DOMAIN screens : screens[s].text \in Text
  BY Places DEF ScreenRecord
<1>4. CASE RunSignedIn
  <2>1. /\ Run("signedIn") /\ keychain' = screens[Screen].text /\ Navigate(Screen)
        /\ UNCHANGED emptied
    BY <1>4 DEF RunSignedIn
  <2>2. Screen \in DOMAIN screens /\ Head(main) \in Queued /\ Head(main).kind = "signedIn"
    BY <2>1, RunFacts
  <2>3. Screen = Top => user # Nobody \/ forced
    BY <2>2 DEF Standing, AnswersFindTheUser, Screen
  <2>4. haste = 0 => keychain' \in accepted
    BY <2>1, <2>2 DEF FormsAreAsSent, Screen
  <2>5. keychain' \in Text
    BY <2>1, <2>2, <1>3
  <2> QED BY <2>1, <2>3, <2>4, <2>5, <1>1, <1>2, NavigateStep
<1>5. CASE RunCreated
  <2>1. /\ Run("created") /\ Navigate(Screen) /\ CreateDocument /\ UNCHANGED keychain
    BY <1>5 DEF RunCreated
  <2>2. Head(main) \in Queued /\ Head(main).kind = "created"
    BY <2>1, RunFacts
  <2>3. Screen = Top => user # Nobody \/ forced
    BY <2>2 DEF Standing, AnswersFindTheUser, Screen
  <2>4. emptied' = emptied \cup ({user} \ {Nobody})
    BY <2>1 DEF CreateDocument
  <2>5. ~crossed => user \in created \cup {Nobody}
    BY <2>2 DEF Patient, CreatedIsTheUser
  <2>6. emptied' \subseteq User /\ (~crossed => emptied' \subseteq created)
    BY <2>4, <2>5, <1>1, <1>2
  <2> QED BY <2>1, <2>3, <2>6, <1>1, <1>2, NavigateStep
<1>6. CASE RunRefused
  <2>1. PICK kind \in {"refused", "notCreated"} : Run(kind)
    BY <1>6 DEF RunRefused
  <2>2. /\ alert' = IF CanPresent(Screen) THEN "error" ELSE alert
        /\ UNCHANGED <<screens, stack, prompt, keychain, emptied>>
    BY <1>6 DEF RunRefused, ShowAlert
  <2>3. /\ main # <<>> /\ main' = Tail(main) /\ Head(main).kind = kind
        /\ UNCHANGED <<service, launches, accepted, created, patience>>
        /\ prompt => Screen # Top
    BY <2>1, RunFacts
  <2>4. prompt => alert' = alert
    BY <2>2, <2>3 DEF CanPresent
  <2>5. alert' \in {"none", "error", "notice"}
    BY <2>2, <1>1
  <2>6. Unmoved
    BY <2>2, Places DEF Unmoved
  <2>7. Head(main).kind \notin {"signedIn", "created"}
    BY <2>1, <2>3
  <2> QED BY <2>2, <2>3, <2>4, <2>5, <2>6, <2>7, <1>1, <1>2, RunStep
<1>7. CASE RunUnlocked
  <2>1. /\ Run("unlocked") /\ UNCHANGED <<keychain, emptied>>
        /\ IF user # Nobody
           THEN Navigate(Screen)
           ELSE Fill(Screen, keychain) /\ UNCHANGED <<stack, alert, prompt>>
    BY <1>7 DEF RunUnlocked
  <2>2. CASE user # Nobody
    BY <2>1, <2>2, <1>1, <1>2, NavigateStep
  <2>3. CASE user = Nobody
    <3>1. /\ main # <<>> /\ main' = Tail(main) /\ Screen \in DOMAIN screens
          /\ UNCHANGED <<service, launches, accepted, created, patience>>
      BY <2>1, RunFacts
    <3>2. Fill(Screen, keychain) /\ UNCHANGED <<stack, alert, prompt>>
      BY <2>1, <2>3
    <3>3. screens \in Seq(ScreenRecord)
      BY Places
    <3>4. Unmoved /\ \A s \in DOMAIN screens : screens'[s].shown = screens[s].shown
      BY <3>1, <3>2, <3>3, <1>1, Filled DEF Fill, Unmoved
    <3> QED BY <2>1, <2>3, <3>1, <3>2, <3>4, <1>1, <1>2, RunStep
  <2> QED BY <2>2, <2>3
<1> QED BY <1>4, <1>5, <1>6, <1>7 DEF Blocks

-----------------------------------------------------------------------------
(* The theorems.                                                            *)

LEMMA StepHolds == IndInv /\ [Next]_vars => IndInv'
<1> SUFFICES ASSUME IndInv, [Next]_vars PROVE IndInv'
  OBVIOUS
<1>1. CASE Gestures
  BY <1>1, FormGestures, QuietGestures, OpenSignUpStep, SwipeStep, SignOutStep DEF Gestures
<1>2. CASE Service
  BY <1>2, ServiceStep
<1>3. CASE EndBiometry
  BY <1>3, EndBiometryStep
<1>4. CASE Relaunch
  BY <1>4, RelaunchStep
<1>5. CASE Blocks
  BY <1>5, BlocksStep
<1>6. CASE UNCHANGED vars
  <2>1. Unmoved
    BY <1>6, Places DEF IndInv, Unmoved, vars
  <2>2. crossed \/ ~Waiting \/ alert = "none"
    BY DEF IndInv, Patient, OneAtATime, Waiting
  <2>3. UNCHANGED <<service, main, launches, history, patience, keychain, alert, prompt, screens>>
    BY <1>6 DEF vars
  <2>4. alert' \in {"none", "error", "notice"} /\ prompt' \in BOOLEAN
    BY <2>3 DEF IndInv, TypeOK
  <2> QED BY <2>1, <2>2, <2>3, <2>4, QuietStep
<1>7. CASE SignOutByForce
  BY <1>7, SignOutByForceStep
<1> QED BY <1>1, <1>2, <1>3, <1>4, <1>5, <1>6, <1>7 DEF Next

LEMMA InvariantHolds == Spec => []IndInv
<1> QED BY InitHolds, StepHolds, PTL DEF Spec

\* Whatever answers come late, and whatever they find covered, somebody is signed in
\* while a main screen is on display, unless FIRAuth has signed him out by force, and
\* every screen and request has its type.
THEOREM MainScreensHaveAUser == Spec => []SessionConsistent
<1>1. IndInv => SessionConsistent
  BY DEF IndInv, Standing, SessionConsistent
<1> QED BY <1>1, InvariantHolds, PTL

\* For a user who waits for each answer, a form that covers another has nobody signed
\* in, and the wallet on display is that of the user for whom add and delete write, or
\* of him who was signed out by force since.
THEOREM DisplayFollowsTheUser == Spec => []DisplayIsTheUsers
<1>1. IndInv => DisplayIsTheUsers
  <2> SUFFICES ASSUME IndInv PROVE DisplayIsTheUsers
    OBVIOUS
  <2> USE DEF IndInv
  <2>1. SignedOutStaysOut
    <3>1. SUFFICES ASSUME ~crossed, Len(stack) > 1, Kind(Top) = "signIn", main = <<>>
                   PROVE  user = Nobody
      BY DEF SignedOutStaysOut, Kind
    <3>2. Queued = {}
      BY <3>1, NoneQueued
    <3>3. Len(stack) # 1
      BY <3>1, Places
    <3> QED BY <3>1, <3>2, <3>3 DEF Patient, SignedInSinceLaunch
  <2> QED BY <2>1 DEF DisplayIsTheUsers
<1> QED BY <1>1, InvariantHolds, PTL

\* For a user who touches nothing before the answer, the keychain holds texts that the
\* service has accepted.
THEOREM KeychainHoldsAccepted == Spec => []KeychainWasAccepted
<1>1. IndInv => KeychainWasAccepted
  BY DEF IndInv
<1> QED BY <1>1, InvariantHolds, PTL

\* For a user who waits for each answer, no document is made empty but that of an
\* account that was just made.
THEOREM NoPortfolioIsEmptied == Spec => []OnlyNewAreEmptied
<1>1. IndInv => OnlyNewAreEmptied
  BY DEF IndInv
<1> QED BY <1>1, InvariantHolds, PTL
=============================================================================
