------------------------------- MODULE Session -------------------------------
(***************************************************************************)
(* Signing in, up and out: the screens, that only ever cover one another,   *)
(* the requests to the authentication service, and the keychain from which  *)
(* the sign-in form is filled after biometry.                               *)
(*                                                                         *)
(* A form holds the texts that the user typed, abstracted to what becomes   *)
(* of them: those of an account, those of no account, those that fail the   *)
(* checks of Validation, none.  FIRAuth changes the user on its own queue   *)
(* and then gives the main queue the completion, so that the two are steps  *)
(* of their own.  UIKit does not present from a screen that is covered or   *)
(* has been taken away; a screen taken away lives on, as the observers that *)
(* its viewDidLoad registers hold it.                                       *)
(***************************************************************************)
EXTENDS Naturals, Sequences, FiniteSets, SequencesExt

CONSTANTS
    User,         \* accounts that exist or may be made
    Nobody,       \* no account
    MaxScreens,   \* bound: screens after which no gesture makes another
    MaxRequests,  \* bound: requests under way
    MaxLaunches,  \* bound: ends of the process
    MaxHaste      \* bound: gestures made before an answer had come

ASSUME NobodyAssumption == Nobody \notin User
ASSUME BoundAssumption == MaxScreens \in Nat \ {0} /\ MaxRequests \in Nat
                          /\ MaxLaunches \in Nat /\ MaxHaste \in Nat

VARIABLES
    user,      \* currentUser of FIRAuth
    accounts,  \* accounts that the service knows
    requests,  \* requests that it has not answered
    main,      \* blocks given to the main queue
    screens,   \* all screens made: their kind, their text, the wallet they show
    stack,     \* the screens on display, each covering those before it
    alert,     \* an alert on the last of them
    prompt,    \* whether biometry is asked for
    keychain,  \* the texts kept in the keychain
    launches,  \* number of ends of the process
    accepted,  \* history: texts that the service accepted in a sign-in
    created,   \* history: accounts made by sign-up
    emptied,   \* history: accounts whose document was made empty
    haste,     \* history: gestures made on a form before an answer had come
    crossed,   \* history: whether one of them was more than typing
    forced     \* history: FIRAuth took the user off by itself, and nobody has signed in
               \* or out, or launched the program, since

service == <<user, forced, accounts, requests>>
history == <<accepted, created, emptied>>
patience == <<haste, crossed>>
vars == <<service, main, screens, stack, alert, prompt, keychain, launches, history, patience>>

Text == User \cup {"unknown", "invalid", "empty"}
Form(kind, text) == [kind |-> kind, text |-> text, shown |-> Nobody]
ScreenId == 1..MaxScreens + 1
Request == [kind : {"signIn", "createUser"}, screen : ScreenId, text : Text]
Block == [kind : {"signedIn", "refused", "created", "notCreated", "unlocked"},
          screen : ScreenId, text : Text]

TypeOK ==
    /\ user \in User \cup {Nobody} /\ accounts \subseteq User
    /\ requests \subseteq Request /\ main \in Seq(Block)
    /\ screens \in Seq([kind : {"signIn", "signUp", "main"}, text : Text,
                        shown : User \cup {Nobody}])
    /\ stack \in Seq(DOMAIN screens) /\ stack # <<>> /\ IsInjective(stack)
    /\ alert \in {"none", "error", "notice"} /\ prompt \in BOOLEAN
    /\ keychain \in Text /\ launches \in 0..MaxLaunches
    /\ accepted \subseteq User /\ created \subseteq User
    /\ emptied \subseteq User /\ haste \in 0..MaxHaste /\ crossed \in BOOLEAN
    /\ forced \in BOOLEAN

-----------------------------------------------------------------------------
(* Screens.                                                                 *)

Top == Last(stack)

\* The top screen, if the user can touch it.
Touch(kind) ==
    /\ screens[Top].kind = kind
    /\ alert = "none" /\ ~prompt

\* A sign-in screen asks for biometry as soon as it appears, or tells that there is none.
AskForBiometry ==
    \/ prompt' = TRUE /\ alert' = "none"
    \/ prompt' = FALSE /\ alert' = "notice"

\* A screen is presented over the top one.
Show(form, ss) ==
    /\ screens' = Append(ss, form)
    /\ stack' = Append(stack, Len(ss) + 1)
    /\ IF form.kind = "signIn" THEN AskForBiometry ELSE UNCHANGED <<prompt, alert>>

CanPresent(s) == s = Top /\ alert = "none"

\* Variant with a defect: the main screen of an earlier session is used again.
NavigateBack(s) ==
    LET mains == {i \in DOMAIN screens : screens[i].kind = "main"}
    IN  IF ~CanPresent(s) THEN UNCHANGED <<screens, stack, prompt, alert>>
        ELSE IF mains = {} THEN Show(Form("main", "empty"), screens)
        ELSE /\ stack' = Append(stack, CHOOSE i \in mains : TRUE)
             /\ UNCHANGED <<screens, prompt, alert>>

\* navigateToMainScreen
Navigate(s) ==
    IF CanPresent(s) THEN Show(Form("main", "empty"), screens)
                     ELSE UNCHANGED <<screens, stack, prompt, alert>>

ShowAlert(s) ==
    /\ alert' = IF CanPresent(s) THEN "error" ELSE alert
    /\ UNCHANGED <<screens, stack, prompt>>

Fill(s, text) == screens' = [screens EXCEPT ![s].text = text]

Init ==
    /\ accounts \in SUBSET User
    /\ user \in accounts \cup {Nobody}
    /\ requests = {} /\ main = <<>>
    /\ screens = <<Form("signIn", "empty")>> /\ stack = <<1>>
    /\ \/ prompt = TRUE /\ alert = "none"
       \/ prompt = FALSE /\ alert = "notice"
    /\ keychain = "empty" /\ launches = 0
    /\ accepted = {} /\ created = {} /\ emptied = {} /\ haste = 0 /\ crossed = FALSE
    /\ forced = FALSE

-----------------------------------------------------------------------------
(* Gestures.                                                                *)

Waiting == requests # {} \/ main # <<>>

\* The user touches a form, perhaps before the answer to the last tap.
Gesture(kind) ==
    /\ Touch(kind)
    /\ \/ ~Waiting /\ UNCHANGED haste
       \/ Waiting /\ haste < MaxHaste /\ haste' = haste + 1
    /\ UNCHANGED <<user, forced, accounts, main, prompt, launches, history>>

Tap(kind) ==
    /\ Gesture(kind)
    /\ crossed' = (crossed \/ Waiting)

Type ==
    \E text \in Text \ {"empty"}, kind \in {"signIn", "signUp"} :
        /\ Gesture(kind)
        /\ text # screens[Top].text
        /\ Fill(Top, text)
        /\ UNCHANGED <<requests, stack, alert, keychain, crossed>>

Ask(kind) ==
    /\ Cardinality(requests) < MaxRequests
    /\ requests' = requests \cup {[kind |-> kind, screen |-> Top, text |-> screens[Top].text]}
    /\ UNCHANGED screens

\* Variant with a defect: the texts are kept before they are accepted.
TapLogInSaves ==
    /\ Tap("signIn")
    /\ screens[Top].text # "empty"
    /\ IF screens[Top].text # "invalid" THEN Ask("signIn")
                                       ELSE Fill(Top, "empty") /\ UNCHANGED requests
    /\ keychain' = screens[Top].text
    /\ UNCHANGED <<stack, alert>>

\* didTaplogInButton: texts that fail the check are cleared.
TapLogIn ==
    /\ Tap("signIn")
    /\ screens[Top].text # "empty"
    /\ IF screens[Top].text # "invalid" THEN Ask("signIn")
                                       ELSE Fill(Top, "empty") /\ UNCHANGED requests
    /\ UNCHANGED <<stack, alert, keychain>>

\* didTapTransitionToSignUpScreenButton: the form below is cleared.
OpenSignUp ==
    /\ Tap("signIn") /\ Len(screens) < MaxScreens
    /\ Show(Form("signUp", "empty"), [screens EXCEPT ![Top].text = "empty"])
    /\ UNCHANGED <<requests, keychain>>

\* The form is a sheet and is swiped away.
SwipeSignUp ==
    /\ Tap("signUp")
    /\ stack' = Front(stack)
    /\ UNCHANGED <<requests, screens, alert, keychain>>

\* didTapSignUpButton
TapSignUp ==
    /\ Tap("signUp")
    /\ screens[Top].text # "empty"
    /\ IF screens[Top].text # "invalid" THEN Ask("createUser")
                                       ELSE Fill(Top, "empty") /\ UNCHANGED requests
    /\ UNCHANGED <<stack, alert, keychain>>

\* That of an error clears the form.
DismissAlert ==
    /\ alert # "none"
    /\ alert' = "none"
    /\ IF alert = "error" THEN Fill(Top, "empty") ELSE UNCHANGED screens
    /\ UNCHANGED <<service, main, stack, prompt, keychain, launches, history, patience>>

\* The wallet of a main screen is first looked at, and read: getPortfolio.
OpenWallet ==
    /\ Touch("main")
    /\ screens[Top].shown = Nobody
    /\ screens' = [screens EXCEPT ![Top].shown = user]
    /\ UNCHANGED <<service, main, stack, alert, prompt, keychain, launches, history, patience>>

\* signOut: FIRAuth is waited for, and a sign-in screen is presented.
SignOut ==
    /\ Touch("main") /\ Len(screens) < MaxScreens
    /\ user' = Nobody /\ forced' = FALSE
    /\ Show(Form("signIn", "empty"), screens)
    /\ UNCHANGED <<accounts, requests, main, keychain, launches, history, patience>>

\* FIRAuth could not take the user off the disk.
SignOutFails ==
    /\ Touch("main") /\ user # Nobody
    /\ alert' = "notice"
    /\ UNCHANGED <<service, main, screens, stack, prompt, keychain, launches, history, patience>>

-----------------------------------------------------------------------------
(* The authentication service and the system.                               *)

Post(kind, r) == main' = Append(main, [kind |-> kind, screen |-> r.screen, text |-> r.text])

Answer(r) ==
    /\ requests' = requests \ {r}
    /\ UNCHANGED <<screens, stack, alert, prompt, keychain, launches, emptied, patience>>

AcceptSignIn ==
    \E r \in requests :
        /\ r.kind = "signIn" /\ r.text \in accounts
        /\ Answer(r)
        /\ Post("signedIn", r)
        /\ user' = r.text /\ forced' = FALSE
        /\ accepted' = accepted \cup {r.text}
        /\ UNCHANGED <<accounts, created>>

AcceptCreateUser ==
    \E r \in requests :
        /\ r.kind = "createUser" /\ r.text \in User \ accounts
        /\ Answer(r)
        /\ Post("created", r)
        /\ user' = r.text /\ forced' = FALSE
        /\ accounts' = accounts \cup {r.text}
        /\ created' = created \cup {r.text}
        /\ UNCHANGED accepted

\* The texts are not those of an account, are those of one already, or the service
\* could not be reached.  A new account may have been made all the same, as its data
\* are fetched by a second request.
Refuse ==
    \E r \in requests :
        /\ Answer(r)
        /\ \/ r.kind = "signIn" /\ Post("refused", r) /\ UNCHANGED accounts
           \/ /\ r.kind = "createUser"
              /\ Post("notCreated", r)
              /\ accounts' \in {accounts, accounts \cup ({r.text} \cap User)}
        /\ UNCHANGED <<user, forced, accepted, created>>

\* A token is renewed, and the service says that the user or his token is no longer
\* valid: FIRAuth signs him out by force.  No screen of the program is told.
SignOutByForce ==
    /\ user # Nobody
    /\ user' = Nobody /\ forced' = TRUE
    /\ UNCHANGED <<accounts, requests, main, screens, stack, alert, prompt, keychain,
                   launches, history, patience>>

\* Biometry ends; it is evaluated for the sign-in screen on display.
EndBiometry ==
    /\ prompt
    /\ prompt' = FALSE
    /\ \/ UNCHANGED main
       \/ Post("unlocked", [screen |-> Top, text |-> "empty"])
    /\ UNCHANGED <<service, screens, stack, alert, keychain, launches, history, patience>>

\* The process ends; accounts may have been made whose answer is lost.
Relaunch ==
    /\ launches < MaxLaunches
    /\ launches' = launches + 1
    /\ \E made \in SUBSET {r.text : r \in {q \in requests : q.kind = "createUser"}} :
           accounts' = accounts \cup (made \cap User)
    /\ requests' = {} /\ main' = <<>>
    /\ screens' = <<Form("signIn", "empty")>> /\ stack' = <<1>>
    /\ AskForBiometry
    /\ forced' = FALSE
    /\ UNCHANGED <<user, keychain, history, patience>>

-----------------------------------------------------------------------------
(* Blocks of the main queue.                                                *)

Run(kind) ==
    /\ main # <<>> /\ Head(main).kind = kind
    /\ main' = Tail(main)
    /\ UNCHANGED <<service, launches, accepted, created, patience>>

Screen == Head(main).screen

\* The texts kept are those the form holds now.
RunSignedIn ==
    /\ Run("signedIn")
    /\ keychain' = screens[Screen].text
    /\ Navigate(Screen)
    /\ UNCHANGED emptied

\* Variant with a defect: an answer of refusal is not told to the user.
RunRefusedSilently ==
    /\ Run("refused") \/ Run("notCreated")
    /\ UNCHANGED <<screens, stack, alert, prompt, keychain, emptied>>

RunRefused ==
    /\ Run("refused") \/ Run("notCreated")
    /\ ShowAlert(Screen)
    /\ UNCHANGED <<keychain, emptied>>

\* createUserDocumentAndCoinsArrayInDB, for whoever is signed in by now.
CreateDocument == emptied' = emptied \cup ({user} \ {Nobody})

\* Variant with a defect: the document is made before the error is looked at.
RunCreatedOrNot ==
    /\ Run("created") \/ Run("notCreated")
    /\ Navigate(Screen)
    /\ CreateDocument
    /\ UNCHANGED keychain

RunCreated ==
    /\ Run("created")
    /\ Navigate(Screen)
    /\ CreateDocument
    /\ UNCHANGED keychain

\* Variant with a defect: biometry alone opens the main screen.
RunUnlockedForAnyone ==
    /\ Run("unlocked")
    /\ Navigate(Screen)
    /\ UNCHANGED <<keychain, emptied>>

\* Biometry opens the main screen for the user of the last launch, or fills the form.
RunUnlocked ==
    /\ Run("unlocked")
    /\ IF user # Nobody
       THEN Navigate(Screen)
       ELSE Fill(Screen, keychain) /\ UNCHANGED <<stack, alert, prompt>>
    /\ UNCHANGED <<keychain, emptied>>

-----------------------------------------------------------------------------
Gestures ==
    \/ Type \/ TapLogIn \/ OpenSignUp \/ SwipeSignUp \/ TapSignUp \/ DismissAlert
    \/ OpenWallet \/ SignOut \/ SignOutFails

Service == AcceptSignIn \/ AcceptCreateUser \/ Refuse

Blocks == RunSignedIn \/ RunRefused \/ RunCreated \/ RunUnlocked

Next == Gestures \/ Service \/ SignOutByForce \/ EndBiometry \/ Relaunch \/ Blocks

Spec == Init /\ [][Next]_vars

\* The service answers, FIRAuth's requests having a timeout, and the main queue runs.
FairSpec == Spec /\ WF_vars(Service) /\ WF_vars(Blocks)

-----------------------------------------------------------------------------
(* Properties.                                                              *)

\* Whatever answers are late and whatever they cover, somebody is signed in while
\* the user can touch a main screen, unless FIRAuth has taken him off by force: the
\* screens themselves never lead to where getPortfolio, add and delete return without
\* calling anybody back.
SignedInOnMain == screens[Top].kind = "main" => user # Nobody \/ forced

\* After Sign Out nobody is signed in until an answer to a later tap comes, unless a
\* tap was made while another was waiting for its answer.
SignedOutStaysOut ==
    ~crossed /\ Len(stack) > 1 /\ screens[Top].kind = "signIn" /\ main = <<>> =>
        user = Nobody

\* The wallet on display is that of the user whom add and delete would write for, or
\* would have before he was signed out by force: never that of one user with another
\* signed in; unless a tap was made while another was waiting for its answer.
WalletIsTheUsers ==
    ~crossed /\ screens[Top].kind = "main" =>
        screens[Top].shown \in {user, Nobody} \/ (forced /\ user = Nobody)

\* The keychain holds texts that the service accepted: the form they are read from
\* when the answer comes is the one that was sent, unless the user went on.
KeychainWasAccepted == haste = 0 => keychain \in accepted \cup {"empty"}

\* Only the document of an account that was just made is made empty, so that no other
\* loses its portfolio, unless a tap was made while another was waiting.
OnlyNewAreEmptied == ~crossed => emptied \subseteq created

\* Types, and somebody signed in behind a main screen.
SessionConsistent == TypeOK /\ SignedInOnMain

\* What is on display agrees with the user of FIRAuth: the form with nobody, the
\* wallet with its owner.
DisplayIsTheUsers == SignedOutStaysOut /\ WalletIsTheUsers

\* Each tap on Log In or Sign Up ends with an alert or with the form covered by the
\* main screen, unless the user went on or the process ended.
TapsEnd ==
    \A s \in ScreenId :
        (\E r \in requests : r.screen = s) ~>
            (haste > 0 \/ s # Top \/ alert = "error" \/ launches > 0)

=============================================================================
