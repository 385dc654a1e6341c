----------------------------- MODULE Credentials -----------------------------
(***************************************************************************)
(* Who is signed in, as the three queues come to know it, and as whom a     *)
(* write reaches the server.  FIRAuth changes its user on a queue of its    *)
(* own and tells the main queue; there the credentials provider counts the  *)
(* change and tells the worker queue, where SyncEngine swaps the queue of   *)
(* writes and RemoteStore restarts the stream, for which a token is fetched *)
(* over the same queues.  add takes the user's id when it is called and     *)
(* writes when its reading is answered.                                     *)
(*                                                                         *)
(* The reading itself is in DocumentGet, retries and lost answers are in    *)
(* WriteStream: here a reading is answered at some time, a token is fetched *)
(* in the end, and an open stream serves.                                   *)
(***************************************************************************)
EXTENDS Naturals, Sequences, FiniteSets, SequencesExt

CONSTANTS
    User,         \* accounts
    Nobody,       \* no account
    Call,         \* calls of add and delete
    MaxChanges,   \* bound: sign-ins and sign-outs
    MaxRefreshes  \* bound: tokens renewed

ASSUME NobodyAssumption == Nobody \notin User
ASSUME ChangesAssumption == MaxChanges \in Nat /\ MaxRefreshes \in Nat

VARIABLES
    auth,       \* _currentUser of FIRAuth
    main,       \* blocks of the main queue
    worker,     \* tasks of the worker queue
    counter,    \* token_counter of the credentials provider
    fetches,    \* tokens asked of FIRAuth
    current,    \* current_user_ of SyncEngine
    queues,     \* the queue of writes of each user
    stream,     \* state of the write stream
    token,      \* the user of its token
    closes,     \* its close_count_
    call,       \* what became of each call
    landed,     \* writes that the server made
    refused,    \* writes that it refused
    changes,    \* number of sign-ins and sign-outs
    refreshes   \* number of tokens renewed

remote == <<stream, token, closes>>
results == <<landed, refused>>
bounds == <<changes, refreshes>>
vars == <<auth, main, worker, counter, fetches, current, queues, remote, call, results,
          bounds>>

Identity == User \cup {Nobody}
Unread == "unread"
Fetch == [counter : Nat, closes : Nat, user : Identity \cup {Unread}]
Block(kind, user, count, close) ==
    [kind |-> kind, user |-> user, counter |-> count, closes |-> close]
Idle == [phase |-> "idle", owner |-> Nobody, raced |-> FALSE]

TypeOK ==
    /\ auth \in Identity /\ current \in Identity /\ token \in Identity
    /\ \A i \in DOMAIN main : main[i].kind \in {"user", "token", "answer"}
    /\ \A i \in DOMAIN worker : worker[i].kind \in {"user", "token", "write"}
    /\ counter \in Nat /\ closes \in Nat /\ fetches \subseteq Fetch
    /\ queues \in [Identity -> Seq(Call)]
    /\ stream \in {"closed", "auth", "open"}
    /\ call \in [Call -> [phase : {"idle", "asked", "posted", "written", "dropped"},
                          owner : Identity, raced : BOOLEAN]]
    /\ landed \subseteq Call /\ refused \subseteq Call
    /\ changes \in 0..MaxChanges /\ refreshes \in 0..MaxRefreshes

Init ==
    /\ auth \in Identity /\ current = auth
    /\ main = <<>> /\ worker = <<>> /\ counter = 0 /\ fetches = {}
    /\ queues = [u \in Identity |-> <<>>]
    /\ stream = "closed" /\ token = Nobody /\ closes = 0
    /\ call = [c \in Call |-> Idle]
    /\ landed = {} /\ refused = {} /\ changes = 0 /\ refreshes = 0

-----------------------------------------------------------------------------
(* FIRAuth.                                                                 *)

PostToMain(block) == main' = Append(main, block)

\* possiblyPostAuthStateChangeNotification
Notify(user) == PostToMain(Block("user", user, 0, 0))

UpdateCurrentUser ==
    \E u \in Identity \ {auth} :
        /\ changes < MaxChanges
        /\ changes' = changes + 1
        /\ auth' = u
        /\ Notify(u)
        /\ call' = [c \in Call |->
                        IF call[c].phase \in {"asked", "posted"}
                        THEN [call[c] EXCEPT !.raced = TRUE] ELSE call[c]]
        /\ UNCHANGED <<worker, counter, fetches, current, queues, remote, results, refreshes>>

\* The token of the user is renewed.
Refresh ==
    /\ auth # Nobody
    /\ refreshes < MaxRefreshes
    /\ refreshes' = refreshes + 1
    /\ Notify(auth)
    /\ UNCHANGED <<auth, worker, counter, fetches, current, queues, remote, call, results,
                   changes>>

\* getTokenForcingRefresh takes the user it finds when its turn comes, ...
FindUser ==
    \E f \in fetches :
        /\ f.user = Unread
        /\ fetches' = (fetches \ {f}) \cup {[f EXCEPT !.user = auth]}
        /\ UNCHANGED <<auth, main, worker, counter, current, queues, remote, call, results,
                       bounds>>

\* ... and gives its token to the main queue, at once or after a request.
PostToken ==
    \E f \in fetches :
        /\ f.user # Unread
        /\ fetches' = fetches \ {f}
        /\ PostToMain(Block("token", f.user, f.counter, f.closes))
        /\ UNCHANGED <<auth, worker, counter, current, queues, remote, call, results, bounds>>

-----------------------------------------------------------------------------
(* The main queue.                                                          *)

\* add or delete is called, and takes the user's id.
Ask ==
    \E c \in Call :
        /\ call[c].phase = "idle" /\ auth # Nobody
        /\ call' = [call EXCEPT ![c] = [phase |-> "asked", owner |-> auth, raced |-> FALSE]]
        /\ UNCHANGED <<auth, main, worker, counter, fetches, current, queues, remote,
                       results, bounds>>

RunMain(kind) ==
    /\ main # <<>> /\ Head(main).kind = kind
    /\ main' = Tail(main)
    /\ UNCHANGED <<auth, current, queues, remote, results, bounds>>

Enqueue(kind, user, close) == worker' = Append(worker, Block(kind, user, 0, close))

\* The observer that the provider registered.
RunUser ==
    /\ RunMain("user")
    /\ counter' = counter + 1
    /\ Enqueue("user", Head(main).user, 0)
    /\ UNCHANGED <<fetches, call>>

\* The token may be another user's if there was a change since it was asked for.
RunToken ==
    /\ RunMain("token")
    /\ IF Head(main).counter = counter
       THEN Enqueue("token", Head(main).user, Head(main).closes) /\ UNCHANGED fetches
       ELSE /\ fetches' = fetches \cup {[counter |-> counter, closes |-> Head(main).closes,
                                         user |-> Unread]}
            /\ UNCHANGED worker
    /\ UNCHANGED <<counter, call>>

\* The reading of a call is answered, ...
Answered ==
    \E c \in Call :
        /\ call[c].phase = "asked"
        /\ call' = [call EXCEPT ![c].phase = "posted"]
        /\ PostToMain([kind |-> "answer", call |-> c])
        /\ UNCHANGED <<auth, worker, counter, fetches, current, queues, remote, results, bounds>>

\* ... and the call writes the document of the user it began with, or ends if it was
\* not given the portfolio.
RunAnswer ==
    /\ RunMain("answer")
    /\ LET c == Head(main).call
       IN  \/ /\ call' = [call EXCEPT ![c].phase = "written"]
              /\ worker' = Append(worker, [kind |-> "write", call |-> c])
           \/ /\ call' = [call EXCEPT ![c].phase = "dropped"]
              /\ UNCHANGED worker
    /\ UNCHANGED <<counter, fetches>>

-----------------------------------------------------------------------------
(* The worker queue.                                                        *)

RunWorker(kind) ==
    /\ worker # <<>> /\ Head(worker).kind = kind
    /\ worker' = Tail(worker)
    /\ UNCHANGED <<auth, main, counter, call, results, bounds>>

\* Stream::Start, if there is something to write.
StartIf(needed, close) ==
    IF needed
    THEN /\ stream' = "auth"
         /\ fetches' = fetches \cup {[counter |-> counter, closes |-> close, user |-> Unread]}
    ELSE stream' = "closed" /\ UNCHANGED fetches

\* Variant with a defect: the stream goes on with the token it has.
HandleCredentialChangeNoRestart ==
    /\ RunWorker("user")
    /\ current' = Head(worker).user
    /\ UNCHANGED <<queues, remote, fetches>>

\* Variant with a defect: the writes that wait go over to the new user.
HandleCredentialChangeTakesAll ==
    /\ RunWorker("user")
    /\ current' = Head(worker).user
    /\ closes' = closes + 1
    /\ token' = Nobody
    /\ queues' = IF current' = current THEN queues
                 ELSE [queues EXCEPT ![current] = <<>>, ![current'] = @ \o queues[current]]
    /\ StartIf(queues'[current'] # <<>>, closes')

\* SyncEngine::HandleCredentialChange: the queue is swapped, the stream restarted, be
\* it for the same user.
HandleCredentialChange ==
    /\ RunWorker("user")
    /\ current' = Head(worker).user
    /\ closes' = closes + 1
    /\ token' = Nobody
    /\ StartIf(queues[current'] # <<>>, closes')
    /\ UNCHANGED queues

\* ResumeStartWithCredentials, unless the stream was closed since.
TakeToken ==
    /\ RunWorker("token")
    /\ IF stream = "auth" /\ Head(worker).closes = closes
       THEN stream' = "open" /\ token' = Head(worker).user
       ELSE UNCHANGED <<stream, token>>
    /\ UNCHANGED <<current, queues, closes, fetches>>

\* Variant with a defect: a write does not start the stream.
WriteMutationsLater ==
    /\ RunWorker("write")
    /\ queues' = [queues EXCEPT ![current] = Append(@, Head(worker).call)]
    /\ UNCHANGED <<current, remote, fetches>>

\* SyncEngine::WriteMutations: the write goes to the queue of the user of now.
WriteMutations ==
    /\ RunWorker("write")
    /\ queues' = [queues EXCEPT ![current] = Append(@, Head(worker).call)]
    /\ IF stream = "closed" THEN StartIf(TRUE, closes) ELSE UNCHANGED <<stream, fetches>>
    /\ UNCHANGED <<current, token, closes>>

\* The server makes or refuses the first write: a document is its owner's alone.
Serve ==
    /\ stream = "open" /\ queues[current] # <<>>
    /\ LET c == Head(queues[current])
       IN  IF call[c].owner = token
           THEN landed' = landed \cup {c} /\ UNCHANGED refused
           ELSE refused' = refused \cup {c} /\ UNCHANGED landed
    /\ queues' = [queues EXCEPT ![current] = Tail(@)]
    /\ UNCHANGED <<auth, main, worker, counter, fetches, current, remote, call, bounds>>

\* The stream has been idle for a while.
IdleStop ==
    /\ stream = "open" /\ queues[current] = <<>>
    /\ stream' = "closed" /\ token' = Nobody /\ closes' = closes + 1
    /\ UNCHANGED <<auth, main, worker, counter, fetches, current, queues, call, results,
                   bounds>>

-----------------------------------------------------------------------------
Main == RunUser \/ RunToken \/ RunAnswer
Worker == HandleCredentialChange \/ TakeToken \/ WriteMutations
Tokens == FindUser \/ PostToken

Next ==
    \/ UpdateCurrentUser \/ Refresh \/ Ask \/ Answered \/ IdleStop
    \/ Main \/ Worker \/ Tokens \/ Serve

Spec == Init /\ [][Next]_vars

\* The queues run, tokens are fetched, and an open stream is served.
FairSpec ==
    Spec /\ WF_vars(Main) /\ WF_vars(Worker) /\ WF_vars(Tokens) /\ WF_vars(Serve)

-----------------------------------------------------------------------------
(* Properties.                                                              *)

\* A stream is open only with a token of the user whose queue it sends: FIRAuth's user,
\* the provider's counter, the worker queue and the close count of the stream agree on
\* it, in whatever order tokens and changes of user come.
StreamIsTheUsers == stream = "open" => token = current

\* A write is in the queue of the user for whose document it is, unless the user changed
\* between the call of add and the answer to its reading.
WritesStayWithTheirUser ==
    \A u \in Identity : \A i \in DOMAIN queues[u] :
        call[queues[u][i]].owner = u \/ call[queues[u][i]].raced

\* The server refuses only such a write: signing out later does not lose it, it waits
\* for its user.
OnlyRacedRefused == \A c \in refused : call[c].raced

\* Types, and a stream that is the current user's.
StreamConsistent == TypeOK /\ StreamIsTheUsers

\* No write changes hands, neither in the queues nor on the server.
WritesKeepTheirUser == WritesStayWithTheirUser /\ OnlyRacedRefused

\* What was written lands, unless its user is no longer signed in.
WritesLand ==
    \A c \in Call :
        call[c].phase = "written" ~> (c \in landed \/ call[c].raced \/ auth # call[c].owner)

=============================================================================
