----------------------------- MODULE DocumentGet -----------------------------
(***************************************************************************)
(* getDocument of the one document of a portfolio, inside the Firestore     *)
(* client: the listener that it adds, removes and mutes at the first event  *)
(* (DocumentReference), the listeners of the document and its view          *)
(* (EventManager, QueryListener, View), the watch stream and its target     *)
(* (RemoteStore, WatchChangeAggregator) and the online state that decides   *)
(* whether to go on waiting for the server (OnlineStateTracker).            *)
(*                                                                         *)
(* The worker queue runs the handlers, the main queue the events; each is   *)
(* one action.  A document is its version.  The document, the change to     *)
(* CURRENT and the snapshot that the server sends for a target are one      *)
(* message; local writes are laid over in PortfolioStore, not here.  That a *)
(* token for a closed stream is not taken is shown in WriteStream, whose    *)
(* stream this one shares: here a stream leaves Starting in one step.       *)
(***************************************************************************)
EXTENDS Integers, FiniteSets, Sequences, SequencesExt

CONSTANTS
    Get,         \* the calls of getDocument
    MaxVersion,  \* bound: versions of the document on the server
    MaxFaults    \* bound: streams that fail, network changes

ASSUME VersionAssumption == MaxVersion \in Nat
ASSUME FaultAssumption == MaxFaults \in Nat

VARIABLES
    asked,      \* calls made
    tasks,      \* what the main thread has given the worker queue
    events,     \* what the worker queue has given the main queue
    muted,      \* calls whose listener raises nothing any more
    answers,    \* answers[g]: times the completion of g was called
    listeners,  \* listeners of the document, oldest first
    raised,     \* those of them that had their initial event
    current,    \* whether the view is in sync with the server
    online,     \* the online state
    timer,      \* whether the online state timer runs
    failed,     \* whether watch_stream_failures_ is not zero
    stream,     \* state of the watch stream
    idle,       \* whether its idle timer runs
    expected,   \* outstanding responses of the target
    sent,       \* requests that the server has not read
    replies,    \* messages that the client has not read
    cache,      \* version of the document in the cache, 0 for none
    server,     \* version on the server, 0 for none
    refuses,    \* whether the rules of the database refuse the document
    watched,    \* whether the server watches the target for this stream
    told,       \* version the server last sent for it, or NotTold
    heard,      \* history: a message was read from this stream
    floor,      \* history: version on the server when the target was added
    faults      \* number of faults so far

calls == <<asked, tasks, muted, answers>>
view == <<events, raised, current, online>>
tracker == <<timer, failed>>
connection == <<expected, sent, replies, watched, told, heard>>
database == <<server, refuses>>
vars == <<calls, listeners, view, tracker, stream, idle, connection, cache,
          database, floor, faults>>

NotTold == MaxVersion + 1
Task == [kind : {"listen", "remove"}, get : Get]
Event == [get : Get, kind : {"synced", "cached", "error"}, doc : 0..MaxVersion]
Message == [kind : {"added", "removed", "denied", "document"}, doc : 0..MaxVersion]

StreamState == {"Initial", "Starting", "Open", "Error", "Backoff"}
Started == stream \in {"Starting", "Open", "Backoff"}

Init ==
    /\ asked = {} /\ tasks = <<>> /\ events = <<>>
    /\ muted = {} /\ answers = [g \in Get |-> 0]
    /\ listeners = <<>> /\ raised = {} /\ current = FALSE
    /\ online = "Unknown" /\ timer = FALSE /\ failed = FALSE
    /\ stream = "Initial" /\ idle = FALSE
    /\ expected = 0 /\ sent = <<>> /\ replies = <<>>
    /\ cache \in 0..MaxVersion /\ server = cache /\ refuses \in BOOLEAN
    /\ watched = FALSE /\ told = NotTold /\ heard = FALSE
    /\ floor = 0 /\ faults = 0

Fault == faults < MaxFaults /\ faults' = faults + 1

-----------------------------------------------------------------------------
(* Events.                                                                  *)

\* One event for each of the listeners ls.
EventsFor(ls, kind, doc) ==
    [i \in DOMAIN ls |-> [get |-> ls[i], kind |-> kind, doc |-> doc]]

Raise(ls, kind, doc) ==
    /\ events' = events \o EventsFor(ls, kind, doc)
    /\ raised' = raised \cup ToSet(ls)

RaiseNothing == UNCHANGED <<events, raised>>

Waiting(g) == g \notin raised

\* Listeners in the order in which they were added.
InOrder(ls) ==
    \A i, j \in DOMAIN ls :
        i < j => \E m, n \in DOMAIN listeners :
                     m < n /\ listeners[m] = ls[i] /\ listeners[n] = ls[j]

\* The listeners that wait, oldest first.
WaitingOnes ==
    {ls \in SeqOf(Get, Len(listeners)) :
        ToSet(ls) = {g \in ToSet(listeners) : Waiting(g)} /\ InOrder(ls)}

\* SetAndBroadcast.  Going offline takes the view out of sync, of which those
\* that had their event hear, and ends the wait of the others.
SetAndBroadcast(state) ==
    /\ online' = state
    /\ IF state = "Offline" /\ online # "Offline"
       THEN /\ current' = FALSE
            /\ \E ls \in IF current THEN {listeners} ELSE WaitingOnes :
                   Raise(ls, "cached", cache)
       ELSE UNCHANGED current /\ RaiseNothing

\* Variant with a defect: the timer goes on.
UpdateStateKeepsTimer(state) ==
    /\ UNCHANGED timer
    /\ failed' = FALSE
    /\ SetAndBroadcast(state)

UpdateState(state) ==
    /\ timer' = FALSE
    /\ failed' = FALSE
    /\ SetAndBroadcast(state)

-----------------------------------------------------------------------------
(* The watch stream and the online state.                                   *)

DropConnection ==
    /\ expected' = 0 /\ sent' = <<>> /\ replies' = <<>>
    /\ watched' = FALSE /\ told' = NotTold /\ heard' = FALSE
    /\ idle' = FALSE

\* StartWatchStream when no stream was started and none failed.
StartFresh ==
    /\ stream' = "Starting"
    /\ SetAndBroadcast("Unknown")
    /\ timer' = TRUE
    /\ failed' = FALSE

\* HandleWatchStreamFailure, then StartWatchStream from the state Error.  The
\* first failure of a stream that was online is forgiven, and starts the timer.
Retry ==
    /\ stream' = "Backoff"
    /\ \/ /\ online = "Online"
          /\ SetAndBroadcast("Unknown")
          /\ timer' = TRUE
          /\ UNCHANGED failed
       \/ /\ online # "Online"
          /\ failed' = TRUE
          /\ timer' = FALSE
          /\ SetAndBroadcast("Offline")

\* Close(status) and OnWatchStreamClose for a status that is not OK.
CloseWithError ==
    /\ DropConnection
    /\ \/ listeners # <<>> /\ Retry
       \/ listeners = <<>> /\ stream' = "Error" /\ UpdateState("Unknown")

Send(requests) ==
    /\ sent' = sent \o requests
    /\ expected' = expected + Len(requests)
    /\ UNCHANGED <<replies, watched, told, heard>>

\* Variant with a defect: the target is asked for though its listeners have gone.
StreamOpensAsksAnyway ==
    /\ stream = "Starting"
    /\ stream' = "Open"
    /\ Send(<<"watch">>)
    /\ UNCHANGED <<calls, listeners, view, tracker, idle, cache, database, floor, faults>>

\* OnWatchStreamOpen: the target is asked for, if there still is one.
StreamOpens ==
    /\ stream = "Starting"
    /\ stream' = "Open"
    /\ Send(IF listeners = <<>> THEN <<>> ELSE <<"watch">>)
    /\ UNCHANGED <<calls, listeners, view, tracker, idle, cache, database, floor, faults>>

StreamFails ==
    /\ Fault
    /\ stream \in {"Starting", "Open"}
    /\ CloseWithError
    /\ UNCHANGED <<calls, listeners, cache, database, floor>>

BackoffElapses ==
    /\ stream = "Backoff"
    /\ stream' = "Starting"
    /\ UNCHANGED <<calls, listeners, view, tracker, idle, connection, cache, database,
                   floor, faults>>

IdleTimeout ==
    /\ idle
    /\ DropConnection
    /\ stream' = "Initial"
    /\ UpdateState("Unknown")
    /\ UNCHANGED <<calls, listeners, cache, database, floor, faults>>

\* RestartNetwork: the stream is stopped, and started again if there is a target.
RestartNetwork ==
    /\ Fault
    /\ DropConnection
    /\ \/ listeners # <<>> /\ StartFresh
       \/ listeners = <<>> /\ stream' = "Initial" /\ UpdateState("Unknown")
    /\ UNCHANGED <<calls, listeners, cache, database, floor>>

\* kOnlineStateTimeout has passed.
OnlineTimeout ==
    /\ timer
    /\ timer' = FALSE
    /\ SetAndBroadcast("Offline")
    /\ UNCHANGED <<calls, listeners, failed, stream, idle, connection, cache, database,
                   floor, faults>>

-----------------------------------------------------------------------------
(* Calls, on the main thread.                                               *)

GetDocument ==
    \E g \in Get \ asked :
        /\ asked' = asked \cup {g}
        /\ tasks' = Append(tasks, [kind |-> "listen", get |-> g])
        /\ UNCHANGED <<muted, answers, listeners, view, tracker, stream, idle,
                       connection, cache, database, floor, faults>>

\* Variant with a defect: a listener that was removed is not muted.
MuteNobody(g) == UNCHANGED muted

Mute(g) == muted' = muted \cup {g}

Complete(g) == answers' = [answers EXCEPT ![g] = @ + 1]

\* The events that a muted listener has still to run are dropped.
RunMuted ==
    /\ events # <<>>
    /\ Head(events).get \in muted
    /\ events' = Tail(events)
    /\ UNCHANGED <<calls, listeners, raised, current, online, tracker, stream, idle,
                   connection, cache, database, floor, faults>>

\* The first snapshot: the listener is muted and removed before the completion
\* is called, with an error if there is no document and the server was not asked.
RunSnapshot ==
    /\ events # <<>>
    /\ Head(events).get \notin muted
    /\ Head(events).kind # "error"
    /\ LET g == Head(events).get
       IN  /\ Mute(g)
           /\ tasks' = Append(tasks, [kind |-> "remove", get |-> g])
           /\ Complete(g)
    /\ events' = Tail(events)
    /\ UNCHANGED <<asked, listeners, raised, current, online, tracker, stream, idle,
                   connection, cache, database, floor, faults>>

\* An error: the worker queue has removed the listener already.
RunError ==
    /\ events # <<>>
    /\ Head(events).get \notin muted
    /\ Head(events).kind = "error"
    /\ Complete(Head(events).get)
    /\ events' = Tail(events)
    /\ UNCHANGED <<asked, tasks, muted, listeners, raised, current, online, tracker,
                   stream, idle, connection, cache, database, floor, faults>>

-----------------------------------------------------------------------------
(* Tasks of the worker queue.                                               *)

NextTask(kind) ==
    /\ tasks # <<>>
    /\ Head(tasks).kind = kind
    /\ tasks' = Tail(tasks)
    /\ UNCHANGED <<asked, muted, answers>>

Subject == Head(tasks).get

\* A new listener has its event at once if the view is in sync or the client is
\* offline.
RaiseNew(g, synced) ==
    IF synced THEN Raise(<<g>>, "synced", cache)
    ELSE IF online = "Offline" THEN Raise(<<g>>, "cached", cache) ELSE RaiseNothing

\* The first listener, with no stream: the stream is started.
ListenAndStart ==
    /\ NextTask("listen")
    /\ listeners = <<>> /\ ~Started
    /\ listeners' = <<Subject>>
    /\ floor' = server
    /\ stream' = IF stream = "Error" THEN "Backoff" ELSE "Starting"
    /\ SetAndBroadcast("Unknown")
    /\ timer' = TRUE
    /\ UNCHANGED <<failed, idle, connection, cache, database, faults>>

\* Variant with a defect: an open stream is not asked for the new target.
ListenOnStreamUnasked ==
    /\ NextTask("listen")
    /\ listeners = <<>> /\ Started
    /\ listeners' = <<Subject>>
    /\ floor' = server
    /\ RaiseNew(Subject, FALSE)
    /\ idle' = FALSE
    /\ UNCHANGED <<current, online, tracker, stream, connection, cache, database, faults>>

\* The first listener, when the stream has been started for another.
ListenOnStream ==
    /\ NextTask("listen")
    /\ listeners = <<>> /\ Started
    /\ listeners' = <<Subject>>
    /\ floor' = server
    /\ RaiseNew(Subject, FALSE)
    /\ IF stream = "Open" THEN Send(<<"watch">>) /\ idle' = FALSE
                          ELSE UNCHANGED <<connection, idle>>
    /\ UNCHANGED <<current, online, tracker, stream, cache, database, faults>>

\* Another listener of the same view.
ListenToView ==
    /\ NextTask("listen")
    /\ listeners # <<>>
    /\ listeners' = Append(listeners, Subject)
    /\ RaiseNew(Subject, current)
    /\ UNCHANGED <<current, online, tracker, stream, idle, connection, cache, database,
                   floor, faults>>

\* The listener is one of several, or went with an error before.
RemoveListener ==
    /\ NextTask("remove")
    /\ listeners # <<Subject>>
    /\ \/ \E i \in DOMAIN listeners :
              listeners[i] = Subject /\ listeners' = RemoveAt(listeners, i)
       \/ ~Contains(listeners, Subject) /\ UNCHANGED listeners
    /\ UNCHANGED <<view, tracker, stream, idle, connection, cache, database, floor,
                   faults>>

\* The last listener: the target is given up.  An open stream becomes idle; one
\* that is not could not tell whether the server can be reached.
RemoveLastListener ==
    /\ NextTask("remove")
    /\ listeners = <<Subject>>
    /\ listeners' = <<>>
    /\ current' = FALSE
    /\ RaiseNothing
    /\ IF stream = "Open"
       THEN /\ Send(<<"unwatch">>)
            /\ idle' = TRUE
            /\ UNCHANGED <<online, tracker>>
       ELSE /\ online' = "Unknown" /\ timer' = FALSE /\ failed' = FALSE
            /\ UNCHANGED <<connection, idle>>
    /\ UNCHANGED <<stream, cache, database, floor, faults>>

-----------------------------------------------------------------------------
(* Messages of the server.  Each one tells that the client is online.       *)

Reads(kinds) ==
    /\ replies # <<>> /\ Head(replies).kind \in kinds
    /\ replies' = Tail(replies)
    /\ heard' = TRUE

\* RecordTargetResponse, for a target that was added or removed.
ReadResponse ==
    /\ Reads({"added", "removed"})
    /\ expected' = expected - 1
    /\ UpdateState("Online")
    /\ UNCHANGED <<calls, listeners, stream, idle, sent, watched, told, cache, database,
                   floor, faults>>

\* Variant with a defect: what was sent for an earlier target counts.
IsActiveThoughPending == listeners # <<>>

\* A target with outstanding responses is not active: what comes was sent before.
IsActiveTarget == listeners # <<>> /\ expected = 0

\* The document and the view are in sync with the server, and all listeners hear
\* of it if that is a change.
ReadSnapshot ==
    /\ Reads({"document"})
    /\ online' = "Online" /\ timer' = FALSE /\ failed' = FALSE
    /\ IF IsActiveTarget
       THEN /\ cache' = Head(replies).doc
            /\ current' = TRUE
            /\ IF cache' # cache \/ ~current THEN Raise(listeners, "synced", cache')
                                            ELSE RaiseNothing
       ELSE UNCHANGED <<cache, current>> /\ RaiseNothing
    /\ UNCHANGED <<calls, listeners, stream, idle, expected, sent, watched, told,
                   database, floor, faults>>

\* ProcessTargetError: the target is gone, and with it the listeners, who are told.
ReadDenial ==
    /\ Reads({"denied"})
    /\ online' = "Online" /\ timer' = FALSE /\ failed' = FALSE
    /\ IF listeners # <<>>
       THEN /\ Raise(listeners, "error", 0)
            /\ listeners' = <<>>
            /\ current' = FALSE
            /\ expected' = 0
       ELSE RaiseNothing /\ UNCHANGED <<listeners, current, expected>>
    /\ UNCHANGED <<calls, stream, idle, sent, watched, told, cache, database, floor,
                   faults>>

-----------------------------------------------------------------------------
(* The server.                                                              *)

Answer(kind, doc) == replies' = Append(replies, [kind |-> kind, doc |-> doc])

ServerReads(request) ==
    /\ sent # <<>> /\ Head(sent) = request
    /\ sent' = Tail(sent)
    /\ UNCHANGED <<calls, listeners, view, tracker, stream, idle, expected, heard,
                   cache, database, floor, faults>>

ServerAddsTarget ==
    /\ ~refuses
    /\ ServerReads("watch")
    /\ Answer("added", 0)
    /\ watched' = TRUE
    /\ told' = NotTold

ServerDeniesTarget ==
    /\ refuses
    /\ ServerReads("watch")
    /\ Answer("denied", 0)
    /\ UNCHANGED <<watched, told>>

\* Whether it answers for a target it has denied is not known.
ServerRemovesTarget ==
    /\ ServerReads("unwatch")
    /\ \/ Answer("removed", 0)
       \/ ~watched /\ UNCHANGED replies
    /\ watched' = FALSE
    /\ told' = NotTold

\* The document, at first and when it has changed.
ServerSends ==
    /\ watched /\ told # server
    /\ Answer("document", server)
    /\ told' = server
    /\ UNCHANGED <<calls, listeners, view, tracker, stream, idle, expected, sent,
                   watched, heard, cache, database, floor, faults>>

\* Another device writes.
Commit ==
    /\ server < MaxVersion
    /\ server' = server + 1
    /\ UNCHANGED <<calls, listeners, view, tracker, stream, idle, connection, cache,
                   refuses, floor, faults>>

-----------------------------------------------------------------------------
Main == RunMuted \/ RunSnapshot \/ RunError

Worker ==
    \/ ListenAndStart \/ ListenOnStream \/ ListenToView
    \/ RemoveListener \/ RemoveLastListener

Connection ==
    \/ StreamOpens \/ BackoffElapses
    \/ ReadResponse \/ ReadSnapshot \/ ReadDenial

Server == ServerAddsTarget \/ ServerDeniesTarget \/ ServerRemovesTarget \/ ServerSends

Next ==
    \/ GetDocument \/ Main \/ Worker \/ Connection \/ Server
    \/ StreamFails \/ IdleTimeout \/ RestartNetwork \/ OnlineTimeout \/ Commit

Spec == Init /\ [][Next]_vars

\* Both queues run what they are given, a stream opens or fails, and the server
\* answers on a stream that does not fail.  A timer alone is not needed.
FairSpec ==
    /\ Spec
    /\ WF_vars(Main) /\ WF_vars(Worker) /\ WF_vars(Connection) /\ WF_vars(Server)

-----------------------------------------------------------------------------
(* Properties.                                                              *)

TypeOK ==
    /\ asked \subseteq Get /\ tasks \in Seq(Task) /\ events \in Seq(Event)
    /\ muted \subseteq Get /\ answers \in [Get -> Nat]
    /\ listeners \in Seq(Get) /\ raised \subseteq Get /\ current \in BOOLEAN
    /\ online \in {"Unknown", "Online", "Offline"}
    /\ timer \in BOOLEAN /\ failed \in BOOLEAN
    /\ stream \in StreamState /\ idle \in BOOLEAN
    /\ expected \in Int
    /\ sent \in Seq({"watch", "unwatch"}) /\ replies \in Seq(Message)
    /\ cache \in 0..MaxVersion /\ server \in 0..MaxVersion /\ refuses \in BOOLEAN
    /\ watched \in BOOLEAN /\ told \in 0..NotTold /\ heard \in BOOLEAN
    /\ floor \in 0..MaxVersion /\ faults \in 0..MaxFaults

\* The completion of a getDocument is called once, though its listener may be
\* given several events before the worker queue removes it: the promise that
\* ListenOnce waits for could not be asked for a second time.
AnsweredOnce == \A g \in Get : answers[g] <= 1

\* When both queues are empty, exactly the calls that wait for their answer have a
\* listener: none is left behind to keep the target, none is forgotten.
ListenersAreWaiting ==
    tasks = <<>> /\ events = <<>> =>
        \A g \in Get : Contains(listeners, g) <=> g \in asked /\ answers[g] = 0

\* The client counts itself online exactly while a message has come on the stream
\* there is: neither a timer left running nor an old stream decides.
OnlineIsHeard == online = "Online" <=> heard

\* The timer runs only while a stream is tried and nothing is known: it would trip
\* the assertions of HandleWatchStreamStart and of its own callback otherwise.
TimerOnlyWhileTrying == timer => online = "Unknown" /\ Started

\* An idle stream has no target, so that its Stop() never trips the assertion
\* "Watch stream was stopped gracefully while still needed".
IdleOnlyWhenDone == idle => stream = "Open" /\ listeners = <<>>

\* A view in sync is not older than the document was when its target was added:
\* a message sent for an earlier target of the same document does not count.
SyncedIsFresh == current => listeners # <<>> /\ cache >= floor

\* Once all requests and messages are read, the server watches the document if and
\* only if the client has a listener, and the client waits for no more responses.
TargetsAgree ==
    stream = "Open" /\ sent = <<>> /\ replies = <<>> /\ ~refuses =>
        /\ expected = 0
        /\ watched <=> listeners # <<>>

\* Types, and an online state and an idle timer that trip no assertion.
OnlineConsistent ==
    TypeOK /\ OnlineIsHeard /\ TimerOnlyWhileTrying /\ IdleOnlyWhenDone

\* A call is answered once, and until then it is listened for.
CallsAreHeldOnce == AnsweredOnce /\ ListenersAreWaiting

\* Every call is answered, by the server, the cache or an error.
GetsEnd == \A g \in Get : g \in asked ~> answers[g] > 0

\* OnlineStateTracker: "when the client is trying to connect to the backend, we
\* allow up to kMaxWatchStreamFailures within kOnlineStateTimeout for a connection
\* to succeed".  So a listener that waits while nothing is known has the timer.
TimedWhileTrying == listeners # <<>> /\ online = "Unknown" => timer

=============================================================================
