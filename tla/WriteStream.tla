----------------------------- MODULE WriteStream -----------------------------
(***************************************************************************)
(* The way of a write from setData to the server, inside the Firestore      *)
(* client of one user: the mutation queue on disk, the write pipeline of    *)
(* RemoteStore, the state machine of its write stream, and the gRPC call    *)
(* under it.  Every handler runs on the client's worker queue, so each is   *)
(* one action; the server, the network and the token of the user act        *)
(* between them.                                                            *)
(*                                                                         *)
(* Data.  A mutation batch is its number.  Open stands for the states Open  *)
(* and Healthy, which differ only in whether an authentication error        *)
(* invalidates the token.  A status is "transient" or "permanent", ABORTED   *)
(* counting as transient for a write.  How long a delay lasts, and the      *)
(* stream token (which is never sent with a handshake), are left out.       *)
(*                                                                         *)
(* Assumed of the outside: the server does not close a stream with the      *)
(* status OK, and serves no call that the client has left.                  *)
(***************************************************************************)
EXTENDS Naturals, Sequences, SequencesExt

CONSTANTS
    MaxBatches,   \* bound: writes made in a behaviour
    MaxPending,   \* kMaxPendingWrites
    Refused,      \* the writes the server refuses for good
    MaxFaults     \* bound: connections broken, tokens not given, restarts

ASSUME BatchAssumption == MaxBatches \in Nat /\ Refused \subseteq 1..MaxBatches
ASSUME PendingAssumption == MaxPending \in Nat \ {0}
ASSUME FaultAssumption == MaxFaults \in Nat

VARIABLES
    queue,       \* the mutation queue, on disk
    issued,      \* number of the last batch made
    acked,       \* history: batches whose caller was told of success
    rejected,    \* history: batches whose caller was told of a failure
    pipeline,    \* the batches fetched from the queue to be sent
    stream,      \* state of the write stream
    handshake,   \* handshake_complete
    idle,        \* whether the idle timer runs
    closeCount,  \* closes of the stream so far
    asked,       \* close counts with which tokens were asked for and not got
    sent,        \* messages written to the call that the server has not read
    replies,     \* messages of the server that the client has not read
    ended,       \* status with which the call was ended, or "no"
    failing,     \* a failed write on the worker queue: "no", "next", or
                 \* "behind" the read that came before it
    log,         \* the batches the server applied, in order
    faults       \* number of faults so far

store == <<queue, issued, acked, rejected>>
connection == <<sent, replies, ended, failing>>
vars == <<store, pipeline, stream, handshake, idle, closeCount, asked,
          connection, log, faults>>

Batch == 1..MaxBatches
Handshake == 0

StreamState == {"Initial", "Starting", "Open", "Error", "Backoff"}
Started(st) == st \in {"Starting", "Open", "Backoff"}

-----------------------------------------------------------------------------
(* FillWritePipeline.                                                       *)

\* Position in q of the last batch that is not after b (batches are numbered
\* in the order they were made).
LastUpTo(q, b) ==
    CHOOSE n \in 0..Len(q) : \A i \in 1..Len(q) : i <= n <=> q[i] <= b

\* Variant with a defect: the search starts from the front of the queue
\* whatever the pipeline holds.
FilledFromFront(q, p) ==
    p \o SubSeq(q, 1, IF Len(q) < MaxPending - Len(p)
                      THEN Len(q) ELSE MaxPending - Len(p))

\* The pipeline p with the batches of q that follow its last, as many as fit.
Filled(q, p) ==
    LET n    == LastUpTo(q, IF p = <<>> THEN 0 ELSE p[Len(p)])
        last == n + MaxPending - Len(p)
    IN  p \o SubSeq(q, n + 1, IF last < Len(q) THEN last ELSE Len(q))

\* Start() if there is something to send: from Error after a delay, else at
\* once, by asking for the token.
StartIfNeeded(st, p) ==
    \/ /\ p = <<>> \/ Started(st)
       /\ stream' = st
       /\ UNCHANGED asked
    \/ /\ p # <<>> /\ st = "Error"
       /\ stream' = "Backoff"
       /\ UNCHANGED asked
    \/ /\ p # <<>> /\ st = "Initial"
       /\ stream' = "Starting"
       /\ asked' = Append(asked, closeCount')

\* CancelIdleCheck by a write; MarkIdle when there is nothing to send.
IdleAfter(timer, st, sends, new, filled) ==
    \/ timer /\ ~(sends /\ new # <<>>)
    \/ filled = <<>> /\ st = "Open"

\* Variant with a defect: an open stream is written to before its handshake.
TakesWritesOnceOpen(st) == st = "Open"

TakesWrites(st) == st = "Open" /\ handshake

\* What ends most handlers: q, p and st are the queue, the pipeline and the
\* stream they leave, out the messages written, timer the idle timer.  A batch
\* that enters the pipeline is written when the stream can take it.
FillWritePipeline(q, p, st, out, timer) ==
    LET filled == Filled(q, p)
        new    == SubSeq(filled, Len(p) + 1, Len(filled))
        sends  == TakesWrites(st)
    IN  /\ pipeline' = filled
        /\ sent' = IF sends THEN out \o new ELSE out
        /\ idle' = IdleAfter(timer, st, sends, new, filled)
        /\ StartIfNeeded(st, filled)

-----------------------------------------------------------------------------
Init ==
    /\ queue = <<>> /\ issued = 0 /\ acked = {} /\ rejected = {}
    /\ pipeline = <<>>
    /\ stream = "Initial"
    /\ handshake = FALSE /\ idle = FALSE
    /\ closeCount = 0 /\ asked = <<>>
    /\ sent = <<>> /\ replies = <<>> /\ ended = "no" /\ failing = "no"
    /\ log = <<>>
    /\ faults = 0

Fault == faults < MaxFaults /\ faults' = faults + 1

-----------------------------------------------------------------------------
(* The stream closes.                                                       *)

\* The call is destroyed with what it held.
DropConnection == replies' = <<>> /\ ended' = "no" /\ failing' = "no"

\* Callbacks asked for before are invalid from now on.
CountClose == closeCount' = closeCount + 1

\* HandleWriteError: the first batch of the pipeline takes the blame, and the
\* next attempt is not delayed.
RejectFirst ==
    /\ rejected' = rejected \cup {Head(pipeline)}
    /\ queue' = Tail(queue)
    /\ FillWritePipeline(Tail(queue), Tail(pipeline), "Initial", <<>>, FALSE)
    /\ UNCHANGED <<issued, acked>>

\* Variant with a defect: the write that failed goes to the back.
KeepWritesRetriesLast ==
    /\ pipeline' = IF pipeline = <<>> THEN <<>>
                   ELSE Append(Tail(pipeline), Head(pipeline))
    /\ sent' = <<>>
    /\ idle' = FALSE
    /\ StartIfNeeded("Error", pipeline)
    /\ UNCHANGED store

\* Variant with a defect: the stream is not started again.
KeepWritesClosed ==
    /\ pipeline' = pipeline
    /\ sent' = <<>>
    /\ idle' = FALSE
    /\ stream' = "Error"
    /\ UNCHANGED <<store, asked>>

\* A transient error, or one before the handshake: all is sent again.
KeepWrites ==
    /\ pipeline' = pipeline
    /\ sent' = <<>>
    /\ idle' = FALSE
    /\ StartIfNeeded("Error", pipeline)
    /\ UNCHANGED store

\* Variant with a defect: an error before the handshake counts as a refusal.
BlamesWritesEarly(status) == status = "permanent" /\ pipeline # <<>>

BlamesWrites(status) ==
    status = "permanent" /\ handshake /\ pipeline # <<>>

\* Close(status) and OnWriteStreamClose for a status that is not OK.
CloseWithError(status) ==
    /\ CountClose
    /\ DropConnection
    /\ IF BlamesWrites(status) THEN RejectFirst ELSE KeepWrites
    /\ handshake' = FALSE

\* RestartNetwork: both streams stop, the pipeline is emptied, no delay, and
\* the pipeline is filled again from the queue.
StopAndRefill ==
    /\ IF Started(stream) THEN CountClose ELSE UNCHANGED closeCount
    /\ DropConnection
    /\ handshake' = FALSE
    /\ FillWritePipeline(queue, <<>>, "Initial", <<>>, FALSE)

-----------------------------------------------------------------------------
(* Tasks of the worker queue.                                               *)

\* setData: the batch goes to disk, then to the pipeline if there is room.
WriteMutations ==
    /\ issued < MaxBatches
    /\ issued' = issued + 1
    /\ queue' = Append(queue, issued + 1)
    /\ UNCHANGED closeCount
    /\ FillWritePipeline(queue', pipeline, stream, sent, idle)
    /\ UNCHANGED <<acked, rejected, handshake, replies, ended, failing, log, faults>>

\* The answer to a request for a token that was made after n closes.
TokenComes(n) ==
    \E i \in DOMAIN asked : asked[i] = n /\ asked' = RemoveAt(asked, i)

\* The token comes for the stream that asked for it: the call is made, and
\* the handshake is its first message.
ResumeStart ==
    /\ TokenComes(closeCount)
    /\ stream' = "Open"
    /\ sent' = <<Handshake>>
    /\ UNCHANGED <<store, pipeline, handshake, idle, closeCount, replies, ended,
                   failing, log, faults>>

\* No token comes.
NoToken ==
    /\ Fault
    /\ TokenComes(closeCount)
    /\ CountClose
    /\ DropConnection
    /\ stream' = IF pipeline = <<>> THEN "Error" ELSE "Backoff"
    /\ handshake' = FALSE
    /\ sent' = <<>>
    /\ idle' = FALSE
    /\ UNCHANGED <<store, pipeline, log>>

\* A token comes for a stream that was closed since.
StaleToken ==
    /\ \E n \in 0..closeCount : n # closeCount /\ TokenComes(n)
    /\ UNCHANGED <<store, pipeline, stream, handshake, idle, closeCount,
                   connection, log, faults>>

\* The delay after an error is over.
BackoffElapses ==
    /\ stream = "Backoff"
    /\ UNCHANGED closeCount
    /\ stream' = "Starting"
    /\ asked' = Append(asked, closeCount)
    /\ UNCHANGED <<store, pipeline, handshake, idle, connection, log, faults>>

\* OnWriteStreamHandshakeComplete: the whole pipeline is written.
ReadHandshake ==
    /\ replies # <<>> /\ Head(replies) = Handshake
    /\ replies' = Tail(replies)
    /\ handshake' = TRUE
    /\ sent' = sent \o pipeline
    /\ idle' = (idle /\ pipeline = <<>>)
    /\ UNCHANGED <<store, pipeline, stream, closeCount, asked, ended, failing, log,
                   faults>>

\* OnWriteStreamMutationResult: the answer, which names no batch, is for the
\* first of the pipeline.
ReadResult ==
    /\ replies # <<>> /\ Head(replies) # Handshake
    /\ failing # "next"
    /\ failing' = IF failing = "behind" THEN "next" ELSE failing
    /\ replies' = Tail(replies)
    /\ acked' = acked \cup {Head(pipeline)}
    /\ queue' = Tail(queue)
    /\ UNCHANGED closeCount
    /\ FillWritePipeline(queue', Tail(pipeline), stream, sent, idle)
    /\ UNCHANGED <<issued, rejected, handshake, ended, log, faults>>

\* OnStreamFinish after the pending read failed, all answers having been read.
ReadFails ==
    /\ ended # "no"
    /\ replies = <<>>
    /\ CloseWithError(ended)
    /\ UNCHANGED <<log, faults>>

\* The same after a write failed: the answers not yet read are cancelled
\* (FastFinishCompletionsBlocking).
WriteFails ==
    /\ failing = "next"
    /\ CloseWithError(ended)
    /\ UNCHANGED <<log, faults>>

\* The idle timer fires: Stop().
IdleTimeout ==
    /\ idle
    /\ CountClose
    /\ DropConnection
    /\ sent' = <<>>
    /\ idle' = FALSE
    /\ stream' = "Initial"
    /\ handshake' = FALSE
    /\ UNCHANGED <<store, pipeline, asked, log, faults>>

\* The network changed, or the app came to the foreground.
RestartNetwork ==
    /\ Fault
    /\ StopAndRefill
    /\ UNCHANGED <<store, log>>

\* The process ends and is started again: only the queue is left.
Restart ==
    /\ Fault
    /\ closeCount' = 0
    /\ asked' = IF queue = <<>> THEN <<>> ELSE <<0>>
    /\ stream' = IF queue = <<>> THEN "Initial" ELSE "Starting"
    /\ pipeline' = Filled(queue, <<>>)
    /\ handshake' = FALSE /\ idle' = FALSE
    /\ sent' = <<>>
    /\ DropConnection
    /\ UNCHANGED <<store, log>>

-----------------------------------------------------------------------------
(* The server and the network.                                              *)

ServerReads(message) ==
    /\ ended = "no"
    /\ sent # <<>> /\ Head(sent) = message
    /\ sent' = Tail(sent)

Answer(message) ==
    /\ replies' = Append(replies, message)
    /\ UNCHANGED <<ended, failing>>

ServerShakesHands ==
    /\ ServerReads(Handshake)
    /\ Answer(Handshake)
    /\ UNCHANGED <<store, pipeline, stream, handshake, idle, closeCount, asked,
                   log, faults>>

\* It does not accept the stream.
ServerRefusesStream ==
    /\ Fault
    /\ ServerReads(Handshake)
    /\ ended' = "permanent"
    /\ UNCHANGED <<store, pipeline, stream, handshake, idle, closeCount, asked,
                   replies, failing, log>>

ServerApplies ==
    \E b \in Batch \ Refused :
        /\ ServerReads(b)
        /\ log' = Append(log, b)
        /\ Answer(b)
        /\ UNCHANGED <<store, pipeline, stream, handshake, idle, closeCount,
                       asked, faults>>

\* A refusal ends the stream.
ServerRefuses ==
    \E b \in Refused :
        /\ ServerReads(b)
        /\ ended' = "permanent"
        /\ UNCHANGED <<store, pipeline, stream, handshake, idle, closeCount,
                       asked, replies, failing, log, faults>>

\* The connection breaks: what the server has not read is lost, and the last
\* of its answers may be.
Break ==
    /\ Fault
    /\ stream = "Open" /\ ended = "no"
    /\ ended' = "transient"
    /\ \E n \in 0..Len(replies) : replies' = SubSeq(replies, 1, n)
    /\ UNCHANGED <<store, pipeline, stream, handshake, idle, closeCount, asked,
                   sent, failing, log>>

\* A write to an ended call fails.  One read is pending at a time: if its answer
\* has come, it is on the worker queue already; a later answer will be behind.
BreakWrite ==
    /\ ended # "no"
    /\ sent # <<>>
    /\ failing = "no"
    /\ failing' = IF replies = <<>> THEN "next" ELSE "behind"
    /\ UNCHANGED <<store, pipeline, stream, handshake, idle, closeCount, asked,
                   sent, replies, ended, log, faults>>

-----------------------------------------------------------------------------
Client ==
    \/ ResumeStart \/ StaleToken \/ BackoffElapses
    \/ ReadHandshake \/ ReadResult \/ ReadFails \/ WriteFails

Server == ServerShakesHands \/ ServerApplies \/ ServerRefuses

Next ==
    \/ Client \/ Server
    \/ WriteMutations \/ NoToken \/ IdleTimeout \/ RestartNetwork \/ Restart
    \/ ServerRefusesStream \/ Break \/ BreakWrite

Spec == Init /\ [][Next]_vars

\* The worker queue runs what it is given, tokens come and delays end, the
\* server reads and answers.  The faults are finitely many.
FairSpec == Spec /\ WF_vars(Client) /\ WF_vars(Server)

-----------------------------------------------------------------------------
(* Properties.                                                              *)

TypeOK ==
    /\ queue \in Seq(Batch) /\ issued \in 0..MaxBatches
    /\ acked \subseteq Batch /\ rejected \subseteq Batch
    /\ pipeline \in Seq(Batch)
    /\ stream \in StreamState
    /\ handshake \in BOOLEAN /\ idle \in BOOLEAN
    /\ closeCount \in Nat /\ asked \in Seq(0..closeCount)
    /\ sent \in Seq(Batch \cup {Handshake})
    /\ replies \in Seq(Batch \cup {Handshake})
    /\ ended \in {"no", "transient", "permanent"}
    /\ failing \in {"no", "behind", "next"}
    /\ log \in Seq(Batch)
    /\ faults \in 0..MaxFaults

\* An answer names no batch: the client takes it for the first batch of its
\* pipeline.  So on a call that shook hands, what the server has answered and
\* what it has yet to read are the pipeline, in order, and nothing else, however
\* often the pipeline was filled, emptied or shortened before.
AnswersMatch ==
    (stream = "Open" /\ handshake /\ ended = "no") => replies \o sent = pipeline

\* OnWriteStreamMutationResult never finds an empty pipeline, nor takes an
\* answer for another batch, on a call that has ended either.
NoForeignAnswer ==
    handshake => /\ Len(replies) <= Len(pipeline)
                 /\ replies = SubSeq(pipeline, 1, Len(replies))

\* The pipeline is the front of the queue: no batch on disk is skipped by the
\* search for the next one, though batches leave both as they are answered.
PipelineIsTheFront ==
    /\ Len(pipeline) <= MaxPending
    /\ Len(pipeline) <= Len(queue)
    /\ pipeline = SubSeq(queue, 1, Len(pipeline))

\* The idle timer runs only on an open stream with nothing to send, so that its
\* Stop() never trips the assertion "Write stream was stopped gracefully while
\* still needed".
IdleOnlyWhenDone == idle => stream = "Open" /\ pipeline = <<>>

\* A token that is taken finds the stream in Starting: one that was asked for by
\* a stream that was closed since, and perhaps started again, is not taken.
TokenFindsItsStream ==
    Cardinality({i \in DOMAIN asked : asked[i] = closeCount})
        = IF stream = "Starting" THEN 1 ELSE 0

\* Types, and the four facts that keep the assertions of the stream true.
PipelineConsistent ==
    /\ TypeOK
    /\ NoForeignAnswer
    /\ PipelineIsTheFront
    /\ IdleOnlyWhenDone
    /\ TokenFindsItsStream

Applied(b) == \E i \in 1..Len(log) : log[i] = b

\* A write is given up only if the server refuses it or has applied it: never one
\* it has not read, which would be lost.
GivenUpWasServed == \A b \in rejected \ Refused : Applied(b)

\* The caller is told of success only when the server has applied the write.
AcceptedWasApplied == \A b \in acked : Applied(b)

\* Every write that was made waits in the queue or was answered, once, one way or
\* the other.
AnsweredOnce ==
    /\ acked \cap rejected = {}
    /\ acked \cup rejected = (1..issued) \ ToSet(queue)

\* What the server applied last is the newest of all it applied, but for writes
\* that wait in the queue and will come again: sending again what was applied
\* before never leaves an older document in the place of a newer one.
NewestWins ==
    \A i \in 1..Len(log) : log[i] <= log[Len(log)] \/ log[i] \in ToSet(queue)

\* What the callers are told, and what the server is left with, agree with what
\* the server did, whatever was sent again.
WritesAccountedFor ==
    GivenUpWasServed /\ AcceptedWasApplied /\ AnsweredOnce /\ NewestWins

\* What the server has answered on this call is what it took and will answer.
Promise == INSTANCE WriteQueue WITH
    taken <- IF handshake THEN Len(replies) ELSE 0

\* The write stream keeps the promise of WriteQueue, whatever breaks.
KeepsThePromise == Promise!Spec

\* Every write is answered in the end: the stream neither gives up a connection
\* with writes to send nor waits for a token or an answer that cannot come.
WritesEnd == queue # <<>> ~> queue = <<>>

\* HandleWriteError says of a permanent error that "the request itself was the
\* problem so it's not going to succeed if we resend it": only a write that the
\* server refuses is given up.
OnlyRefusedRejected == rejected \subseteq Refused

=============================================================================
