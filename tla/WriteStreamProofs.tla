-------------------------- MODULE WriteStreamProofs --------------------------
(***************************************************************************)
(* The safety of WriteStream, and that it implements WriteQueue, for any    *)
(* number of writes, any size of the pipeline, any faults and any refusals. *)
(*                                                                         *)
(* The inductive invariant says where each message of a call is.  Before    *)
(* the handshake there is one at most, the handshake itself.  After it the  *)
(* answers not yet read, followed by the writes not yet read, are the       *)
(* pipeline, place by place; when the call has ended the answers are still  *)
(* its front, and what the server refused is next behind them.  The         *)
(* pipeline is always the front of the queue, as long as it may be, and the *)
(* queue is the last so many of the writes made.                            *)
(***************************************************************************)
EXTENDS WriteStream, SequenceTheorems, FiniteSetTheorems, TLAPS

Message == Batch \cup {Handshake}

-----------------------------------------------------------------------------
(* The inductive invariant.                                                 *)

\* The writes that have left the queue are the first ones made.
Gone == issued - Len(queue)

QueueIsTheRest ==
    /\ Len(queue) <= issued
    /\ \A i \in 1..Len(queue) : queue[i] = Gone + i
    /\ acked \cup rejected = 1..Gone
    /\ acked \cap rejected = {}

\* As many of q as the pipeline takes, and p is these.
Fit(q) == IF Len(q) < MaxPending THEN Len(q) ELSE MaxPending

IsFront(p, q) == Len(p) = Fit(q) /\ \A i \in 1..Len(p) : p[i] = q[i]

\* Without a call there are no messages.
Disconnected ==
    stream # "Open" =>
        ~handshake /\ sent = <<>> /\ replies = <<>> /\ ended = "no" /\ failing = "no"

\* Nothing but the handshake is sent or answered before it is complete.
BeforeHandshake ==
    ~handshake =>
        /\ sent \in {<<>>, <<Handshake>>}
        /\ replies \in {<<>>, <<Handshake>>}
        /\ sent = <<>> \/ replies = <<>>
        /\ ended = "permanent" => replies = <<>>

\* What has been answered are the first batches of the pipeline, and applied.
RepliesMatch ==
    handshake =>
        /\ Len(replies) <= Len(pipeline)
        /\ \A i \in 1..Len(replies) : replies[i] = pipeline[i] /\ Applied(replies[i])

\* What waits to be read by the server are the others.
SentMatches ==
    handshake =>
        /\ \A i \in 1..Len(sent) : sent[i] \in Batch
        /\ ended = "no" =>
              /\ Len(replies) + Len(sent) = Len(pipeline)
              /\ \A i \in 1..Len(sent) : sent[i] = pipeline[Len(replies) + i]

\* A refusal was of the batch after those that were answered.
RefusedIsNext ==
    handshake /\ ended = "permanent" =>
        Len(replies) < Len(pipeline) /\ pipeline[Len(replies) + 1] \in Refused

FailsWhenEnded == failing # "no" => ended # "no"

IdleIsShaken == idle => handshake /\ pipeline = <<>>

\* The token that was asked for last, and not got.
TokenAsked ==
    /\ stream = "Starting" =>
          \E i \in 1..Len(asked) :
              asked[i] = closeCount /\ \A j \in 1..Len(asked) : asked[j] = closeCount => j = i
    /\ stream # "Starting" => \A j \in 1..Len(asked) : asked[j] # closeCount

\* What the server applied was made and not refused; its last is the newest of
\* what has left the queue, and of what was answered on this call.
LogOfMade ==
    \A i \in 1..Len(log) : log[i] \in 1..issued /\ log[i] \notin Refused

LogEndsNewest ==
    \A i \in 1..Len(log) : log[i] <= Gone => log[i] <= log[Len(log)]

RepliesAreOld ==
    handshake => \A i \in 1..Len(replies) : replies[i] <= log[Len(log)]

IndInv ==
    /\ TypeOK
    /\ QueueIsTheRest
    /\ IsFront(pipeline, queue)
    /\ Disconnected /\ BeforeHandshake
    /\ RepliesMatch /\ SentMatches /\ RefusedIsNext
    /\ FailsWhenEnded /\ IdleIsShaken /\ TokenAsked
    /\ LogOfMade /\ LogEndsNewest /\ RepliesAreOld
    /\ GivenUpWasServed /\ AcceptedWasApplied

-----------------------------------------------------------------------------
(* The pipeline is filled from the queue.                                   *)

Increasing(q) == \A i, j \in 1..Len(q) : i < j => q[i] < q[j]

\* The search for the last batch of a front finds its end.
LEMMA LastUpToFront ==
  ASSUME NEW q \in Seq(Batch), Increasing(q), NEW k \in 1..Len(q)
  PROVE  LastUpTo(q, q[k]) = k
<1> USE BatchAssumption DEF Batch
<1>1. Len(q) \in Nat /\ \A i \in 1..Len(q) : q[i] \in Nat
  BY LenProperties, ElementOfSeq
<1>2. k \in 0..Len(q) /\ \A i \in 1..Len(q) : i <= k <=> q[i] <= q[k]
  <2>1. ASSUME NEW i \in 1..Len(q) PROVE i <= k <=> q[i] <= q[k]
    <3>1. i < k => q[i] < q[k]
      BY DEF Increasing
    <3>2. k < i => q[k] < q[i]
      BY DEF Increasing
    <3> QED BY <3>1, <3>2, <1>1
  <2> QED BY <2>1, <1>1
<1>3. ASSUME NEW n \in 0..Len(q), \A i \in 1..Len(q) : i <= n <=> q[i] <= q[k]
      PROVE  n = k
  <2>1. k <= n
    BY <1>3, <1>1
  <2>2. ~(k < n)
    <3>1. SUFFICES ASSUME k < n PROVE FALSE
      OBVIOUS
    <3>2. n \in 1..Len(q) /\ q[n] <= q[k] /\ q[k] < q[n]
      BY <1>3, <3>1, <1>1 DEF Increasing
    <3> QED BY <3>2, <1>1
  <2> QED BY <2>1, <2>2
<1> QED BY <1>2, <1>3 DEF LastUpTo

\* For an empty one it finds the place before the first.
LEMMA LastUpToNone ==
  ASSUME NEW q \in Seq(Batch)
  PROVE  LastUpTo(q, 0) = 0
<1> USE BatchAssumption DEF Batch
<1>1. Len(q) \in Nat /\ \A i \in 1..Len(q) : q[i] \in Nat /\ q[i] > 0
  BY LenProperties, ElementOfSeq
<1>2. 0 \in 0..Len(q) /\ \A i \in 1..Len(q) : i <= 0 <=> q[i] <= 0
  BY <1>1
<1>3. ASSUME NEW n \in 0..Len(q), \A i \in 1..Len(q) : i <= n <=> q[i] <= 0
      PROVE  n = 0
  <2>1. SUFFICES ASSUME n # 0 PROVE FALSE
    OBVIOUS
  <2>2. n \in 1..Len(q)
    BY <2>1, <1>1
  <2> QED BY <2>2, <1>3, <1>1
<1> QED BY <1>2, <1>3 DEF LastUpTo

\* A pipeline that holds the first batches of the queue is filled up with those
\* that follow.
LEMMA FilledIsFront ==
  ASSUME NEW q \in Seq(Batch), Increasing(q), NEW p \in Seq(Batch),
         Len(p) <= Fit(q), \A i \in 1..Len(p) : p[i] = q[i]
  PROVE  Filled(q, p) \in Seq(Batch) /\ IsFront(Filled(q, p), q)
<1> USE PendingAssumption
<1>1. /\ Len(q) \in Nat /\ Len(p) \in Nat
      /\ \A i \in 1..Len(q) : q[i] \in Batch
  BY LenProperties, ElementOfSeq
<1>2. Fit(q) \in Nat /\ Fit(q) <= Len(q) /\ Fit(q) <= MaxPending
  BY <1>1 DEF Fit
<1>3. LastUpTo(q, IF p = <<>> THEN 0 ELSE p[Len(p)]) = Len(p)
  <2>1. CASE p = <<>>
    BY <2>1, LastUpToNone, EmptySeq
  <2>2. CASE p # <<>>
    <3>1. Len(p) \in 1..Len(q) /\ p[Len(p)] = q[Len(p)]
      BY <2>2, <1>1, <1>2, EmptySeq
    <3> QED BY <2>2, <3>1, LastUpToFront
  <2> QED BY <2>1, <2>2
<1> DEFINE m == IF MaxPending < Len(q) THEN MaxPending ELSE Len(q)
           rest == SubSeq(q, Len(p) + 1, m)
<1>4. m = Fit(q)
  BY <1>1 DEF Fit
<1>5. Filled(q, p) = p \o rest
  <2>1. Len(p) + MaxPending - Len(p) = MaxPending
    BY <1>1
  <2> QED BY <1>3, <2>1 DEF Filled
<1>6. /\ rest \in Seq(Batch)
      /\ Len(rest) = Fit(q) - Len(p)
      /\ \A i \in 1..(Fit(q) - Len(p)) : rest[i] = q[Len(p) + i]
  <2>1. Len(p) + 1 \in Int /\ m \in Int /\ \A i \in (Len(p) + 1)..m : q[i] \in Batch
    BY <1>1, <1>2, <1>4
  <2>2. /\ rest \in Seq(Batch)
        /\ Len(rest) = IF Len(p) + 1 <= m THEN m - (Len(p) + 1) + 1 ELSE 0
        /\ \A i \in 1..(m - (Len(p) + 1) + 1) : rest[i] = q[Len(p) + 1 + i - 1]
    BY <2>1, SubSeqProperties
  <2> HIDE DEF rest, m
  <2> QED BY <2>2, <1>1, <1>2, <1>4
<1> HIDE DEF rest, m
<1>7. /\ p \o rest \in Seq(Batch)
      /\ Len(p \o rest) = Len(p) + Len(rest)
      /\ \A i \in 1..(Len(p) + Len(rest)) :
            (p \o rest)[i] = IF i <= Len(p) THEN p[i] ELSE rest[i - Len(p)]
  BY <1>6, ConcatProperties
<1>8. Len(p \o rest) = Fit(q)
  BY <1>1, <1>2, <1>6, <1>7
<1>9. ASSUME NEW i \in 1..Fit(q) PROVE (p \o rest)[i] = q[i]
  <2>1. CASE i <= Len(p)
    BY <2>1, <1>1, <1>2, <1>7, <1>8
  <2>2. CASE ~(i <= Len(p))
    <3>1. i - Len(p) \in 1..(Fit(q) - Len(p)) /\ Len(p) + (i - Len(p)) = i
      BY <2>2, <1>1, <1>2
    <3> QED BY <2>2, <3>1, <1>1, <1>2, <1>6, <1>7, <1>8
  <2> QED BY <2>1, <2>2
<1> QED BY <1>5, <1>7, <1>8, <1>9 DEF IsFront

\* What a handler leaves that ends by filling the pipeline: the batches that enter
\* it follow what was written to the call, if the stream takes writes.
LEMMA FillStep ==
  ASSUME NEW q \in Seq(Batch), Increasing(q), NEW p \in Seq(Batch),
         Len(p) <= Fit(q), \A i \in 1..Len(p) : p[i] = q[i],
         NEW st, NEW out \in Seq(Message), NEW timer \in BOOLEAN,
         FillWritePipeline(q, p, st, out, timer)
  PROVE  /\ pipeline' \in Seq(Batch)
         /\ IsFront(pipeline', q)
         /\ Len(p) <= Len(pipeline')
         /\ sent' \in Seq(Message)
         /\ ~TakesWrites(st) => sent' = out
         /\ TakesWrites(st) =>
               /\ Len(sent') = Len(out) + (Len(pipeline') - Len(p))
               /\ \A i \in 1..Len(out) : sent'[i] = out[i]
               /\ \A i \in 1..(Len(pipeline') - Len(p)) :
                     sent'[Len(out) + i] = pipeline'[Len(p) + i]
         /\ idle' \in BOOLEAN
         /\ idle' => \/ pipeline' = <<>> /\ st = "Open"
                     \/ timer /\ (TakesWrites(st) => Len(pipeline') = Len(p))
         /\ StartIfNeeded(st, pipeline')
<1> DEFINE filled == Filled(q, p)
           new == SubSeq(filled, Len(p) + 1, Len(filled))
<1>1. filled \in Seq(Batch) /\ IsFront(filled, q)
  BY FilledIsFront
<1>2. /\ pipeline' = filled
      /\ sent' = IF TakesWrites(st) THEN out \o new ELSE out
      /\ idle' = IdleAfter(timer, st, TakesWrites(st), new, filled)
      /\ StartIfNeeded(st, filled)
  BY DEF FillWritePipeline
<1> HIDE DEF filled
<1>3. /\ Len(p) \in Nat /\ Len(filled) \in Nat /\ Len(out) \in Nat
      /\ \A i \in 1..Len(filled) : filled[i] \in Batch
  BY <1>1, LenProperties, ElementOfSeq
<1>4. Len(p) <= Len(filled)
  BY <1>1, <1>3 DEF IsFront
<1>5. /\ new \in Seq(Batch)
      /\ Len(new) = Len(filled) - Len(p)
      /\ \A i \in 1..(Len(filled) - Len(p)) : new[i] = filled[Len(p) + i]
  <2>1. /\ Len(p) + 1 \in Int /\ Len(filled) \in Int
        /\ \A i \in (Len(p) + 1)..Len(filled) : filled[i] \in Batch
    BY <1>3
  <2>2. /\ new \in Seq(Batch)
        /\ Len(new) = IF Len(p) + 1 <= Len(filled) THEN Len(filled) - (Len(p) + 1) + 1 ELSE 0
        /\ \A i \in 1..(Len(filled) - (Len(p) + 1) + 1) : new[i] = filled[Len(p) + 1 + i - 1]
    BY <2>1, SubSeqProperties
  <2> HIDE DEF new
  <2> QED BY <2>2, <1>3, <1>4
<1> HIDE DEF new
<1>6. new \in Seq(Message)
  BY <1>5, SeqMonotonic DEF Message
<1>7. /\ out \o new \in Seq(Message)
      /\ Len(out \o new) = Len(out) + Len(new)
      /\ \A i \in 1..(Len(out) + Len(new)) :
            (out \o new)[i] = IF i <= Len(out) THEN out[i] ELSE new[i - Len(out)]
  BY <1>6, ConcatProperties
<1>8. \A i \in 1..Len(out) : (out \o new)[i] = out[i]
  BY <1>3, <1>4, <1>5, <1>7
<1>9. \A i \in 1..(Len(filled) - Len(p)) : (out \o new)[Len(out) + i] = filled[Len(p) + i]
  <2>1. TAKE i \in 1..(Len(filled) - Len(p))
  <2>2. /\ Len(out) + i \in 1..(Len(out) + Len(new)) /\ ~(Len(out) + i <= Len(out))
        /\ (Len(out) + i) - Len(out) = i
    BY <1>3, <1>4, <1>5
  <2> QED BY <2>2, <1>5, <1>7
<1>10. sent' \in Seq(Message)
  BY <1>2, <1>7
<1>11. /\ idle' \in BOOLEAN
       /\ idle' => \/ filled = <<>> /\ st = "Open"
                   \/ timer /\ (TakesWrites(st) => Len(filled) = Len(p))
  <2>1. new = <<>> => Len(filled) = Len(p)
    BY <1>3, <1>5, EmptySeq
  <2> QED BY <2>1, <1>2 DEF IdleAfter
<1> QED BY <1>1, <1>2, <1>3, <1>4, <1>5, <1>7, <1>8, <1>9, <1>10, <1>11

-----------------------------------------------------------------------------
(* Tokens.                                                                  *)

\* RemoveAt drops one entry and keeps the order of the others.
LEMMA RemoveAtEntries ==
  ASSUME NEW S, NEW s \in Seq(S), NEW i \in 1..Len(s)
  PROVE  /\ RemoveAt(s, i) \in Seq(S)
         /\ Len(RemoveAt(s, i)) = Len(s) - 1
         /\ \A j \in 1..(Len(s) - 1) :
               RemoveAt(s, i)[j] = IF j < i THEN s[j] ELSE s[j + 1]
<1> DEFINE a == SubSeq(s, 1, i - 1)
           b == SubSeq(s, i + 1, Len(s))
<1>1. Len(s) \in Nat /\ \A j \in 1..Len(s) : s[j] \in S
  BY LenProperties, ElementOfSeq
<1>2. /\ a \in Seq(S)
      /\ Len(a) = i - 1
      /\ \A j \in 1..(i - 1) : a[j] = s[j]
  <2>1. 1 \in Int /\ i - 1 \in Int /\ \A j \in 1..(i - 1) : s[j] \in S
    BY <1>1
  <2>2. /\ a \in Seq(S)
        /\ Len(a) = IF 1 <= i - 1 THEN (i - 1) - 1 + 1 ELSE 0
        /\ \A j \in 1..((i - 1) - 1 + 1) : a[j] = s[1 + j - 1]
    BY <2>1, SubSeqProperties
  <2> HIDE DEF a
  <2> QED BY <2>2, <1>1
<1>3. /\ b \in Seq(S)
      /\ Len(b) = Len(s) - i
      /\ \A j \in 1..(Len(s) - i) : b[j] = s[j + i]
  <2>1. i + 1 \in Int /\ Len(s) \in Int /\ \A j \in (i + 1)..Len(s) : s[j] \in S
    BY <1>1
  <2>2. /\ b \in Seq(S)
        /\ Len(b) = IF i + 1 <= Len(s) THEN Len(s) - (i + 1) + 1 ELSE 0
        /\ \A j \in 1..(Len(s) - (i + 1) + 1) : b[j] = s[(i + 1) + j - 1]
    BY <2>1, SubSeqProperties
  <2> HIDE DEF b
  <2> QED BY <2>2, <1>1
<1>4. /\ a \o b \in Seq(S)
      /\ Len(a \o b) = Len(a) + Len(b)
      /\ \A j \in 1..(Len(a) + Len(b)) :
            (a \o b)[j] = IF j <= Len(a) THEN a[j] ELSE b[j - Len(a)]
  BY <1>2, <1>3, ConcatProperties
<1>5. RemoveAt(s, i) = a \o b
  BY DEF RemoveAt
<1> HIDE DEF a, b
<1>6. Len(a) + Len(b) = Len(s) - 1
  BY <1>1, <1>2, <1>3
<1>7. ASSUME NEW j \in 1..(Len(s) - 1)
      PROVE  (a \o b)[j] = IF j < i THEN s[j] ELSE s[j + 1]
  <2>1. CASE j < i
    BY <2>1, <1>1, <1>2, <1>4, <1>6
  <2>2. CASE ~(j < i)
    <3>1. j - (i - 1) \in 1..(Len(s) - i) /\ (j - (i - 1)) + i = j + 1
      BY <2>2, <1>1
    <3> QED BY <2>2, <3>1, <1>1, <1>2, <1>3, <1>4, <1>6
  <2> QED BY <2>1, <2>2
<1> QED BY <1>4, <1>5, <1>6, <1>7

\* A stream that is started asks for one token more, that of its close count.
LEMMA StartAsks ==
  ASSUME asked \in Seq(0..closeCount), closeCount \in Nat, closeCount' \in Nat,
         closeCount <= closeCount', \A j \in 1..Len(asked) : asked[j] # closeCount',
         NEW st \in {"Initial", "Open", "Error", "Backoff"}, NEW p, StartIfNeeded(st, p)
  PROVE  /\ asked' \in Seq(0..closeCount')
         /\ TokenAsked'
         /\ stream' \in StreamState
         /\ st # "Open" => stream' # "Open"
         /\ st = "Open" => stream' = "Open"
<1>1. Len(asked) \in Nat /\ asked \in Seq(0..closeCount')
  <2>1. 0..closeCount \subseteq 0..closeCount'
    OBVIOUS
  <2> QED BY <2>1, SeqMonotonic, LenProperties
<1>2. CASE stream' = st /\ UNCHANGED asked
  BY <1>1, <1>2 DEF TokenAsked, StreamState
<1>3. CASE st = "Error" /\ stream' = "Backoff" /\ UNCHANGED asked
  BY <1>1, <1>3 DEF TokenAsked, StreamState
<1>4. CASE st = "Initial" /\ stream' = "Starting" /\ asked' = Append(asked, closeCount')
  <2>1. /\ asked' \in Seq(0..closeCount')
        /\ Len(asked') = Len(asked) + 1
        /\ \A i \in 1..Len(asked) : asked'[i] = asked[i]
        /\ asked'[Len(asked) + 1] = closeCount'
    <3>1. closeCount' \in 0..closeCount'
      OBVIOUS
    <3> QED BY <3>1, <1>1, <1>4, AppendProperties
  <2>2. ASSUME NEW j \in 1..Len(asked'), asked'[j] = closeCount' PROVE j = Len(asked) + 1
    <3>1. j \in 1..Len(asked) \/ j = Len(asked) + 1
      BY <1>1, <2>1
    <3>2. CASE j \in 1..Len(asked)
      BY <2>1, <2>2, <3>2
    <3> QED BY <3>1, <3>2
  <2>3. Len(asked) + 1 \in 1..Len(asked')
    BY <1>1, <2>1
  <2>4. TokenAsked'
    BY <1>4, <2>1, <2>2, <2>3 DEF TokenAsked
  <2> QED BY <1>4, <2>1, <2>4 DEF StreamState
<1> QED BY <1>2, <1>3, <1>4 DEF StartIfNeeded

\* The answer to another request for a token leaves the one for this stream.
LEMMA TokenTaken ==
  ASSUME asked \in Seq(0..closeCount), closeCount \in Nat, TokenAsked, NEW n, TokenComes(n)
  PROVE  /\ asked' \in Seq(0..closeCount)
         /\ n = closeCount =>
               stream = "Starting" /\ \A j \in 1..Len(asked') : asked'[j] # closeCount
         /\ n # closeCount /\ UNCHANGED <<stream, closeCount>> => TokenAsked'
<1>1. Len(asked) \in Nat
  BY LenProperties
<1>2. PICK i \in 1..Len(asked) : asked[i] = n /\ asked' = RemoveAt(asked, i)
  BY LenProperties DEF TokenComes
<1>3. /\ asked' \in Seq(0..closeCount)
      /\ Len(asked') = Len(asked) - 1
      /\ \A j \in 1..(Len(asked) - 1) : asked'[j] = IF j < i THEN asked[j] ELSE asked[j + 1]
  BY <1>2, RemoveAtEntries
<1>4. ASSUME n = closeCount
      PROVE  stream = "Starting" /\ \A j \in 1..Len(asked') : asked'[j] # closeCount
  <2>1. stream = "Starting"
    BY <1>2, <1>4 DEF TokenAsked
  <2>2. \A j \in 1..Len(asked) : asked[j] = closeCount => j = i
    BY <1>2, <1>4, <2>1 DEF TokenAsked
  <2>3. ASSUME NEW j \in 1..Len(asked') PROVE asked'[j] # closeCount
    <3>1. j \in 1..Len(asked) /\ j + 1 \in 1..Len(asked) /\ j \in 1..(Len(asked) - 1)
      BY <1>1, <1>3
    <3>2. CASE j < i
      <4>1. asked'[j] = asked[j] /\ j # i
        BY <1>3, <3>1, <3>2
      <4> QED BY <2>2, <3>1, <4>1
    <3>3. CASE ~(j < i)
      <4>1. asked'[j] = asked[j + 1] /\ j + 1 # i
        BY <1>3, <3>1, <3>3
      <4> QED BY <2>2, <3>1, <4>1
    <3> QED BY <3>2, <3>3
  <2> QED BY <2>1, <2>3
<1>5. ASSUME n # closeCount, UNCHANGED <<stream, closeCount>>
      PROVE  TokenAsked'
  <2>1. CASE stream = "Starting"
    <3>1. PICK k \in 1..Len(asked) :
            asked[k] = closeCount /\ \A j \in 1..Len(asked) : asked[j] = closeCount => j = k
      BY <2>1 DEF TokenAsked
    <3>2. k # i
      BY <1>2, <1>5, <3>1
    <3> DEFINE m == IF k < i THEN k ELSE k - 1
    <3>3. m \in 1..Len(asked') /\ asked'[m] = closeCount
      <4>1. CASE k < i
        BY <4>1, <1>1, <1>3, <3>1
      <4>2. CASE i < k
        <5>1. k - 1 \in 1..(Len(asked) - 1) /\ ~(k - 1 < i) /\ (k - 1) + 1 = k
          BY <4>2, <1>1
        <5>2. m = k - 1
          BY <4>2
        <5>3. asked'[k - 1] = asked[k]
          BY <1>3, <5>1
        <5> QED BY <1>3, <3>1, <5>1, <5>2, <5>3
      <4> QED BY <4>1, <4>2, <3>2
    <3>4. ASSUME NEW j \in 1..Len(asked'), asked'[j] = closeCount PROVE j = m
      <4>1. j \in 1..Len(asked) /\ j + 1 \in 1..Len(asked) /\ j \in 1..(Len(asked) - 1)
        BY <1>1, <1>3
      <4>2. CASE j < i
        BY <4>1, <4>2, <1>3, <3>1, <3>4
      <4>3. CASE ~(j < i)
        <5>1. asked'[j] = asked[j + 1]
          BY <1>3, <4>1, <4>3
        <5>2. j + 1 = k
          BY <3>1, <3>4, <4>1, <5>1
        <5> QED BY <4>1, <4>3, <5>2
      <4> QED BY <4>2, <4>3
    <3> HIDE DEF m
    <3> QED BY <1>5, <2>1, <3>3, <3>4 DEF TokenAsked
  <2>2. CASE stream # "Starting"
    <3>1. ASSUME NEW j \in 1..Len(asked') PROVE asked'[j] # closeCount
      <4>1. j \in 1..Len(asked) /\ j + 1 \in 1..Len(asked) /\ j \in 1..(Len(asked) - 1)
        BY <1>1, <1>3
      <4> QED BY <4>1, <1>3, <2>2 DEF TokenAsked
    <3> QED BY <1>5, <2>2, <3>1 DEF TokenAsked
  <2> QED BY <2>1, <2>2
<1> QED BY <1>3, <1>4, <1>5

-----------------------------------------------------------------------------
(* What the invariant says of the queue and the pipeline.                   *)

\* The batches of the queue are the last ones made, in order, and the pipeline
\* holds the first of them.
LEMMA QueueFacts ==
  ASSUME TypeOK, QueueIsTheRest, IsFront(pipeline, queue)
  PROVE  /\ Len(queue) \in Nat /\ issued \in Nat /\ Gone \in Nat
         /\ Gone + Len(queue) = issued
         /\ \A i \in 1..Len(queue) : queue[i] = Gone + i
         /\ Increasing(queue)
         /\ Len(pipeline) \in Nat /\ Len(pipeline) <= Len(queue)
         /\ \A i \in 1..Len(pipeline) : pipeline[i] = Gone + i
         /\ pipeline # <<>> => pipeline[1] = Gone + 1 /\ queue # <<>>
         /\ queue # <<>> => pipeline # <<>>
<1> USE BatchAssumption, PendingAssumption
<1>1. Len(queue) \in Nat /\ issued \in Nat /\ Gone \in Nat /\ Len(pipeline) \in Nat
  <2>1. Len(queue) \in Nat /\ Len(pipeline) \in Nat
    BY LenProperties DEF TypeOK
  <2> QED BY <2>1 DEF TypeOK, QueueIsTheRest, Gone
<1>2. Gone + Len(queue) = issued
  BY <1>1 DEF TypeOK, Gone
<1>3. \A i \in 1..Len(queue) : queue[i] = Gone + i
  BY DEF QueueIsTheRest
<1>4. Increasing(queue)
  BY <1>1, <1>3 DEF Increasing
<1>5. Len(pipeline) <= Len(queue) /\ (Len(queue) > 0 => Len(pipeline) > 0)
  BY <1>1 DEF IsFront, Fit
<1>6. \A i \in 1..Len(pipeline) : pipeline[i] = Gone + i
  BY <1>1, <1>3, <1>5 DEF IsFront
<1>7. /\ pipeline # <<>> => Len(pipeline) > 0
      /\ queue # <<>> => Len(queue) > 0
      /\ pipeline = <<>> => Len(pipeline) = 0
      /\ queue = <<>> => Len(queue) = 0
  BY <1>1, EmptySeq DEF TypeOK
<1> QED BY <1>1, <1>2, <1>3, <1>4, <1>5, <1>6, <1>7

\* When the first batch leaves both, the rest of the pipeline is still a front.
LEMMA TailFacts ==
  ASSUME TypeOK, QueueIsTheRest, IsFront(pipeline, queue), pipeline # <<>>
  PROVE  /\ Head(pipeline) = Gone + 1 /\ Head(queue) = Gone + 1
         /\ Tail(queue) \in Seq(Batch) /\ Len(Tail(queue)) = Len(queue) - 1
         /\ \A i \in 1..(Len(queue) - 1) : Tail(queue)[i] = Gone + 1 + i
         /\ Increasing(Tail(queue))
         /\ Tail(pipeline) \in Seq(Batch) /\ Len(Tail(pipeline)) = Len(pipeline) - 1
         /\ Len(Tail(pipeline)) <= Fit(Tail(queue))
         /\ \A i \in 1..Len(Tail(pipeline)) : Tail(pipeline)[i] = Tail(queue)[i]
         /\ \A i \in 1..(Len(pipeline) - 1) : Tail(pipeline)[i] = pipeline[i + 1]
<1> USE PendingAssumption
<1>1. /\ Len(queue) \in Nat /\ Gone \in Nat /\ Len(pipeline) \in Nat
      /\ Len(pipeline) <= Len(queue) /\ queue # <<>>
      /\ \A i \in 1..Len(queue) : queue[i] = Gone + i
      /\ \A i \in 1..Len(pipeline) : pipeline[i] = Gone + i
  BY QueueFacts
<1>2. queue \in Seq(Batch) /\ pipeline \in Seq(Batch)
  BY DEF TypeOK
<1>3. /\ Head(queue) = queue[1] /\ Tail(queue) \in Seq(Batch)
      /\ Len(Tail(queue)) = Len(queue) - 1
      /\ \A i \in 1..Len(Tail(queue)) : Tail(queue)[i] = queue[i + 1]
  BY <1>1, <1>2, HeadTailProperties
<1>4. /\ Head(pipeline) = pipeline[1] /\ Tail(pipeline) \in Seq(Batch)
      /\ Len(Tail(pipeline)) = Len(pipeline) - 1
      /\ \A i \in 1..Len(Tail(pipeline)) : Tail(pipeline)[i] = pipeline[i + 1]
  BY <1>2, HeadTailProperties
<1>5. Len(pipeline) >= 1 /\ Len(queue) >= 1
  BY <1>1, <1>2, EmptySeq
<1>6. Head(pipeline) = Gone + 1 /\ Head(queue) = Gone + 1
  BY <1>1, <1>3, <1>4, <1>5
<1>7. \A i \in 1..(Len(queue) - 1) : Tail(queue)[i] = Gone + 1 + i
  BY <1>1, <1>3
<1>8. Increasing(Tail(queue))
  BY <1>1, <1>3, <1>7 DEF Increasing
<1>9. \A i \in 1..(Len(pipeline) - 1) : Tail(pipeline)[i] = Gone + 1 + i
  BY <1>1, <1>4
<1>10. \A i \in 1..Len(Tail(pipeline)) : Tail(pipeline)[i] = Tail(queue)[i]
  BY <1>1, <1>4, <1>7, <1>9
<1>11. Len(Tail(pipeline)) <= Fit(Tail(queue))
  BY <1>1, <1>3, <1>4 DEF IsFront, Fit
<1> QED BY <1>3, <1>4, <1>6, <1>7, <1>8, <1>10, <1>11

\* The queue and its answers, after one more batch has left.
LEMMA LeavesQueue ==
  ASSUME TypeOK, QueueIsTheRest, IsFront(pipeline, queue), pipeline # <<>>,
         queue' = Tail(queue), issued' = issued,
         \/ acked' = acked \cup {Head(pipeline)} /\ rejected' = rejected
         \/ acked' = acked /\ rejected' = rejected \cup {Head(pipeline)}
  PROVE  /\ QueueIsTheRest' /\ Gone' = Gone + 1
         /\ acked' \in SUBSET Batch /\ rejected' \in SUBSET Batch
<1>1. /\ Len(queue) \in Nat /\ Gone \in Nat /\ issued \in Nat
      /\ Gone + Len(queue) = issued /\ queue # <<>>
  BY QueueFacts
<1>2. /\ Head(pipeline) = Gone + 1
      /\ queue' \in Seq(Batch) /\ Len(queue') = Len(queue) - 1
      /\ \A i \in 1..(Len(queue) - 1) : queue'[i] = Gone + 1 + i
  BY TailFacts
<1>3. Len(queue) >= 1
  BY <1>1, EmptySeq DEF TypeOK
<1>4. Gone' = Gone + 1
  BY <1>1, <1>2 DEF Gone
<1>5. acked \cup rejected = 1..Gone /\ acked \cap rejected = {}
  BY DEF QueueIsTheRest
<1>6. 1..Gone' = (1..Gone) \cup {Gone + 1} /\ Gone + 1 \notin 1..Gone
  BY <1>1, <1>4
<1>7. acked' \cup rejected' = 1..Gone' /\ acked' \cap rejected' = {}
  BY <1>2, <1>5, <1>6
<1>8. Len(queue') <= issued' /\ \A i \in 1..Len(queue') : queue'[i] = Gone' + i
  BY <1>1, <1>2, <1>4
<1>9. Gone + 1 \in Batch
  BY <1>1, <1>3, BatchAssumption DEF Batch, TypeOK
<1>10. acked' \in SUBSET Batch /\ rejected' \in SUBSET Batch
  BY <1>2, <1>9 DEF TypeOK
<1> QED BY <1>4, <1>7, <1>8, <1>10 DEF QueueIsTheRest

-----------------------------------------------------------------------------
(* The call.                                                                *)

\* What is left of a call that was closed.
LEMMA ClosedCall ==
  ASSUME handshake' = FALSE, sent' = <<>>, DropConnection, idle' = FALSE,
         stream' # "Open"
  PROVE  /\ Disconnected' /\ BeforeHandshake' /\ RepliesMatch' /\ SentMatches'
         /\ RefusedIsNext' /\ FailsWhenEnded' /\ IdleIsShaken' /\ RepliesAreOld'
         /\ sent' \in Seq(Message) /\ replies' \in Seq(Message)
         /\ ended' = "no" /\ failing' = "no" /\ idle' \in BOOLEAN
<1> QED
  BY EmptySeq DEF DropConnection, Disconnected, BeforeHandshake, RepliesMatch, SentMatches,
     RefusedIsNext, FailsWhenEnded, IdleIsShaken, RepliesAreOld

\* The head of the answers tells whether hands were shaken.
LEMMA FirstReply ==
  ASSUME IndInv, replies # <<>>
  PROVE  /\ stream = "Open"
         /\ Tail(replies) \in Seq(Message) /\ Len(Tail(replies)) = Len(replies) - 1
         /\ \A i \in 1..(Len(replies) - 1) : Tail(replies)[i] = replies[i + 1]
         /\ Len(replies) \in Nat /\ Len(replies) >= 1 /\ Head(replies) = replies[1]
         /\ handshake <=> Head(replies) # Handshake
         /\ handshake => /\ pipeline # <<>> /\ Head(replies) = Head(pipeline)
                         /\ Applied(Head(pipeline))
         /\ ~handshake => sent = <<>> /\ ended # "permanent" /\ replies = <<Handshake>>
<1>1. replies \in Seq(Message) /\ pipeline \in Seq(Batch)
  BY DEF IndInv, TypeOK, Message
<1>2. /\ Tail(replies) \in Seq(Message) /\ Len(Tail(replies)) = Len(replies) - 1
      /\ \A i \in 1..Len(Tail(replies)) : Tail(replies)[i] = replies[i + 1]
      /\ Len(replies) \in Nat /\ Head(replies) = replies[1]
  BY <1>1, HeadTailProperties, LenProperties
<1>3. Len(replies) >= 1
  BY <1>1, <1>2, EmptySeq
<1>4. stream = "Open"
  BY DEF IndInv, Disconnected
<1>5. ASSUME handshake
      PROVE  /\ pipeline # <<>> /\ Head(replies) = Head(pipeline)
             /\ Head(replies) # Handshake /\ Applied(Head(pipeline))
  <2>1. Len(pipeline) >= 1 /\ replies[1] = pipeline[1] /\ Applied(replies[1])
    BY <1>2, <1>3, <1>5, LenProperties DEF IndInv, RepliesMatch
  <2>2. pipeline # <<>> /\ Head(pipeline) = pipeline[1] /\ pipeline[1] \in Batch
    <3>1. pipeline # <<>>
      BY <1>1, <2>1, EmptySeq
    <3> QED BY <3>1, <2>1, <1>1, HeadTailProperties, ElementOfSeq, LenProperties
  <2> QED BY <1>2, <2>1, <2>2 DEF Batch, Handshake
<1>6. ASSUME ~handshake
      PROVE  sent = <<>> /\ ended # "permanent" /\ replies = <<Handshake>> /\ Head(replies) = Handshake
  BY <1>6 DEF IndInv, BeforeHandshake
<1> QED BY <1>2, <1>3, <1>4, <1>5, <1>6

\* What the server reads first, likewise, and what it leaves.
LEMMA FirstSent ==
  ASSUME IndInv, NEW m, ServerReads(m)
  PROVE  /\ stream = "Open" /\ ended = "no"
         /\ sent' \in Seq(Message) /\ Len(sent') = Len(sent) - 1
         /\ \A i \in 1..(Len(sent) - 1) : sent'[i] = sent[i + 1]
         /\ Len(sent) \in Nat /\ Len(sent) >= 1
         /\ handshake <=> m # Handshake
         /\ handshake => /\ Len(replies) + 1 \in 1..Len(pipeline)
                         /\ m = pipeline[Len(replies) + 1]
         /\ ~handshake => sent' = <<>> /\ replies = <<>>
<1>1. sent \in Seq(Message) /\ pipeline \in Seq(Batch) /\ replies \in Seq(Message)
  BY DEF IndInv, TypeOK, Message
<1>2. ended = "no" /\ sent # <<>> /\ Head(sent) = m /\ sent' = Tail(sent)
  BY DEF ServerReads
<1>3. /\ sent' \in Seq(Message) /\ Len(sent') = Len(sent) - 1
      /\ \A i \in 1..(Len(sent) - 1) : sent'[i] = sent[i + 1]
      /\ Len(sent) \in Nat /\ m = sent[1]
  BY <1>1, <1>2, HeadTailProperties, LenProperties
<1>4. Len(sent) >= 1
  BY <1>1, <1>2, <1>3, EmptySeq
<1>5. stream = "Open"
  BY <1>2 DEF IndInv, Disconnected
<1>6. ASSUME handshake
      PROVE  /\ m # Handshake /\ Len(replies) + 1 \in 1..Len(pipeline)
             /\ m = pipeline[Len(replies) + 1]
  <2>1. /\ sent[1] \in Batch /\ Len(replies) + Len(sent) = Len(pipeline)
        /\ sent[1] = pipeline[Len(replies) + 1]
    BY <1>2, <1>3, <1>4, <1>6 DEF IndInv, SentMatches
  <2>2. Len(replies) \in Nat /\ Len(pipeline) \in Nat
    BY <1>1, LenProperties
  <2> QED BY <1>3, <1>4, <2>1, <2>2 DEF Batch, Handshake
<1>7. ASSUME ~handshake
      PROVE  m = Handshake /\ sent' = <<>> /\ replies = <<>>
  <2>1. sent = <<Handshake>> /\ replies = <<>>
    BY <1>2, <1>7 DEF IndInv, BeforeHandshake
  <2>2. Head(sent) = Handshake /\ Tail(sent) = <<>>
    BY <2>1
  <2> QED BY <1>2, <2>1, <2>2
<1> QED BY <1>2, <1>3, <1>4, <1>5, <1>6, <1>7

\* What a step keeps that touches neither the queue nor the log.
LEMMA StoreKept ==
  ASSUME IndInv, UNCHANGED <<store, log>>
  PROVE  /\ QueueIsTheRest' /\ LogOfMade' /\ LogEndsNewest'
         /\ GivenUpWasServed' /\ AcceptedWasApplied'
         /\ queue' \in Seq(Batch) /\ issued' \in 0..MaxBatches
         /\ acked' \subseteq Batch /\ rejected' \subseteq Batch /\ log' \in Seq(Batch)
<1> QED
  BY DEF IndInv, TypeOK, store, QueueIsTheRest, LogOfMade, LogEndsNewest, GivenUpWasServed,
     AcceptedWasApplied, Applied, Gone

-----------------------------------------------------------------------------
(* The actions, one by one.                                                 *)

LEMMA InitIndInv == Init => IndInv
<1> SUFFICES ASSUME Init PROVE IndInv
  OBVIOUS
<1> USE BatchAssumption, PendingAssumption, FaultAssumption, EmptySeq
<1>1. \A S : <<>> \in Seq(S) /\ Len(<<>>) = 0
  OBVIOUS
<1>2. TypeOK
  <2>1. /\ queue \in Seq(Batch) /\ pipeline \in Seq(Batch) /\ log \in Seq(Batch)
        /\ sent \in Seq(Batch \cup {Handshake}) /\ replies \in Seq(Batch \cup {Handshake})
    BY <1>1 DEF Init
  <2>2. closeCount \in Nat /\ asked \in Seq(0..closeCount)
    BY <1>1 DEF Init
  <2>3. issued \in 0..MaxBatches /\ faults \in 0..MaxFaults
    BY DEF Init
  <2>4. /\ acked \subseteq Batch /\ rejected \subseteq Batch /\ stream \in StreamState
        /\ handshake \in BOOLEAN /\ idle \in BOOLEAN
        /\ ended \in {"no", "transient", "permanent"} /\ failing \in {"no", "behind", "next"}
    BY DEF Init, StreamState
  <2> QED BY <2>1, <2>2, <2>3, <2>4 DEF TypeOK
<1>3. QueueIsTheRest
  <2>1. queue = <<>> /\ issued = 0 /\ acked = {} /\ rejected = {} /\ Len(queue) = 0
    BY <1>1 DEF Init
  <2>2. issued = 0 /\ Len(queue) = 0
    BY <2>1
  <2>3. Gone = 0
    BY <2>2 DEF Gone
  <2> QED BY <2>1, <2>3 DEF QueueIsTheRest
<1>4. IsFront(pipeline, queue)
  BY <1>1 DEF Init, IsFront, Fit
<1>5. /\ Disconnected /\ BeforeHandshake /\ RepliesMatch /\ SentMatches /\ RefusedIsNext
      /\ FailsWhenEnded /\ IdleIsShaken /\ TokenAsked /\ RepliesAreOld
  BY <1>1 DEF Init, Disconnected, BeforeHandshake, RepliesMatch, SentMatches, RefusedIsNext,
     FailsWhenEnded, IdleIsShaken, TokenAsked, RepliesAreOld
<1>6. LogOfMade /\ LogEndsNewest /\ GivenUpWasServed /\ AcceptedWasApplied
  BY <1>1 DEF Init, LogOfMade, LogEndsNewest, GivenUpWasServed, AcceptedWasApplied
<1> QED BY <1>2, <1>3, <1>4, <1>5, <1>6 DEF IndInv

\* The token comes, and the handshake is written.
LEMMA ResumeStartStep ==
  ASSUME IndInv, ResumeStart PROVE IndInv'
<1>1. /\ stream' = "Open" /\ sent' = <<Handshake>> /\ TokenComes(closeCount)
      /\ UNCHANGED <<store, log>>
      /\ pipeline' = pipeline /\ handshake' = handshake /\ idle' = idle
      /\ closeCount' = closeCount /\ replies' = replies /\ ended' = ended
      /\ failing' = failing /\ faults' = faults
  BY DEF ResumeStart
<1>2. /\ asked' \in Seq(0..closeCount) /\ stream = "Starting"
      /\ \A j \in 1..Len(asked') : asked'[j] # closeCount
  BY <1>1, TokenTaken DEF IndInv, TypeOK
<1>3. ~handshake /\ ~idle /\ replies = <<>> /\ ended = "no" /\ failing = "no"
  BY <1>2 DEF IndInv, Disconnected, IdleIsShaken
<1>4. sent' \in Seq(Message)
  BY <1>1 DEF Message
<1>5. TypeOK'
  BY <1>1, <1>2, <1>4, StoreKept DEF IndInv, TypeOK, StreamState, Message
<1>6. IsFront(pipeline, queue)'
  BY <1>1 DEF IndInv, IsFront, Fit, store
<1>7. /\ Disconnected' /\ BeforeHandshake' /\ RepliesMatch' /\ SentMatches' /\ RefusedIsNext'
      /\ FailsWhenEnded' /\ IdleIsShaken' /\ RepliesAreOld'
  BY <1>1, <1>3 DEF Disconnected, BeforeHandshake, RepliesMatch, SentMatches, RefusedIsNext,
     FailsWhenEnded, IdleIsShaken, RepliesAreOld
<1>8. TokenAsked'
  BY <1>1, <1>2 DEF TokenAsked
<1> QED BY <1>1, <1>5, <1>6, <1>7, <1>8, StoreKept DEF IndInv

\* What a step keeps that touches the stream and its tokens only.
LEMMA CallKept ==
  ASSUME IndInv, UNCHANGED <<pipeline, handshake, idle, connection, log, store>>,
         stream' = "Open" <=> stream = "Open"
  PROVE  /\ IsFront(pipeline, queue)' /\ Disconnected' /\ BeforeHandshake' /\ RepliesMatch'
         /\ SentMatches' /\ RefusedIsNext' /\ FailsWhenEnded' /\ IdleIsShaken' /\ RepliesAreOld'
         /\ pipeline' \in Seq(Batch) /\ handshake' \in BOOLEAN /\ idle' \in BOOLEAN
         /\ sent' \in Seq(Message) /\ replies' \in Seq(Message)
         /\ ended' \in {"no", "transient", "permanent"}
         /\ failing' \in {"no", "behind", "next"}
<1> USE DEF connection, store
<1>1. IsFront(pipeline, queue)'
  BY DEF IndInv, IsFront, Fit
<1>2. /\ Disconnected' /\ BeforeHandshake' /\ SentMatches' /\ RefusedIsNext'
      /\ FailsWhenEnded' /\ IdleIsShaken' /\ RepliesAreOld'
  BY DEF IndInv, Disconnected, BeforeHandshake, SentMatches, RefusedIsNext, FailsWhenEnded,
     IdleIsShaken, RepliesAreOld
<1>3. RepliesMatch'
  BY DEF IndInv, RepliesMatch, Applied
<1>4. /\ pipeline' \in Seq(Batch) /\ handshake' \in BOOLEAN /\ idle' \in BOOLEAN
      /\ sent' \in Seq(Message) /\ replies' \in Seq(Message)
      /\ ended' \in {"no", "transient", "permanent"}
      /\ failing' \in {"no", "behind", "next"}
  BY DEF IndInv, TypeOK, Message
<1> QED BY <1>1, <1>2, <1>3, <1>4

\* A token for a stream that was closed is not taken.
LEMMA StaleTokenStep ==
  ASSUME IndInv, StaleToken PROVE IndInv'
<1>1. /\ UNCHANGED <<pipeline, handshake, idle, connection, log, store>>
      /\ stream' = stream /\ closeCount' = closeCount /\ faults' = faults
  BY DEF StaleToken
<1>2. PICK n \in 0..closeCount : n # closeCount /\ TokenComes(n)
  BY DEF StaleToken
<1>3. asked' \in Seq(0..closeCount) /\ TokenAsked'
  BY <1>1, <1>2, TokenTaken DEF IndInv, TypeOK
<1>4. TypeOK'
  BY <1>1, <1>3, StoreKept, CallKept DEF IndInv, TypeOK, Message
<1> QED BY <1>1, <1>3, <1>4, StoreKept, CallKept DEF IndInv

\* The stream starts when the delay is over, and asks for a token.
LEMMA BackoffElapsesStep ==
  ASSUME IndInv, BackoffElapses PROVE IndInv'
<1>1. /\ UNCHANGED <<pipeline, handshake, idle, connection, log, store>>
      /\ stream = "Backoff" /\ stream' = "Starting" /\ closeCount' = closeCount
      /\ faults' = faults /\ asked' = Append(asked, closeCount)
  BY DEF BackoffElapses
<1>2. /\ asked \in Seq(0..closeCount) /\ closeCount \in Nat
      /\ \A j \in 1..Len(asked) : asked[j] # closeCount'
  BY <1>1 DEF IndInv, TypeOK, TokenAsked
<1>3. StartIfNeeded("Initial", <<0>>)
  BY <1>1 DEF StartIfNeeded
<1>4. closeCount' \in Nat /\ closeCount <= closeCount'
  BY <1>1, <1>2
<1>5. asked' \in Seq(0..closeCount') /\ TokenAsked'
  BY <1>2, <1>3, <1>4, StartAsks
<1>6. TypeOK'
  BY <1>1, <1>4, <1>5, StoreKept, CallKept DEF IndInv, TypeOK, StreamState, Message
<1> QED BY <1>1, <1>5, <1>6, StoreKept, CallKept DEF IndInv

\* Hands are shaken, and the pipeline is written.
LEMMA ReadHandshakeStep ==
  ASSUME IndInv, ReadHandshake PROVE IndInv'
<1>1. /\ replies # <<>> /\ Head(replies) = Handshake /\ replies' = Tail(replies)
      /\ handshake' = TRUE /\ sent' = sent \o pipeline
      /\ idle' = (idle /\ pipeline = <<>>)
      /\ UNCHANGED <<store, log>> /\ pipeline' = pipeline /\ stream' = stream
      /\ closeCount' = closeCount /\ asked' = asked /\ ended' = ended
      /\ failing' = failing /\ faults' = faults
  BY DEF ReadHandshake
<1>2. stream = "Open" /\ ~handshake /\ sent = <<>> /\ ended # "permanent" /\ replies = <<Handshake>>
  BY <1>1, FirstReply
<1>3. pipeline \in Seq(Batch) /\ Len(pipeline) \in Nat /\ \A i \in 1..Len(pipeline) : pipeline[i] \in Batch
  BY LenProperties, ElementOfSeq DEF IndInv, TypeOK
<1>4. sent' = pipeline /\ replies' = <<>> /\ idle' = FALSE /\ Len(replies') = 0
  <2>1. sent' = pipeline
    BY <1>1, <1>2, <1>3
  <2>2. replies' = <<>> /\ Len(replies') = 0
    BY <1>1, <1>2
  <2>3. ~idle
    BY <1>2 DEF IndInv, IdleIsShaken
  <2> QED BY <2>1, <2>2, <2>3, <1>1
<1>5. sent' \in Seq(Message) /\ replies' \in Seq(Message)
  BY <1>3, <1>4, SeqMonotonic DEF Message
<1>6. TypeOK'
  BY <1>1, <1>4, <1>5, StoreKept DEF IndInv, TypeOK, Message
<1>7. IsFront(pipeline, queue)'
  BY <1>1 DEF IndInv, IsFront, Fit, store
<1>8. /\ Disconnected' /\ BeforeHandshake' /\ RefusedIsNext' /\ FailsWhenEnded' /\ IdleIsShaken'
      /\ TokenAsked'
  BY <1>1, <1>2, <1>4 DEF IndInv, Disconnected, BeforeHandshake, RefusedIsNext, FailsWhenEnded,
     IdleIsShaken, TokenAsked
<1>9. RepliesMatch' /\ RepliesAreOld'
  <2>1. Len(pipeline') \in Nat /\ Len(replies') = 0
    BY <1>1, <1>3, <1>4
  <2> QED BY <2>1 DEF RepliesMatch, RepliesAreOld
<1>10. SentMatches'
  <2>1. /\ Len(pipeline') \in Nat /\ Len(replies') = 0 /\ Len(sent') = Len(pipeline')
        /\ \A i \in 1..Len(sent') : sent'[i] \in Batch /\ sent'[i] = pipeline'[i]
    BY <1>1, <1>3, <1>4
  <2>2. \A i \in 1..Len(sent') : Len(replies') + i = i
    BY <2>1
  <2> QED BY <2>1, <2>2 DEF SentMatches
<1> QED BY <1>1, <1>6, <1>7, <1>8, <1>9, <1>10, StoreKept DEF IndInv

\* The server shakes hands.
LEMMA ServerShakesHandsStep ==
  ASSUME IndInv, ServerShakesHands PROVE IndInv'
<1>1. /\ ServerReads(Handshake) /\ replies' = Append(replies, Handshake)
      /\ UNCHANGED <<store, log>> /\ pipeline' = pipeline /\ stream' = stream
      /\ handshake' = handshake /\ idle' = idle /\ closeCount' = closeCount
      /\ asked' = asked /\ ended' = ended /\ failing' = failing /\ faults' = faults
  BY DEF ServerShakesHands, Answer
<1>2. ~handshake /\ sent' = <<>> /\ replies = <<>> /\ stream = "Open" /\ ended = "no"
  BY <1>1, FirstSent
<1>3. replies' = <<Handshake>> /\ replies' \in Seq(Message) /\ sent' \in Seq(Message)
  BY <1>1, <1>2, EmptySeq DEF Message
<1>4. TypeOK'
  BY <1>1, <1>3, StoreKept DEF IndInv, TypeOK, Message
<1>5. IsFront(pipeline, queue)'
  BY <1>1 DEF IndInv, IsFront, Fit, store
<1>6. /\ Disconnected' /\ BeforeHandshake' /\ RepliesMatch' /\ SentMatches' /\ RefusedIsNext'
      /\ FailsWhenEnded' /\ IdleIsShaken' /\ TokenAsked' /\ RepliesAreOld'
  BY <1>1, <1>2, <1>3 DEF IndInv, Disconnected, BeforeHandshake, RepliesMatch, SentMatches,
     RefusedIsNext, FailsWhenEnded, IdleIsShaken, TokenAsked, RepliesAreOld
<1> QED BY <1>1, <1>4, <1>5, <1>6, StoreKept DEF IndInv

\* The server ends the stream at its start.
LEMMA ServerRefusesStreamStep ==
  ASSUME IndInv, ServerRefusesStream PROVE IndInv'
<1>1. /\ ServerReads(Handshake) /\ ended' = "permanent" /\ replies' = replies
      /\ UNCHANGED <<store, log>> /\ pipeline' = pipeline /\ stream' = stream
      /\ handshake' = handshake /\ idle' = idle /\ closeCount' = closeCount
      /\ asked' = asked /\ failing' = failing /\ faults < MaxFaults /\ faults' = faults + 1
  BY DEF ServerRefusesStream, Fault
<1>2. ~handshake /\ sent' = <<>> /\ replies = <<>> /\ stream = "Open" /\ ended = "no"
  BY <1>1, FirstSent
<1>3. sent' \in Seq(Message) /\ faults' \in 0..MaxFaults
  BY <1>1, <1>2, FaultAssumption, EmptySeq DEF IndInv, TypeOK
<1>4. TypeOK'
  BY <1>1, <1>3, StoreKept DEF IndInv, TypeOK, Message
<1>5. IsFront(pipeline, queue)'
  BY <1>1 DEF IndInv, IsFront, Fit, store
<1>6. /\ Disconnected' /\ BeforeHandshake' /\ RepliesMatch' /\ SentMatches' /\ RefusedIsNext'
      /\ FailsWhenEnded' /\ IdleIsShaken' /\ TokenAsked' /\ RepliesAreOld'
  BY <1>1, <1>2 DEF IndInv, Disconnected, BeforeHandshake, RepliesMatch, SentMatches,
     RefusedIsNext, FailsWhenEnded, IdleIsShaken, TokenAsked, RepliesAreOld
<1> QED BY <1>1, <1>4, <1>5, <1>6, StoreKept DEF IndInv

\* The server refuses a write: it is the one behind those it has answered.
LEMMA ServerRefusesStep ==
  ASSUME IndInv, ServerRefuses PROVE IndInv'
<1>1. PICK b \in Refused : ServerReads(b)
  BY DEF ServerRefuses
<1>2. /\ ended' = "permanent" /\ replies' = replies
      /\ UNCHANGED <<store, log>> /\ pipeline' = pipeline /\ stream' = stream
      /\ handshake' = handshake /\ idle' = idle /\ closeCount' = closeCount
      /\ asked' = asked /\ failing' = failing /\ faults' = faults
  BY DEF ServerRefuses
<1>3. b # Handshake
  BY BatchAssumption DEF Handshake
<1>4. /\ handshake /\ stream = "Open" /\ ended = "no" /\ sent' \in Seq(Message)
      /\ Len(replies) + 1 \in 1..Len(pipeline) /\ b = pipeline[Len(replies) + 1]
      /\ Len(sent) \in Nat /\ Len(sent') = Len(sent) - 1
      /\ \A i \in 1..(Len(sent) - 1) : sent'[i] = sent[i + 1]
  BY <1>1, <1>3, FirstSent
<1>5. TypeOK'
  BY <1>2, <1>4, StoreKept DEF IndInv, TypeOK, Message
<1>6. IsFront(pipeline, queue)'
  BY <1>2 DEF IndInv, IsFront, Fit, store
<1>7. /\ Disconnected' /\ BeforeHandshake' /\ FailsWhenEnded' /\ IdleIsShaken' /\ TokenAsked'
      /\ RepliesAreOld'
  BY <1>2, <1>4 DEF IndInv, Disconnected, BeforeHandshake, FailsWhenEnded, IdleIsShaken,
     TokenAsked, RepliesAreOld
<1>8. RepliesMatch'
  BY <1>2 DEF IndInv, RepliesMatch, Applied
<1>9. SentMatches'
  <2>1. \A i \in 1..Len(sent') : sent'[i] \in Batch
    BY <1>4 DEF IndInv, SentMatches
  <2> QED BY <1>2, <2>1 DEF SentMatches
<1>10. RefusedIsNext'
  <2>1. Len(replies) < Len(pipeline)
    BY <1>4, LenProperties DEF IndInv, TypeOK
  <2> QED BY <1>2, <1>4, <2>1 DEF RefusedIsNext
<1> QED BY <1>2, <1>5, <1>6, <1>7, <1>8, <1>9, <1>10, StoreKept DEF IndInv

\* A write to a call that has ended fails.
LEMMA BreakWriteStep ==
  ASSUME IndInv, BreakWrite PROVE IndInv'
<1>1. /\ ended # "no" /\ failing' \in {"no", "behind", "next"}
      /\ UNCHANGED <<store, log>> /\ pipeline' = pipeline /\ stream' = stream
      /\ handshake' = handshake /\ idle' = idle /\ closeCount' = closeCount
      /\ asked' = asked /\ sent' = sent /\ replies' = replies /\ ended' = ended /\ faults' = faults
  BY DEF BreakWrite
<1>2. TypeOK'
  BY <1>1, StoreKept DEF IndInv, TypeOK
<1>3. IsFront(pipeline, queue)'
  BY <1>1 DEF IndInv, IsFront, Fit, store
<1>4. /\ Disconnected' /\ BeforeHandshake' /\ SentMatches' /\ RefusedIsNext'
      /\ FailsWhenEnded' /\ IdleIsShaken' /\ TokenAsked' /\ RepliesAreOld'
  BY <1>1 DEF IndInv, Disconnected, BeforeHandshake, SentMatches, RefusedIsNext,
     FailsWhenEnded, IdleIsShaken, TokenAsked, RepliesAreOld
<1>5. RepliesMatch'
  BY <1>1 DEF IndInv, RepliesMatch, Applied
<1> QED BY <1>1, <1>2, <1>3, <1>4, <1>5, StoreKept DEF IndInv

\* The connection breaks: of the answers a front is left.
LEMMA BreakStep ==
  ASSUME IndInv, Break PROVE IndInv'
<1>1. /\ stream = "Open" /\ ended' = "transient"
      /\ UNCHANGED <<store, log>> /\ pipeline' = pipeline /\ stream' = stream
      /\ handshake' = handshake /\ idle' = idle /\ closeCount' = closeCount
      /\ asked' = asked /\ sent' = sent /\ failing' = failing
      /\ faults < MaxFaults /\ faults' = faults + 1
  BY DEF Break, Fault
<1>2. PICK n \in 0..Len(replies) : replies' = SubSeq(replies, 1, n)
  BY DEF Break
<1>3. /\ replies \in Seq(Message) /\ Len(replies) \in Nat
      /\ \A i \in 1..Len(replies) : replies[i] \in Message
  BY LenProperties, ElementOfSeq DEF IndInv, TypeOK, Message
<1>4. /\ replies' \in Seq(Message) /\ Len(replies') = n
      /\ \A i \in 1..n : replies'[i] = replies[i]
  <2>1. 1 \in Int /\ n \in Int /\ \A i \in 1..n : replies[i] \in Message
    BY <1>3
  <2>2. /\ SubSeq(replies, 1, n) \in Seq(Message)
        /\ Len(SubSeq(replies, 1, n)) = IF 1 <= n THEN n - 1 + 1 ELSE 0
        /\ \A i \in 1..(n - 1 + 1) : SubSeq(replies, 1, n)[i] = replies[1 + i - 1]
    BY <2>1, SubSeqProperties
  <2>3. \A i \in 1..n : replies'[i] = replies[i]
    BY <1>2, <1>3, <2>2
  <2> QED BY <1>2, <2>2, <2>3
<1>5. faults' \in 0..MaxFaults
  BY <1>1, FaultAssumption DEF IndInv, TypeOK
<1>6. TypeOK'
  BY <1>1, <1>4, <1>5, StoreKept DEF IndInv, TypeOK, Message
<1>7. IsFront(pipeline, queue)'
  BY <1>1 DEF IndInv, IsFront, Fit, store
<1>8. /\ Disconnected' /\ SentMatches' /\ RefusedIsNext' /\ FailsWhenEnded'
      /\ IdleIsShaken' /\ TokenAsked'
  BY <1>1 DEF IndInv, Disconnected, SentMatches, RefusedIsNext, FailsWhenEnded, IdleIsShaken,
     TokenAsked
<1>9. BeforeHandshake'
  <2>1. SUFFICES ASSUME ~handshake
                 PROVE  replies' \in {<<>>, <<Handshake>>} /\ (sent = <<>> \/ replies' = <<>>)
    BY <1>1 DEF IndInv, BeforeHandshake
  <2>2. CASE replies = <<>>
    <3>1. Len(replies') = 0
      BY <2>2, <1>4
    <3> QED BY <3>1, <1>4, EmptySeq
  <2>3. CASE replies # <<>>
    <3>1. replies = <<Handshake>> /\ sent = <<>> /\ Len(replies) = 1 /\ replies[1] = Handshake
      BY <2>1, <2>3 DEF IndInv, BeforeHandshake
    <3>2. n = 0 \/ n = 1
      BY <3>1
    <3>3. CASE n = 0
      BY <3>1, <3>3, <1>4, EmptySeq
    <3>4. CASE n = 1
      <4>1. Len(replies') = Len(replies) /\ \A i \in 1..Len(replies) : replies'[i] = replies[i]
        BY <1>4, <3>1, <3>4
      <4>2. replies' = replies
        BY <4>1, <1>3, <1>4, SeqEqual
      <4> QED BY <3>1, <4>2
    <3> QED BY <3>2, <3>3, <3>4
  <2> QED BY <2>2, <2>3
<1>10. RepliesMatch' /\ RepliesAreOld'
  <2>1. SUFFICES ASSUME handshake PROVE RepliesMatch' /\ RepliesAreOld'
    BY <1>1 DEF RepliesMatch, RepliesAreOld
  <2>2. /\ Len(replies) <= Len(pipeline) /\ Len(pipeline) \in Nat
        /\ \A i \in 1..Len(replies) : /\ replies[i] = pipeline[i] /\ Applied(replies[i])
                                      /\ replies[i] <= log[Len(log)]
    BY <2>1, LenProperties DEF IndInv, RepliesMatch, RepliesAreOld, TypeOK
  <2>3. Len(replies') <= Len(pipeline)
    BY <1>3, <1>4, <2>2
  <2>4. \A i \in 1..Len(replies') : /\ replies'[i] = pipeline[i] /\ Applied(replies'[i])
                                    /\ replies'[i] <= log[Len(log)]
    BY <1>3, <1>4, <2>2
  <2>5. log' = log
    BY <1>1
  <2> QED BY <1>1, <2>3, <2>4, <2>5 DEF RepliesMatch, RepliesAreOld, Applied
<1> QED BY <1>1, <1>6, <1>7, <1>8, <1>9, <1>10, StoreKept DEF IndInv

\* The server applies a write: it is the newest of what this call was asked, or
\* what has left the queue.
LEMMA ServerAppliesStep ==
  ASSUME IndInv, ServerApplies PROVE IndInv'
<1>1. PICK b \in Batch \ Refused : ServerReads(b) /\ log' = Append(log, b) /\ Answer(b)
  BY DEF ServerApplies
<1>2. /\ ended' = ended /\ replies' = Append(replies, b)
      /\ UNCHANGED store /\ pipeline' = pipeline /\ stream' = stream
      /\ handshake' = handshake /\ idle' = idle /\ closeCount' = closeCount
      /\ asked' = asked /\ failing' = failing /\ faults' = faults
  BY <1>1 DEF ServerApplies, Answer
<1>3. b # Handshake
  BY DEF Handshake, Batch
<1>4. /\ handshake /\ stream = "Open" /\ ended = "no" /\ sent' \in Seq(Message)
      /\ Len(replies) + 1 \in 1..Len(pipeline) /\ b = pipeline[Len(replies) + 1]
      /\ Len(sent) \in Nat /\ Len(sent) >= 1 /\ Len(sent') = Len(sent) - 1
      /\ \A i \in 1..(Len(sent) - 1) : sent'[i] = sent[i + 1]
  BY <1>1, <1>3, FirstSent
<1>5. /\ replies' \in Seq(Message) /\ Len(replies') = Len(replies) + 1
      /\ \A i \in 1..Len(replies) : replies'[i] = replies[i]
      /\ replies'[Len(replies) + 1] = b /\ Len(replies) \in Nat
  <2>1. replies \in Seq(Message) /\ b \in Message
    BY DEF IndInv, TypeOK, Message
  <2> QED BY <2>1, <1>2, AppendProperties, LenProperties
<1>6. /\ log' \in Seq(Batch) /\ Len(log') = Len(log) + 1
      /\ \A i \in 1..Len(log) : log'[i] = log[i]
      /\ log'[Len(log) + 1] = b /\ Len(log) \in Nat
      /\ \A i \in 1..Len(log) : log[i] \in Batch
  <2>1. log \in Seq(Batch)
    BY DEF IndInv, TypeOK
  <2> QED BY <2>1, <1>1, AppendProperties, LenProperties, ElementOfSeq
<1>7. /\ Gone \in Nat /\ issued \in Nat /\ Len(queue) \in Nat /\ Len(pipeline) \in Nat
      /\ Gone + Len(queue) = issued /\ Len(pipeline) <= Len(queue)
      /\ \A i \in 1..Len(pipeline) : pipeline[i] = Gone + i
  BY QueueFacts DEF IndInv
<1>8. b = Gone + (Len(replies) + 1) /\ b \in 1..issued /\ b > Gone
  <2>1. b = Gone + (Len(replies) + 1)
    BY <1>4, <1>7
  <2>2. Len(replies) \in Nat /\ Len(replies) + 1 <= Len(queue)
    BY <1>4, <1>5, <1>7
  <2> QED BY <2>1, <2>2, <1>7
<1>9. Gone' = Gone /\ issued' = issued /\ queue' = queue
  BY <1>2 DEF Gone, store
<1>10. \A x : Applied(x) => Applied(x)'
  <2>1. SUFFICES ASSUME NEW x, NEW i \in 1..Len(log), log[i] = x PROVE Applied(x)'
    BY DEF Applied
  <2>2. i \in 1..Len(log') /\ log'[i] = x
    BY <2>1, <1>6
  <2> QED BY <2>2 DEF Applied
<1>11. Applied(b)'
  <2>1. Len(log) + 1 \in 1..Len(log') /\ log'[Len(log) + 1] = b
    BY <1>6
  <2> QED BY <2>1 DEF Applied
<1>12. TypeOK'
  BY <1>2, <1>4, <1>5, <1>6 DEF IndInv, TypeOK, Message, store
<1>13. QueueIsTheRest' /\ IsFront(pipeline, queue)'
  BY <1>2, <1>9 DEF IndInv, QueueIsTheRest, IsFront, Fit, store
<1>14. /\ Disconnected' /\ BeforeHandshake' /\ RefusedIsNext' /\ FailsWhenEnded'
       /\ IdleIsShaken' /\ TokenAsked'
  BY <1>2, <1>4 DEF IndInv, Disconnected, BeforeHandshake, RefusedIsNext, FailsWhenEnded,
     IdleIsShaken, TokenAsked
<1>15. ASSUME NEW i \in 1..Len(replies')
       PROVE  replies'[i] = pipeline[i] /\ Applied(replies[i])' /\ replies'[i] <= b
  <2>1. CASE i \in 1..Len(replies)
    <3>1. replies[i] = pipeline[i] /\ Applied(replies[i])
      BY <1>4, <2>1 DEF IndInv, RepliesMatch
    <3>2. replies'[i] = replies[i]
      BY <2>1, <1>5
    <3>3. Applied(replies[i])'
      BY <3>1, <3>2, <1>10 DEF Applied
    <3>4. i \in 1..Len(pipeline) /\ i <= Len(replies) + 1
      BY <2>1, <1>4, <1>5, <1>7
    <3>5. pipeline[i] = Gone + i
      BY <3>4, <1>7
    <3>6. pipeline[i] <= b
      BY <3>4, <3>5, <1>5, <1>7, <1>8
    <3> QED BY <3>1, <3>2, <3>3, <3>6
  <2>2. CASE i = Len(replies) + 1
    <3>1. replies'[i] = b /\ pipeline[i] = b
      BY <2>2, <1>4, <1>5
    <3>2. Applied(replies[i])'
      BY <3>1, <1>11 DEF Applied
    <3> QED BY <3>1, <3>2, <1>7, <1>8
  <2> QED BY <2>1, <2>2, <1>5
<1>16. RepliesMatch'
  <2>1. Len(replies') <= Len(pipeline')
    BY <1>2, <1>4, <1>5, <1>7
  <2> QED BY <2>1, <1>2, <1>15 DEF RepliesMatch, Applied
<1>17. log'[Len(log')] = b
  BY <1>6
<1>18. RepliesAreOld'
  BY <1>15, <1>17 DEF RepliesAreOld
<1>19. SentMatches'
  <2>1. /\ Len(replies) + Len(sent) = Len(pipeline)
        /\ \A i \in 1..Len(sent) : sent[i] \in Batch /\ sent[i] = pipeline[Len(replies) + i]
    BY <1>4 DEF IndInv, SentMatches
  <2>2. Len(replies') + Len(sent') = Len(pipeline)
    <3>1. Len(replies') = Len(replies) + 1 /\ Len(replies) \in Nat
      BY <1>5
    <3>2. Len(sent') = Len(sent) - 1 /\ Len(sent) \in Nat
      BY <1>4
    <3>3. Len(replies) + Len(sent) = Len(pipeline)
      BY <2>1
    <3> DEFINE r == Len(replies)
               t == Len(sent)
    <3> HIDE DEF r, t
    <3>4. Len(replies') = r + 1 /\ Len(sent') = t - 1 /\ r \in Nat /\ t \in Nat
          /\ r + t = Len(pipeline)
      BY <3>1, <3>2, <3>3 DEF r, t
    <3> QED BY <3>4
  <2>3. ASSUME NEW i \in 1..Len(sent')
        PROVE  sent'[i] \in Batch /\ sent'[i] = pipeline[Len(replies') + i]
    <3>1. i + 1 \in 1..Len(sent) /\ sent'[i] = sent[i + 1]
      BY <1>4
    <3>2. Len(replies) + (i + 1) = Len(replies') + i
      BY <1>5
    <3> QED BY <2>1, <3>1, <3>2
  <2> QED BY <1>2, <2>2, <2>3 DEF SentMatches
<1>20. LogOfMade' /\ LogEndsNewest'
  <2>1. ASSUME NEW i \in 1..Len(log')
        PROVE  /\ log'[i] \in 1..issued' /\ log'[i] \notin Refused
               /\ log'[i] <= Gone' => log'[i] <= b
    <3>1. CASE i \in 1..Len(log)
      <4>1. log'[i] = log[i] /\ log[i] \in 1..issued /\ log[i] \notin Refused
        BY <3>1, <1>6 DEF IndInv, LogOfMade
      <4> QED BY <4>1, <1>7, <1>8, <1>9
    <3>2. CASE i = Len(log) + 1
      BY <3>2, <1>6, <1>7, <1>8, <1>9
    <3> QED BY <3>1, <3>2, <1>6
  <2> QED BY <2>1, <1>17 DEF LogOfMade, LogEndsNewest
<1>21. GivenUpWasServed' /\ AcceptedWasApplied'
  BY <1>2, <1>10 DEF IndInv, GivenUpWasServed, AcceptedWasApplied, store
<1> QED
  BY <1>12, <1>13, <1>14, <1>16, <1>18, <1>19, <1>20, <1>21 DEF IndInv

-----------------------------------------------------------------------------
(* The closes.                                                              *)

\* Closing makes every token that was asked for before one for another stream.
LEMMA CloseVoidsTokens ==
  ASSUME IndInv, CountClose
  PROVE  /\ asked \in Seq(0..closeCount) /\ closeCount \in Nat /\ closeCount' \in Nat
         /\ closeCount <= closeCount'
         /\ \A j \in 1..Len(asked) : asked[j] # closeCount'
<1>1. /\ asked \in Seq(0..closeCount) /\ closeCount \in Nat /\ closeCount' = closeCount + 1
  BY DEF IndInv, TypeOK, CountClose
<1>2. \A j \in 1..Len(asked) : asked[j] \in 0..closeCount
  BY <1>1, ElementOfSeq
<1> QED BY <1>1, <1>2

\* The writes are kept, to be sent again.
LEMMA KeepWritesStep ==
  ASSUME IndInv, CountClose, DropConnection, KeepWrites, handshake' = FALSE,
         UNCHANGED <<log, faults>>
  PROVE  IndInv'
<1>1. /\ pipeline' = pipeline /\ sent' = <<>> /\ idle' = FALSE /\ UNCHANGED <<store, log>>
      /\ StartIfNeeded("Error", pipeline) /\ faults' = faults
  BY DEF KeepWrites
<1>2. /\ asked' \in Seq(0..closeCount') /\ TokenAsked' /\ stream' \in StreamState
      /\ stream' # "Open" /\ closeCount' \in Nat
  BY <1>1, CloseVoidsTokens, StartAsks
<1>3. TypeOK'
  BY <1>1, <1>2, StoreKept, ClosedCall DEF IndInv, TypeOK, Message
<1>4. IsFront(pipeline, queue)'
  BY <1>1 DEF IndInv, IsFront, Fit, store
<1> QED BY <1>1, <1>2, <1>3, <1>4, StoreKept, ClosedCall DEF IndInv

\* The first write is given up: it was refused, or its answer was thrown away.
LEMMA RejectFirstStep ==
  ASSUME IndInv, CountClose, DropConnection, RejectFirst, handshake' = FALSE,
         UNCHANGED <<log, faults>>, handshake, pipeline # <<>>,
         replies = <<>> => ended = "permanent"
  PROVE  IndInv'
<1>1. /\ rejected' = rejected \cup {Head(pipeline)} /\ queue' = Tail(queue)
      /\ issued' = issued /\ acked' = acked
      /\ FillWritePipeline(Tail(queue), Tail(pipeline), "Initial", <<>>, FALSE)
  BY DEF RejectFirst
<1>2. /\ QueueIsTheRest' /\ Gone' = Gone + 1
      /\ acked' \in SUBSET Batch /\ rejected' \in SUBSET Batch
  BY <1>1, LeavesQueue DEF IndInv
<1>3. /\ Head(pipeline) = Gone + 1
      /\ Tail(queue) \in Seq(Batch) /\ Increasing(Tail(queue))
      /\ Tail(pipeline) \in Seq(Batch) /\ Len(Tail(pipeline)) <= Fit(Tail(queue))
      /\ \A i \in 1..Len(Tail(pipeline)) : Tail(pipeline)[i] = Tail(queue)[i]
  BY TailFacts DEF IndInv
<1>4. <<>> \in Seq(Message) /\ FALSE \in BOOLEAN /\ ~TakesWrites("Initial")
  BY DEF TakesWrites
<1>5. /\ pipeline' \in Seq(Batch) /\ IsFront(pipeline', Tail(queue))
      /\ sent' = <<>> /\ idle' = FALSE /\ StartIfNeeded("Initial", pipeline')
  <2>1. /\ pipeline' \in Seq(Batch) /\ IsFront(pipeline', Tail(queue))
        /\ sent' = <<>> /\ idle' \in BOOLEAN /\ StartIfNeeded("Initial", pipeline')
        /\ idle' => \/ pipeline' = <<>> /\ "Initial" = "Open"
                    \/ FALSE /\ (TakesWrites("Initial") => Len(pipeline') = Len(Tail(pipeline)))
    BY <1>1, <1>3, <1>4, FillStep
  <2> QED BY <2>1
<1>6. /\ asked' \in Seq(0..closeCount') /\ TokenAsked' /\ stream' \in StreamState
      /\ stream' # "Open" /\ closeCount' \in Nat
  BY <1>5, CloseVoidsTokens, StartAsks
<1>7. TypeOK'
  BY <1>1, <1>2, <1>3, <1>5, <1>6, ClosedCall DEF IndInv, TypeOK, Message
<1>8. IsFront(pipeline, queue)'
  BY <1>1, <1>5 DEF IsFront, Fit
<1>9. /\ Gone \in Nat /\ Gone + 1 \in Batch
      /\ pipeline[1] = Gone + 1 /\ pipeline[1] \in Batch
  BY <1>2, <1>3, QueueFacts, HeadTailProperties DEF IndInv, TypeOK
<1>10. Gone + 1 \in Refused \/ (Applied(Gone + 1) /\ Gone + 1 <= log[Len(log)])
  <2>1. CASE replies = <<>>
    <3>1. Len(replies) + 1 = 1 /\ ended = "permanent"
      BY <2>1
    <3> QED BY <3>1, <1>9 DEF IndInv, RefusedIsNext
  <2>2. CASE replies # <<>>
    <3>1. Applied(Head(pipeline)) /\ Head(replies) = Head(pipeline) /\ Head(replies) = replies[1]
          /\ 1 \in 1..Len(replies)
      BY <2>2, FirstReply
    <3>2. replies[1] <= log[Len(log)]
      BY <3>1 DEF IndInv, RepliesAreOld
    <3> QED BY <1>3, <3>1, <3>2
  <2> QED BY <2>1, <2>2
<1>11. LogOfMade' /\ LogEndsNewest'
  <2>1. LogOfMade'
    BY <1>1 DEF IndInv, LogOfMade
  <2>2. ASSUME NEW i \in 1..Len(log), log[i] <= Gone + 1
        PROVE  log[i] <= log[Len(log)]
    <3>1. log[i] \in Nat /\ log[i] \notin Refused
      BY ElementOfSeq DEF IndInv, LogOfMade, TypeOK, Batch
    <3>2. CASE log[i] <= Gone
      BY <3>2 DEF IndInv, LogEndsNewest
    <3>3. CASE log[i] = Gone + 1
      BY <3>1, <3>3, <1>10
    <3> QED BY <3>1, <3>2, <3>3, <2>2, <1>9
  <2> QED BY <2>1, <2>2, <1>2 DEF LogEndsNewest
<1>12. GivenUpWasServed' /\ AcceptedWasApplied'
  BY <1>1, <1>3, <1>10 DEF IndInv, GivenUpWasServed, AcceptedWasApplied, Applied
<1> QED
  BY <1>2, <1>5, <1>6, <1>7, <1>8, <1>11, <1>12, ClosedCall DEF IndInv

\* The call ends, by itself or when a write failed.
LEMMA StreamFailsStep ==
  ASSUME IndInv, ReadFails \/ WriteFails PROVE IndInv'
<1>1. CloseWithError(ended) /\ UNCHANGED <<log, faults>>
  BY DEF ReadFails, WriteFails
<1>2. CASE BlamesWrites(ended)
  <2>1. CountClose /\ DropConnection /\ RejectFirst /\ handshake' = FALSE
    BY <1>1, <1>2 DEF CloseWithError
  <2>2. handshake /\ pipeline # <<>> /\ ended = "permanent"
    BY <1>2 DEF BlamesWrites
  <2> QED BY <1>1, <2>1, <2>2, RejectFirstStep
<1>3. CASE ~BlamesWrites(ended)
  <2>1. CountClose /\ DropConnection /\ KeepWrites /\ handshake' = FALSE
    BY <1>1, <1>3 DEF CloseWithError
  <2> QED BY <1>1, <2>1, KeepWritesStep
<1> QED BY <1>2, <1>3

\* There is no token.
LEMMA NoTokenStep ==
  ASSUME IndInv, NoToken PROVE IndInv'
<1>1. /\ TokenComes(closeCount) /\ CountClose /\ DropConnection
      /\ stream' = IF pipeline = <<>> THEN "Error" ELSE "Backoff"
      /\ handshake' = FALSE /\ sent' = <<>> /\ idle' = FALSE
      /\ UNCHANGED <<store, log>> /\ pipeline' = pipeline
      /\ faults < MaxFaults /\ faults' = faults + 1
  BY DEF NoToken, Fault
<1>2. /\ asked' \in Seq(0..closeCount) /\ closeCount \in Nat /\ closeCount' = closeCount + 1
  BY <1>1, TokenTaken DEF IndInv, TypeOK, CountClose
<1>3. asked' \in Seq(0..closeCount') /\ TokenAsked'
  <2>1. \A j \in 1..Len(asked') : asked'[j] \in 0..closeCount
    BY <1>2, ElementOfSeq
  <2>2. \A j \in 1..Len(asked') : asked'[j] # closeCount'
    BY <1>2, <2>1
  <2>3. stream' # "Starting"
    BY <1>1
  <2>4. 0..closeCount \subseteq 0..closeCount'
    BY <1>2
  <2>5. asked' \in Seq(0..closeCount')
    BY <1>2, <2>4, SeqMonotonic
  <2> QED BY <2>2, <2>3, <2>5 DEF TokenAsked
<1>4. stream' \in StreamState /\ stream' # "Open" /\ closeCount' \in Nat
  BY <1>1, <1>2 DEF StreamState
<1>5. faults' \in 0..MaxFaults
  BY <1>1, FaultAssumption DEF IndInv, TypeOK
<1>6. TypeOK'
  BY <1>1, <1>3, <1>4, <1>5, StoreKept, ClosedCall DEF IndInv, TypeOK, Message
<1>7. IsFront(pipeline, queue)'
  BY <1>1 DEF IndInv, IsFront, Fit, store
<1> QED BY <1>1, <1>3, <1>4, <1>6, <1>7, StoreKept, ClosedCall DEF IndInv

\* The idle stream stops.
LEMMA IdleTimeoutStep ==
  ASSUME IndInv, IdleTimeout PROVE IndInv'
<1>1. /\ CountClose /\ DropConnection /\ stream' = "Initial"
      /\ handshake' = FALSE /\ sent' = <<>> /\ idle' = FALSE
      /\ UNCHANGED <<store, log>> /\ pipeline' = pipeline /\ asked' = asked /\ faults' = faults
  BY DEF IdleTimeout
<1>2. /\ asked \in Seq(0..closeCount) /\ closeCount' \in Nat /\ closeCount \in Nat
      /\ closeCount <= closeCount' /\ \A j \in 1..Len(asked) : asked[j] # closeCount'
  BY <1>1, CloseVoidsTokens
<1>3. asked' \in Seq(0..closeCount') /\ TokenAsked'
  <2>1. 0..closeCount \subseteq 0..closeCount'
    BY <1>2
  <2>2. asked \in Seq(0..closeCount')
    BY <1>2, <2>1, SeqMonotonic
  <2> QED BY <1>1, <1>2, <2>2 DEF TokenAsked
<1>4. TypeOK'
  BY <1>1, <1>2, <1>3, StoreKept, ClosedCall DEF IndInv, TypeOK, Message, StreamState
<1>5. IsFront(pipeline, queue)'
  BY <1>1 DEF IndInv, IsFront, Fit, store
<1> QED BY <1>1, <1>3, <1>4, <1>5, StoreKept, ClosedCall DEF IndInv

\* A call is closed, and the pipeline is filled anew from the queue.
LEMMA RefilledPipeline ==
  ASSUME IndInv
  PROVE  /\ Filled(queue, <<>>) \in Seq(Batch) /\ IsFront(Filled(queue, <<>>), queue)
         /\ queue \in Seq(Batch) /\ Increasing(queue)
         /\ <<>> \in Seq(Batch) /\ Len(<<>>) <= Fit(queue)
         /\ \A i \in 1..Len(<<>>) : <<>>[i] = queue[i]
<1> USE PendingAssumption
<1>1. queue \in Seq(Batch) /\ Increasing(queue) /\ Len(queue) \in Nat
  BY QueueFacts DEF IndInv, TypeOK
<1>2. <<>> \in Seq(Batch) /\ Len(<<>>) = 0
  OBVIOUS
<1>3. Len(<<>>) <= Fit(queue) /\ 1..Len(<<>>) = {}
  BY <1>1, <1>2 DEF Fit
<1>4. \A i \in 1..Len(<<>>) : <<>>[i] = queue[i]
  BY <1>3
<1>5. Filled(queue, <<>>) \in Seq(Batch) /\ IsFront(Filled(queue, <<>>), queue)
  BY <1>1, <1>2, <1>3, <1>4, FilledIsFront
<1> QED BY <1>1, <1>2, <1>3, <1>4, <1>5

\* The network changed.
LEMMA RestartNetworkStep ==
  ASSUME IndInv, RestartNetwork PROVE IndInv'
<1>1. /\ IF Started(stream) THEN CountClose ELSE UNCHANGED closeCount
      /\ DropConnection /\ handshake' = FALSE
      /\ FillWritePipeline(queue, <<>>, "Initial", <<>>, FALSE)
      /\ UNCHANGED <<store, log>> /\ faults < MaxFaults /\ faults' = faults + 1
  BY DEF RestartNetwork, StopAndRefill, Fault
<1>2. <<>> \in Seq(Message) /\ FALSE \in BOOLEAN /\ ~TakesWrites("Initial")
  BY DEF TakesWrites
<1>3. /\ pipeline' \in Seq(Batch) /\ IsFront(pipeline', queue)
      /\ sent' = <<>> /\ idle' = FALSE /\ StartIfNeeded("Initial", pipeline')
  <2>1. /\ pipeline' \in Seq(Batch) /\ IsFront(pipeline', queue)
        /\ sent' = <<>> /\ idle' \in BOOLEAN /\ StartIfNeeded("Initial", pipeline')
        /\ idle' => \/ pipeline' = <<>> /\ "Initial" = "Open"
                    \/ FALSE /\ (TakesWrites("Initial") => Len(pipeline') = Len(<<>>))
    BY <1>1, <1>2, RefilledPipeline, FillStep
  <2> QED BY <2>1
<1>4. /\ asked \in Seq(0..closeCount) /\ closeCount \in Nat /\ closeCount' \in Nat
      /\ closeCount <= closeCount' /\ \A j \in 1..Len(asked) : asked[j] # closeCount'
  <2>1. CASE Started(stream)
    BY <1>1, <2>1, CloseVoidsTokens
  <2>2. CASE ~Started(stream)
    <3>1. closeCount' = closeCount /\ stream # "Starting"
      BY <1>1, <2>2 DEF Started
    <3> QED BY <3>1 DEF IndInv, TypeOK, TokenAsked
  <2> QED BY <2>1, <2>2
<1>5. /\ asked' \in Seq(0..closeCount') /\ TokenAsked' /\ stream' \in StreamState
      /\ stream' # "Open"
  BY <1>3, <1>4, StartAsks
<1>6. faults' \in 0..MaxFaults
  BY <1>1, FaultAssumption DEF IndInv, TypeOK
<1>7. TypeOK'
  BY <1>1, <1>3, <1>4, <1>5, <1>6, StoreKept, ClosedCall DEF IndInv, TypeOK, Message
<1>8. IsFront(pipeline, queue)'
  BY <1>1, <1>3 DEF IsFront, Fit, store
<1> QED BY <1>1, <1>3, <1>5, <1>7, <1>8, StoreKept, ClosedCall DEF IndInv

\* The process starts again.
LEMMA RestartStep ==
  ASSUME IndInv, Restart PROVE IndInv'
<1>1. /\ closeCount' = 0 /\ asked' = IF queue = <<>> THEN <<>> ELSE <<0>>
      /\ stream' = IF queue = <<>> THEN "Initial" ELSE "Starting"
      /\ pipeline' = Filled(queue, <<>>)
      /\ handshake' = FALSE /\ idle' = FALSE /\ sent' = <<>> /\ DropConnection
      /\ UNCHANGED <<store, log>> /\ faults < MaxFaults /\ faults' = faults + 1
  BY DEF Restart, Fault
<1>2. pipeline' \in Seq(Batch) /\ IsFront(pipeline', queue)
  BY <1>1, RefilledPipeline
<1>3. asked' \in Seq(0..closeCount') /\ TokenAsked' /\ stream' \in StreamState
  <2>1. CASE queue = <<>>
    <3>1. asked' = <<>> /\ stream' = "Initial" /\ Len(asked') = 0
      BY <1>1, <2>1
    <3> QED BY <3>1, EmptySeq DEF TokenAsked, StreamState
  <2>2. CASE queue # <<>>
    <3>1. asked' = <<0>> /\ stream' = "Starting" /\ closeCount' = 0
      BY <1>1, <2>2
    <3>2. asked' \in Seq(0..closeCount') /\ Len(asked') = 1 /\ asked'[1] = 0
      BY <3>1
    <3>3. 1 \in 1..Len(asked') /\ \A j \in 1..Len(asked') : j = 1
      BY <3>2
    <3> QED BY <3>1, <3>2, <3>3 DEF TokenAsked, StreamState
  <2> QED BY <2>1, <2>2
<1>4. closeCount' \in Nat /\ stream' # "Open" /\ faults' \in 0..MaxFaults
  BY <1>1, FaultAssumption DEF IndInv, TypeOK
<1>5. TypeOK'
  BY <1>1, <1>2, <1>3, <1>4, StoreKept, ClosedCall DEF IndInv, TypeOK, Message
<1>6. IsFront(pipeline, queue)'
  BY <1>1, <1>2 DEF IsFront, Fit, store
<1> QED BY <1>1, <1>3, <1>4, <1>5, <1>6, StoreKept, ClosedCall DEF IndInv

-----------------------------------------------------------------------------
(* The handlers that fill the pipeline of an open stream.                   *)

\* A write is made.
LEMMA WriteMutationsStep ==
  ASSUME IndInv, WriteMutations PROVE IndInv'
<1> USE PendingAssumption
<1>1. /\ issued < MaxBatches /\ issued' = issued + 1 /\ queue' = Append(queue, issued + 1)
      /\ closeCount' = closeCount /\ acked' = acked /\ rejected' = rejected
      /\ handshake' = handshake /\ replies' = replies /\ ended' = ended
      /\ failing' = failing /\ log' = log /\ faults' = faults
  BY DEF WriteMutations
<1> DEFINE q == Append(queue, issued + 1)
<1>2. FillWritePipeline(q, pipeline, stream, sent, idle)
  BY <1>1 DEF WriteMutations, FillWritePipeline
<1>3. /\ Len(queue) \in Nat /\ issued \in Nat /\ Gone \in Nat /\ Gone + Len(queue) = issued
      /\ \A i \in 1..Len(queue) : queue[i] = Gone + i
      /\ Len(pipeline) \in Nat /\ Len(pipeline) <= Len(queue)
  BY QueueFacts DEF IndInv
<1>4. issued' \in 0..MaxBatches /\ issued + 1 \in Batch
  BY <1>1, <1>3, BatchAssumption DEF Batch
<1>5. /\ q \in Seq(Batch) /\ Len(q) = Len(queue) + 1
      /\ \A i \in 1..Len(queue) : q[i] = queue[i]
      /\ q[Len(queue) + 1] = issued + 1
  BY <1>4, AppendProperties DEF IndInv, TypeOK
<1>6. queue' = q
  BY <1>1
<1> HIDE DEF q
<1>7. \A i \in 1..Len(q) : q[i] = Gone + i
  <2>1. TAKE i \in 1..Len(q)
  <2>2. i \in 1..Len(queue) \/ i = Len(queue) + 1
    BY <1>3, <1>5
  <2>3. CASE i \in 1..Len(queue)
    BY <2>3, <1>3, <1>5
  <2>4. CASE i = Len(queue) + 1
    BY <2>4, <1>3, <1>5
  <2> QED BY <2>2, <2>3, <2>4
<1>8. Gone' = Gone
  BY <1>1, <1>3, <1>5, <1>6 DEF Gone
<1>9. QueueIsTheRest'
  <2>1. Len(queue') <= issued' /\ \A i \in 1..Len(queue') : queue'[i] = Gone' + i
    BY <1>1, <1>3, <1>5, <1>6, <1>7, <1>8
  <2> QED BY <2>1, <1>1, <1>8 DEF IndInv, QueueIsTheRest
<1>10. Increasing(q)
  BY <1>3, <1>5, <1>7 DEF Increasing
<1>11. Len(pipeline) <= Fit(q) /\ Fit(q) > 0 /\ Len(pipeline) = Fit(queue)
  BY <1>3, <1>5 DEF IndInv, IsFront, Fit
<1>12. \A i \in 1..Len(pipeline) : pipeline[i] = q[i]
  <2>1. \A i \in 1..Len(pipeline) : i \in 1..Len(queue) /\ pipeline[i] = queue[i]
    BY <1>3 DEF IndInv, IsFront
  <2> QED BY <2>1, <1>5
<1>13. /\ pipeline \in Seq(Batch) /\ sent \in Seq(Message) /\ idle \in BOOLEAN
       /\ stream \in StreamState
  BY DEF IndInv, TypeOK, Message
<1>14. /\ pipeline' \in Seq(Batch)
       /\ IsFront(pipeline', q)
       /\ Len(pipeline) <= Len(pipeline')
       /\ sent' \in Seq(Message)
       /\ ~TakesWrites(stream) => sent' = sent
       /\ TakesWrites(stream) =>
             /\ Len(sent') = Len(sent) + (Len(pipeline') - Len(pipeline))
             /\ \A i \in 1..Len(sent) : sent'[i] = sent[i]
             /\ \A i \in 1..(Len(pipeline') - Len(pipeline)) :
                   sent'[Len(sent) + i] = pipeline'[Len(pipeline) + i]
       /\ idle' \in BOOLEAN
       /\ idle' => \/ pipeline' = <<>> /\ stream = "Open"
                   \/ idle /\ (TakesWrites(stream) => Len(pipeline') = Len(pipeline))
       /\ StartIfNeeded(stream, pipeline')
  BY <1>2, <1>5, <1>10, <1>11, <1>12, <1>13, FillStep
<1>15. IsFront(pipeline, queue)'
  BY <1>6, <1>14 DEF IsFront, Fit
<1>16. /\ Len(pipeline') \in Nat /\ Len(pipeline') > 0
       /\ \A i \in 1..Len(pipeline) : pipeline'[i] = pipeline[i]
       /\ \A i \in 1..Len(pipeline') : pipeline'[i] \in Batch
  <2>1. Len(pipeline') \in Nat /\ \A i \in 1..Len(pipeline') : pipeline'[i] \in Batch
    BY <1>14, LenProperties, ElementOfSeq
  <2> QED BY <2>1, <1>3, <1>11, <1>12, <1>14 DEF IsFront
<1>17. handshake => stream = "Open" /\ TakesWrites(stream)
  BY DEF IndInv, Disconnected, TakesWrites
<1>18. idle' = FALSE
  <2>1. pipeline' # <<>>
    BY <1>16
  <2>2. idle => handshake /\ Len(pipeline) = 0
    BY DEF IndInv, IdleIsShaken
  <2> QED BY <2>1, <2>2, <1>14, <1>16, <1>17
<1>19. /\ asked' \in Seq(0..closeCount') /\ TokenAsked' /\ stream' \in StreamState
       /\ stream' = "Open" <=> stream = "Open"
  <2>1. CASE stream = "Starting"
    <3>1. stream' = stream /\ asked' = asked
      BY <2>1, <1>14 DEF StartIfNeeded, Started
    <3> QED BY <3>1, <1>1, <2>1 DEF IndInv, TypeOK, TokenAsked
  <2>2. CASE stream # "Starting"
    <3>1. stream \in {"Initial", "Open", "Error", "Backoff"}
      BY <2>2, <1>13 DEF StreamState
    <3>2. /\ asked \in Seq(0..closeCount) /\ closeCount \in Nat /\ closeCount' \in Nat
          /\ closeCount <= closeCount' /\ \A j \in 1..Len(asked) : asked[j] # closeCount'
      BY <2>2, <1>1 DEF IndInv, TypeOK, TokenAsked
    <3> QED BY <3>1, <3>2, <1>14, StartAsks
  <2> QED BY <2>1, <2>2
<1>20. TypeOK'
  BY <1>1, <1>4, <1>5, <1>6, <1>14, <1>18, <1>19 DEF IndInv, TypeOK, Message
<1>21. /\ Disconnected' /\ BeforeHandshake' /\ FailsWhenEnded' /\ IdleIsShaken' /\ RepliesAreOld'
  BY <1>1, <1>14, <1>17, <1>18, <1>19 DEF IndInv, Disconnected, BeforeHandshake, FailsWhenEnded,
     IdleIsShaken, RepliesAreOld, TakesWrites
<1>22. RepliesMatch'
  <2>1. SUFFICES ASSUME handshake PROVE RepliesMatch'
    BY <1>1 DEF RepliesMatch
  <2>2. /\ Len(replies) <= Len(pipeline) /\ Len(replies) \in Nat
        /\ \A i \in 1..Len(replies) : replies[i] = pipeline[i] /\ Applied(replies[i])
    BY <2>1, LenProperties DEF IndInv, RepliesMatch, TypeOK
  <2>3. Len(replies) <= Len(pipeline')
    BY <2>2, <1>3, <1>14, <1>16
  <2>4. \A i \in 1..Len(replies) : replies[i] = pipeline'[i] /\ Applied(replies[i])
    <3>1. \A i \in 1..Len(replies) : i \in 1..Len(pipeline)
      BY <2>2, <1>3
    <3> QED BY <2>2, <3>1, <1>16
  <2> QED BY <2>3, <2>4, <1>1 DEF RepliesMatch, Applied
<1>23. SentMatches'
  <2>1. SUFFICES ASSUME handshake PROVE SentMatches'
    BY <1>1 DEF SentMatches
  <2> DEFINE n == Len(sent)
             k == Len(pipeline)
             r == Len(replies)
  <2>2. /\ n \in Nat /\ k \in Nat /\ r \in Nat /\ k <= Len(pipeline')
        /\ \A i \in 1..n : sent[i] \in Batch
        /\ ended = "no" => r + n = k /\ \A i \in 1..n : sent[i] = pipeline[r + i]
    <3>1. sent \in Seq(Message) /\ replies \in Seq(Message)
      BY DEF IndInv, TypeOK, Message
    <3> QED BY <2>1, <3>1, <1>3, <1>14, LenProperties DEF IndInv, SentMatches
  <2>3. /\ Len(sent') = n + (Len(pipeline') - k)
        /\ \A i \in 1..n : sent'[i] = sent[i]
        /\ \A i \in 1..(Len(pipeline') - k) : sent'[n + i] = pipeline'[k + i]
    BY <2>1, <1>14, <1>17
  <2>4. \A i \in 1..k : pipeline'[i] = pipeline[i]
    BY <1>16
  <2>5. Len(pipeline') \in Nat /\ \A i \in 1..Len(pipeline') : pipeline'[i] \in Batch
    BY <1>16
  <2> HIDE DEF n, k, r
  <2>6. ASSUME NEW i \in 1..Len(sent')
        PROVE  /\ sent'[i] \in Batch
               /\ ended = "no" => sent'[i] = pipeline'[r + i]
    <3>1. CASE i <= n
      <4>1. i \in 1..n
        BY <2>2, <3>1
      <4>2. ended = "no" => r + i \in 1..k
        BY <2>2, <4>1
      <4> QED BY <2>2, <2>3, <2>4, <4>1, <4>2
    <3>2. CASE ~(i <= n)
      <4>1. i - n \in 1..(Len(pipeline') - k) /\ n + (i - n) = i /\ k + (i - n) \in 1..Len(pipeline')
        BY <2>2, <2>3, <2>5, <3>2
      <4>2. sent'[i] = pipeline'[k + (i - n)]
        BY <2>3, <4>1
      <4>3. ended = "no" => k + (i - n) = r + i
        BY <2>2
      <4> QED BY <2>5, <4>1, <4>2, <4>3
    <3> QED BY <3>1, <3>2
  <2>7. ended = "no" => r + Len(sent') = Len(pipeline')
    <3>1. n \in Nat /\ k \in Nat /\ r \in Nat /\ (ended = "no" => r + n = k)
      BY <2>2
    <3>2. Len(sent') = n + (Len(pipeline') - k)
      BY <2>3
    <3>3. Len(pipeline') \in Nat
      BY <2>5
    <3> QED BY <3>1, <3>2, <3>3
  <2> QED BY <2>6, <2>7, <1>1 DEF SentMatches, r
<1>24. RefusedIsNext'
  <2>1. SUFFICES ASSUME handshake, ended = "permanent" PROVE RefusedIsNext'
    BY <1>1 DEF RefusedIsNext
  <2>2. /\ Len(replies) < Len(pipeline) /\ pipeline[Len(replies) + 1] \in Refused
        /\ Len(replies) \in Nat
    BY <2>1, LenProperties DEF IndInv, RefusedIsNext, TypeOK
  <2>3. pipeline'[Len(replies) + 1] = pipeline[Len(replies) + 1] /\ Len(replies) < Len(pipeline')
    BY <2>2, <1>3, <1>14, <1>16
  <2> QED BY <2>2, <2>3, <1>1 DEF RefusedIsNext
<1>25. LogOfMade' /\ LogEndsNewest'
  <2>1. \A x \in 1..issued : x \in 1..issued'
    BY <1>1, <1>3
  <2>2. LogOfMade'
    BY <2>1, <1>1 DEF IndInv, LogOfMade
  <2> QED BY <2>2, <1>1, <1>8 DEF IndInv, LogEndsNewest
<1>26. GivenUpWasServed' /\ AcceptedWasApplied'
  BY <1>1 DEF IndInv, GivenUpWasServed, AcceptedWasApplied, Applied
<1> QED
  BY <1>9, <1>15, <1>19, <1>20, <1>21, <1>22, <1>23, <1>24, <1>25, <1>26 DEF IndInv

\* An answer is taken for the first write of the pipeline, and it is.
LEMMA ReadResultStep ==
  ASSUME IndInv, ReadResult PROVE IndInv'
<1>1. /\ replies # <<>> /\ Head(replies) # Handshake /\ replies' = Tail(replies)
      /\ failing' = IF failing = "behind" THEN "next" ELSE failing
      /\ acked' = acked \cup {Head(pipeline)} /\ queue' = Tail(queue) /\ closeCount' = closeCount
      /\ issued' = issued /\ rejected' = rejected /\ handshake' = handshake /\ ended' = ended
      /\ log' = log /\ faults' = faults
  BY DEF ReadResult
<1>2. FillWritePipeline(Tail(queue), Tail(pipeline), stream, sent, idle)
  BY <1>1 DEF ReadResult, FillWritePipeline
<1>3. /\ stream = "Open" /\ handshake /\ pipeline # <<>> /\ Head(replies) = Head(pipeline)
      /\ Applied(Head(pipeline)) /\ Head(replies) = replies[1]
      /\ replies' \in Seq(Message) /\ Len(replies') = Len(replies) - 1
      /\ \A i \in 1..(Len(replies) - 1) : replies'[i] = replies[i + 1]
      /\ Len(replies) \in Nat /\ Len(replies) >= 1
  BY <1>1, FirstReply
<1>4. /\ QueueIsTheRest' /\ Gone' = Gone + 1
      /\ acked' \in SUBSET Batch /\ rejected' \in SUBSET Batch
  BY <1>1, <1>3, LeavesQueue DEF IndInv
<1>5. /\ Head(pipeline) = Gone + 1
      /\ Tail(queue) \in Seq(Batch) /\ Increasing(Tail(queue))
      /\ Tail(pipeline) \in Seq(Batch) /\ Len(Tail(pipeline)) = Len(pipeline) - 1
      /\ Len(Tail(pipeline)) <= Fit(Tail(queue))
      /\ \A i \in 1..Len(Tail(pipeline)) : Tail(pipeline)[i] = Tail(queue)[i]
      /\ \A i \in 1..(Len(pipeline) - 1) : Tail(pipeline)[i] = pipeline[i + 1]
  BY <1>3, TailFacts DEF IndInv
<1>6. /\ sent \in Seq(Message) /\ idle \in BOOLEAN /\ TakesWrites(stream)
      /\ Gone \in Nat /\ Len(pipeline) \in Nat /\ ~idle
  BY <1>3, QueueFacts DEF IndInv, TypeOK, Message, TakesWrites, IdleIsShaken
<1>7. /\ pipeline' \in Seq(Batch)
      /\ IsFront(pipeline', Tail(queue))
      /\ Len(Tail(pipeline)) <= Len(pipeline')
      /\ sent' \in Seq(Message)
      /\ Len(sent') = Len(sent) + (Len(pipeline') - Len(Tail(pipeline)))
      /\ \A i \in 1..Len(sent) : sent'[i] = sent[i]
      /\ \A i \in 1..(Len(pipeline') - Len(Tail(pipeline))) :
            sent'[Len(sent) + i] = pipeline'[Len(Tail(pipeline)) + i]
      /\ idle' \in BOOLEAN
      /\ idle' => pipeline' = <<>>
      /\ StartIfNeeded(stream, pipeline')
  <2>1. /\ pipeline' \in Seq(Batch)
        /\ IsFront(pipeline', Tail(queue))
        /\ Len(Tail(pipeline)) <= Len(pipeline')
        /\ sent' \in Seq(Message)
        /\ ~TakesWrites(stream) => sent' = sent
        /\ TakesWrites(stream) =>
              /\ Len(sent') = Len(sent) + (Len(pipeline') - Len(Tail(pipeline)))
              /\ \A i \in 1..Len(sent) : sent'[i] = sent[i]
              /\ \A i \in 1..(Len(pipeline') - Len(Tail(pipeline))) :
                    sent'[Len(sent) + i] = pipeline'[Len(Tail(pipeline)) + i]
        /\ idle' \in BOOLEAN
        /\ idle' => \/ pipeline' = <<>> /\ stream = "Open"
                    \/ idle /\ (TakesWrites(stream) => Len(pipeline') = Len(Tail(pipeline)))
        /\ StartIfNeeded(stream, pipeline')
    BY <1>2, <1>5, <1>6, FillStep
  <2> QED BY <2>1, <1>6
<1>8. IsFront(pipeline, queue)'
  BY <1>1, <1>7 DEF IsFront, Fit
<1>9. /\ Len(pipeline') \in Nat /\ Len(pipeline) - 1 <= Len(pipeline')
      /\ \A i \in 1..Len(pipeline') : pipeline'[i] \in Batch
      /\ \A i \in 1..(Len(pipeline) - 1) : pipeline'[i] = pipeline[i + 1]
  <2>1. Len(pipeline') \in Nat /\ \A i \in 1..Len(pipeline') : pipeline'[i] \in Batch
    BY <1>7, LenProperties, ElementOfSeq
  <2>2. Len(pipeline) - 1 <= Len(pipeline')
    BY <1>5, <1>7
  <2>3. ASSUME NEW i \in 1..(Len(pipeline) - 1) PROVE pipeline'[i] = pipeline[i + 1]
    <3>1. i \in 1..Len(pipeline') /\ i \in 1..Len(Tail(pipeline))
      BY <2>1, <2>2, <1>5, <1>6
    <3>2. pipeline'[i] = Tail(queue)[i]
      BY <3>1, <1>7 DEF IsFront
    <3>3. Tail(pipeline)[i] = Tail(queue)[i]
      BY <3>1, <1>5
    <3> QED BY <3>2, <3>3, <1>5
  <2> QED BY <2>1, <2>2, <2>3
<1>10. stream' = "Open" /\ asked' = asked
  BY <1>3, <1>7 DEF StartIfNeeded, Started
<1>11. TypeOK'
  BY <1>1, <1>3, <1>4, <1>5, <1>7, <1>10 DEF IndInv, TypeOK, Message, StreamState
<1>12. /\ Disconnected' /\ BeforeHandshake' /\ FailsWhenEnded' /\ IdleIsShaken' /\ TokenAsked'
  BY <1>1, <1>3, <1>7, <1>10 DEF IndInv, Disconnected, BeforeHandshake, FailsWhenEnded,
     IdleIsShaken, TokenAsked
<1>13. /\ Len(replies) <= Len(pipeline)
       /\ \A i \in 1..Len(replies) : /\ replies[i] = pipeline[i] /\ Applied(replies[i])
                                     /\ replies[i] <= log[Len(log)]
  BY <1>3 DEF IndInv, RepliesMatch, RepliesAreOld
<1>14. ASSUME NEW i \in 1..Len(replies')
       PROVE  /\ replies'[i] = pipeline'[i] /\ Applied(replies'[i])
              /\ replies'[i] <= log[Len(log)]
  <2>1. i + 1 \in 1..Len(replies) /\ i \in 1..(Len(replies) - 1) /\ i \in 1..(Len(pipeline) - 1)
    BY <1>3, <1>6, <1>13
  <2>2. replies'[i] = replies[i + 1] /\ pipeline'[i] = pipeline[i + 1]
    BY <2>1, <1>3, <1>9
  <2> QED BY <2>1, <2>2, <1>13
<1>15. RepliesMatch' /\ RepliesAreOld'
  <2>1. Len(replies') <= Len(pipeline')
    BY <1>3, <1>6, <1>9, <1>13
  <2> QED BY <2>1, <1>1, <1>14 DEF RepliesMatch, RepliesAreOld, Applied
<1>16. SentMatches'
  <2> DEFINE n == Len(sent)
             k == Len(pipeline) - 1
             r == Len(replies) - 1
  <2>1. /\ n \in Nat /\ k \in Nat /\ r \in Nat /\ k <= Len(pipeline')
        /\ \A i \in 1..n : sent[i] \in Batch
    <3>1. \A i \in 1..n : sent[i] \in Batch
      BY <1>3 DEF IndInv, SentMatches
    <3>2. n \in Nat /\ r \in Nat
      BY <1>3, <1>6, LenProperties
    <3>3. k \in Nat
      BY <1>3, <1>6, <1>13
    <3> QED BY <3>1, <3>2, <3>3, <1>9
  <2>2. ended = "no" => r + n = k /\ \A i \in 1..n : sent[i] = pipeline[r + i + 1]
    <3>1. SUFFICES ASSUME ended = "no"
                   PROVE  r + n = k /\ \A i \in 1..n : sent[i] = pipeline[r + i + 1]
      OBVIOUS
    <3>2. Len(replies) + n = Len(pipeline) /\ \A i \in 1..n : sent[i] = pipeline[Len(replies) + i]
      BY <1>3, <3>1 DEF IndInv, SentMatches
    <3>3. \A i \in 1..n : Len(replies) + i = r + i + 1
      BY <1>3
    <3>4. r + n = k
      BY <3>2, <1>3, <1>6, <2>1
    <3> QED BY <3>2, <3>3, <3>4
  <2>3. /\ Len(sent') = n + (Len(pipeline') - k)
        /\ \A i \in 1..n : sent'[i] = sent[i]
        /\ \A i \in 1..(Len(pipeline') - k) : sent'[n + i] = pipeline'[k + i]
    BY <1>5, <1>7
  <2>4. \A i \in 1..k : pipeline'[i] = pipeline[i + 1]
    BY <1>9
  <2>5. Len(pipeline') \in Nat /\ \A i \in 1..Len(pipeline') : pipeline'[i] \in Batch
    BY <1>9
  <2>6. Len(replies') = r
    BY <1>3
  <2> HIDE DEF n, k, r
  <2>7. ASSUME NEW i \in 1..Len(sent')
        PROVE  /\ sent'[i] \in Batch
               /\ ended = "no" => sent'[i] = pipeline'[r + i]
    <3>1. CASE i <= n
      <4>1. i \in 1..n /\ sent'[i] = sent[i] /\ sent[i] \in Batch
        BY <2>1, <2>3, <3>1
      <4>2. ASSUME ended = "no" PROVE sent'[i] = pipeline'[r + i]
        <5>1. r + i \in 1..k
          BY <2>1, <2>2, <4>1, <4>2
        <5>2. pipeline'[r + i] = pipeline[r + i + 1]
          BY <2>4, <5>1
        <5> QED BY <2>2, <4>1, <4>2, <5>2
      <4> QED BY <4>1, <4>2
    <3>2. CASE ~(i <= n)
      <4>1. i - n \in 1..(Len(pipeline') - k) /\ n + (i - n) = i /\ k + (i - n) \in 1..Len(pipeline')
        BY <2>1, <2>3, <2>5, <3>2
      <4>2. sent'[i] = pipeline'[k + (i - n)]
        BY <2>3, <4>1
      <4>3. ended = "no" => k + (i - n) = r + i
        BY <2>1, <2>2
      <4> QED BY <2>5, <4>1, <4>2, <4>3
    <3> QED BY <3>1, <3>2
  <2>8. ended = "no" => r + Len(sent') = Len(pipeline')
    <3>1. n \in Nat /\ k \in Nat /\ r \in Nat /\ (ended = "no" => r + n = k)
      BY <2>1, <2>2
    <3>2. Len(sent') = n + (Len(pipeline') - k)
      BY <2>3
    <3>3. Len(pipeline') \in Nat
      BY <2>5
    <3> QED BY <3>1, <3>2, <3>3
  <2> QED BY <2>6, <2>7, <2>8, <1>1 DEF SentMatches
<1>17. RefusedIsNext'
  <2>1. SUFFICES ASSUME ended = "permanent" PROVE RefusedIsNext'
    BY <1>1 DEF RefusedIsNext
  <2>2. Len(replies) < Len(pipeline) /\ pipeline[Len(replies) + 1] \in Refused
    BY <2>1, <1>3 DEF IndInv, RefusedIsNext
  <2>3. Len(replies) \in 1..(Len(pipeline) - 1) /\ Len(replies') + 1 = Len(replies)
    BY <2>2, <1>3, <1>6
  <2>4. pipeline'[Len(replies)] = pipeline[Len(replies) + 1] /\ Len(replies') < Len(pipeline')
    BY <2>3, <1>3, <1>6, <1>9
  <2> QED BY <2>2, <2>3, <2>4 DEF RefusedIsNext
<1>18. LogOfMade' /\ LogEndsNewest'
  <2>1. LogOfMade'
    BY <1>1 DEF IndInv, LogOfMade
  <2>2. Gone + 1 <= log[Len(log)]
    <3>1. 1 \in 1..Len(replies) /\ replies[1] = Gone + 1
      BY <1>3, <1>5
    <3> QED BY <3>1, <1>13
  <2>3. ASSUME NEW i \in 1..Len(log), log[i] <= Gone + 1
        PROVE  log[i] <= log[Len(log)]
    <3>1. log[i] \in Nat
      BY DEF IndInv, LogOfMade, TypeOK
    <3>2. CASE log[i] <= Gone
      BY <3>2 DEF IndInv, LogEndsNewest
    <3>3. CASE log[i] = Gone + 1
      BY <3>3, <2>2
    <3> QED BY <3>1, <3>2, <3>3, <2>3, <1>6
  <2> QED BY <2>1, <2>3, <1>1, <1>4 DEF LogEndsNewest
<1>19. GivenUpWasServed' /\ AcceptedWasApplied'
  BY <1>1, <1>3 DEF IndInv, GivenUpWasServed, AcceptedWasApplied, Applied
<1> QED
  BY <1>4, <1>8, <1>11, <1>12, <1>15, <1>16, <1>17, <1>18, <1>19 DEF IndInv

-----------------------------------------------------------------------------
(* The invariant, and what it implies.                                      *)

LEMMA StepIndInv == IndInv /\ [Next]_vars => IndInv'
<1> SUFFICES ASSUME IndInv, [Next]_vars PROVE IndInv'
  OBVIOUS
<1>1. CASE Client
  BY <1>1, ResumeStartStep, StaleTokenStep, BackoffElapsesStep, ReadHandshakeStep,
     ReadResultStep, StreamFailsStep DEF Client
<1>2. CASE Server
  BY <1>2, ServerShakesHandsStep, ServerAppliesStep, ServerRefusesStep DEF Server
<1>3. CASE WriteMutations
  BY <1>3, WriteMutationsStep
<1>4. CASE NoToken
  BY <1>4, NoTokenStep
<1>5. CASE IdleTimeout
  BY <1>5, IdleTimeoutStep
<1>6. CASE RestartNetwork
  BY <1>6, RestartNetworkStep
<1>7. CASE Restart
  BY <1>7, RestartStep
<1>8. CASE ServerRefusesStream
  BY <1>8, ServerRefusesStreamStep
<1>9. CASE Break
  BY <1>9, BreakStep
<1>10. CASE BreakWrite
  BY <1>10, BreakWriteStep
<1>11. CASE UNCHANGED vars
  <2>1. /\ UNCHANGED <<pipeline, handshake, idle, connection, log, store>>
        /\ stream' = stream /\ closeCount' = closeCount /\ asked' = asked /\ faults' = faults
    BY <1>11 DEF vars
  <2>2. TypeOK'
    BY <2>1, StoreKept, CallKept DEF IndInv, TypeOK, Message
  <2>3. TokenAsked'
    BY <2>1 DEF IndInv, TokenAsked
  <2> QED BY <2>1, <2>2, <2>3, StoreKept, CallKept DEF IndInv
<1> QED
  BY <1>1, <1>2, <1>3, <1>4, <1>5, <1>6, <1>7, <1>8, <1>9, <1>10, <1>11 DEF Next

LEMMA Invariance == Spec => []IndInv
<1> QED BY InitIndInv, StepIndInv, PTL DEF Spec

\* The front of a sequence, place by place.
LEMMA FrontIsSubSeq ==
  ASSUME NEW S, NEW a \in Seq(S), NEW s \in Seq(S), Len(a) <= Len(s),
         \A i \in 1..Len(a) : a[i] = s[i]
  PROVE  a = SubSeq(s, 1, Len(a))
<1>1. Len(a) \in Nat /\ Len(s) \in Nat /\ \A i \in 1..Len(s) : s[i] \in S
  BY LenProperties, ElementOfSeq
<1>2. 1 \in Int /\ Len(a) \in Int /\ \A i \in 1..Len(a) : s[i] \in S
  BY <1>1
<1> DEFINE f == SubSeq(s, 1, Len(a))
<1>3. /\ f \in Seq(S)
      /\ Len(f) = IF 1 <= Len(a) THEN Len(a) - 1 + 1 ELSE 0
      /\ \A i \in 1..(Len(a) - 1 + 1) : f[i] = s[1 + i - 1]
  BY <1>2, SubSeqProperties
<1> HIDE DEF f
<1>4. Len(f) = Len(a)
  BY <1>1, <1>3
<1>5. \A i \in 1..Len(a) : f[i] = a[i]
  BY <1>1, <1>3
<1>6. f = a
  BY <1>3, <1>4, <1>5, SeqEqual
<1> QED BY <1>6 DEF f

LEMMA ConsistentPipeline == IndInv => PipelineConsistent
<1> SUFFICES ASSUME IndInv PROVE PipelineConsistent
  OBVIOUS
<1> USE PendingAssumption
<1>1. TypeOK
  BY DEF IndInv
<1>2. NoForeignAnswer
  <2>1. SUFFICES ASSUME handshake
                 PROVE  /\ Len(replies) <= Len(pipeline)
                        /\ replies = SubSeq(pipeline, 1, Len(replies))
    BY DEF NoForeignAnswer
  <2>2. /\ Len(replies) <= Len(pipeline)
        /\ \A i \in 1..Len(replies) : replies[i] = pipeline[i]
    BY <2>1 DEF IndInv, RepliesMatch
  <2>3. replies \in Seq(Message) /\ pipeline \in Seq(Message)
    BY <1>1, SeqMonotonic DEF TypeOK, Message
  <2> QED BY <2>2, <2>3, FrontIsSubSeq
<1>3. PipelineIsTheFront
  <2>1. Len(pipeline) <= Len(queue) /\ Len(pipeline) <= MaxPending
    BY QueueFacts DEF IndInv, IsFront, Fit
  <2>2. \A i \in 1..Len(pipeline) : pipeline[i] = queue[i]
    BY DEF IndInv, IsFront
  <2> QED BY <1>1, <2>1, <2>2, FrontIsSubSeq DEF PipelineIsTheFront, TypeOK
<1>4. IdleOnlyWhenDone
  BY DEF IndInv, IdleOnlyWhenDone, IdleIsShaken, Disconnected
<1>5. TokenFindsItsStream
  <2>0. DOMAIN asked = 1..Len(asked)
    BY <1>1, LenProperties DEF TypeOK
  <2> DEFINE T == {i \in DOMAIN asked : asked[i] = closeCount}
  <2>1. CASE stream = "Starting"
    <3>1. PICK i \in 1..Len(asked) :
            asked[i] = closeCount /\ \A j \in 1..Len(asked) : asked[j] = closeCount => j = i
      BY <2>1 DEF IndInv, TokenAsked
    <3>2. T = {i}
      BY <3>1, <2>0
    <3>3. Cardinality(T) = 1
      BY <3>2, FS_Singleton
    <3> QED BY <3>3, <2>1 DEF TokenFindsItsStream
  <2>2. CASE stream # "Starting"
    <3>1. T = {}
      BY <2>0, <2>2 DEF IndInv, TokenAsked
    <3>2. Cardinality(T) = 0
      BY <3>1, FS_EmptySet
    <3> QED BY <3>2, <2>2 DEF TokenFindsItsStream
  <2> QED BY <2>1, <2>2
<1> QED BY <1>1, <1>2, <1>3, <1>4, <1>5 DEF PipelineConsistent

LEMMA MatchingAnswers == IndInv => AnswersMatch
<1> SUFFICES ASSUME IndInv, handshake, ended = "no" PROVE replies \o sent = pipeline
  BY DEF AnswersMatch
<1>1. replies \in Seq(Message) /\ sent \in Seq(Message) /\ pipeline \in Seq(Message)
  BY SeqMonotonic DEF IndInv, TypeOK, Message
<1>2. /\ replies \o sent \in Seq(Message)
      /\ Len(replies \o sent) = Len(replies) + Len(sent)
      /\ \A i \in 1..(Len(replies) + Len(sent)) :
            (replies \o sent)[i] = IF i <= Len(replies) THEN replies[i] ELSE sent[i - Len(replies)]
      /\ Len(replies) \in Nat /\ Len(sent) \in Nat /\ Len(pipeline) \in Nat
  BY <1>1, ConcatProperties, LenProperties
<1>3. /\ Len(replies) + Len(sent) = Len(pipeline)
      /\ \A i \in 1..Len(replies) : replies[i] = pipeline[i]
      /\ \A i \in 1..Len(sent) : sent[i] = pipeline[Len(replies) + i]
  BY DEF IndInv, RepliesMatch, SentMatches
<1>4. ASSUME NEW i \in 1..Len(pipeline) PROVE (replies \o sent)[i] = pipeline[i]
  <2>1. i \in 1..(Len(replies) + Len(sent))
    BY <1>3
  <2>2. CASE i <= Len(replies)
    BY <2>1, <2>2, <1>2, <1>3
  <2>3. CASE ~(i <= Len(replies))
    <3>1. i - Len(replies) \in 1..Len(sent) /\ Len(replies) + (i - Len(replies)) = i
      BY <2>1, <2>3, <1>2
    <3>2. (replies \o sent)[i] = sent[i - Len(replies)]
      BY <2>1, <2>3, <1>2
    <3> QED BY <3>1, <3>2, <1>3
  <2> QED BY <2>2, <2>3
<1> QED BY <1>1, <1>2, <1>3, <1>4, SeqEqual

LEMMA AccountedWrites == IndInv => WritesAccountedFor
<1> SUFFICES ASSUME IndInv PROVE WritesAccountedFor
  OBVIOUS
<1>1. /\ Len(queue) \in Nat /\ issued \in Nat /\ Gone \in Nat
      /\ Gone + Len(queue) = issued /\ \A i \in 1..Len(queue) : queue[i] = Gone + i
  BY QueueFacts DEF IndInv
<1>2. ToSet(queue) = (Gone + 1)..issued
  <2>0. ToSet(queue) = {queue[i] : i \in DOMAIN queue}
    BY DEF ToSet
  <2>1. ToSet(queue) = {queue[i] : i \in 1..Len(queue)}
    BY <2>0, LenProperties DEF IndInv, TypeOK
  <2>2. ASSUME NEW x \in (Gone + 1)..issued PROVE \E i \in 1..Len(queue) : queue[i] = x
    <3>1. x - Gone \in 1..Len(queue) /\ Gone + (x - Gone) = x
      BY <1>1
    <3> QED BY <3>1, <1>1
  <2>3. ASSUME NEW i \in 1..Len(queue) PROVE queue[i] \in (Gone + 1)..issued
    BY <1>1
  <2> QED BY <2>1, <2>2, <2>3
<1>3. AnsweredOnce
  <2>1. (1..issued) \ ToSet(queue) = 1..Gone
    BY <1>1, <1>2
  <2> QED BY <2>1 DEF AnsweredOnce, IndInv, QueueIsTheRest
<1>4. NewestWins
  <2>1. ASSUME NEW i \in 1..Len(log) PROVE log[i] <= log[Len(log)] \/ log[i] \in ToSet(queue)
    <3>1. log[i] \in 1..issued
      BY DEF IndInv, LogOfMade
    <3>2. CASE log[i] <= Gone
      BY <3>2 DEF IndInv, LogEndsNewest
    <3>3. CASE ~(log[i] <= Gone)
      BY <3>1, <3>3, <1>1, <1>2
    <3> QED BY <3>2, <3>3
  <2> QED BY <2>1 DEF NewestWins
<1> QED BY <1>3, <1>4 DEF IndInv, WritesAccountedFor

\* The types, and the four facts behind the assertions of the write stream: an
\* answer is for the first write of the pipeline (OnWriteStreamMutationResult),
\* the pipeline is the front of the queue (FillWritePipeline), the idle timer runs
\* only with nothing to send, a token finds the stream that asked for it.
THEOREM PipelineIsConsistent == Spec => []PipelineConsistent
<1> QED BY Invariance, ConsistentPipeline, PTL

\* On a call that shook hands and has not ended, the answers not read and the
\* messages not read are the pipeline, in order.
THEOREM AnswersFindTheirWrites == Spec => []AnswersMatch
<1> QED BY Invariance, MatchingAnswers, PTL

\* Every write made waits or was answered once; success is told only of writes
\* the server applied, failure only of those it refused or applied; and the last
\* the server applied is the newest, but for writes that will come again.
THEOREM EveryWriteIsAccountedFor == Spec => []WritesAccountedFor
<1> QED BY Invariance, AccountedWrites, PTL

-----------------------------------------------------------------------------
(* The refinement of WriteQueue.                                            *)

\* What the server took and will answer: the mapping of the INSTANCE.
Taken == IF handshake THEN Len(replies) ELSE 0

\* A step that leaves the queue and the log loses answers, or none.
LEMMA LosesAnswers ==
  ASSUME IndInv, UNCHANGED <<store, log>>, Taken' \in 0..Taken
  PROVE  Promise!Next
<1> QED BY DEF store, Taken, Promise!Next, Promise!Lose

LEMMA TakenFacts ==
  ASSUME IndInv
  PROVE  /\ Taken \in Nat /\ Taken <= Len(queue)
         /\ Len(replies) \in Nat /\ 0 \in 0..Taken /\ Taken \in 0..Taken
<1>1. Len(replies) \in Nat /\ Len(pipeline) \in Nat /\ Len(pipeline) <= Len(queue)
      /\ Len(queue) \in Nat
  BY QueueFacts, LenProperties DEF IndInv, TypeOK
<1>2. handshake => Len(replies) <= Len(pipeline)
  BY DEF IndInv, RepliesMatch
<1>3. Taken \in Nat /\ Taken <= Len(queue)
  BY <1>1, <1>2 DEF Taken
<1> QED BY <1>1, <1>3

\* Every step of the client, the server or the network is one of the queue.
LEMMA StepsOfTheQueue ==
  ASSUME IndInv, Next
  PROVE  Promise!Next
<1>1. CASE ResumeStart \/ StaleToken \/ BackoffElapses \/ BreakWrite
  <2>1. UNCHANGED <<store, log>> /\ Taken' = Taken
    BY <1>1 DEF ResumeStart, StaleToken, BackoffElapses, BreakWrite, connection, Taken
  <2> QED BY <2>1, TakenFacts, LosesAnswers
<1>2. CASE ServerRefuses \/ ServerRefusesStream
  <2>1. UNCHANGED <<store, log>> /\ Taken' = Taken
    BY <1>2 DEF ServerRefuses, ServerRefusesStream, Taken
  <2> QED BY <2>1, TakenFacts, LosesAnswers
<1>3. CASE ReadHandshake
  <2>1. UNCHANGED <<store, log>> /\ Len(replies') = 0
    <3>1. UNCHANGED <<store, log>> /\ replies' = Tail(replies)
          /\ replies # <<>> /\ Head(replies) = Handshake
      BY <1>3 DEF ReadHandshake
    <3>2. replies = <<Handshake>>
      BY <3>1, FirstReply
    <3> QED BY <3>1, <3>2
  <2>2. Taken' = 0
    BY <2>1 DEF Taken
  <2> QED BY <2>1, <2>2, TakenFacts, LosesAnswers
<1>4. CASE ServerShakesHands
  <2>1. ServerReads(Handshake) /\ UNCHANGED <<store, log>> /\ handshake' = handshake
    BY <1>4 DEF ServerShakesHands
  <2>2. ~handshake
    BY <2>1, FirstSent
  <2>3. Taken' = 0
    BY <2>1, <2>2 DEF Taken
  <2> QED BY <2>1, <2>3, TakenFacts, LosesAnswers
<1>5. CASE NoToken \/ IdleTimeout \/ RestartNetwork \/ Restart
  <2>1. UNCHANGED <<store, log>> /\ handshake' = FALSE
    BY <1>5 DEF NoToken, IdleTimeout, RestartNetwork, StopAndRefill, Restart
  <2>2. Taken' = 0
    BY <2>1 DEF Taken
  <2> QED BY <2>1, <2>2, TakenFacts, LosesAnswers
<1>6. CASE Break
  <2>1. UNCHANGED <<store, log>> /\ handshake' = handshake
    BY <1>6 DEF Break
  <2>2. PICK n \in 0..Len(replies) : replies' = SubSeq(replies, 1, n)
    BY <1>6 DEF Break
  <2>3. Len(replies') = n
    <3>1. replies \in Seq(Message) /\ Len(replies) \in Nat
      BY LenProperties DEF IndInv, TypeOK, Message
    <3>2. 1 \in Int /\ n \in Int /\ \A i \in 1..n : replies[i] \in Message
      BY <3>1, ElementOfSeq
    <3>3. Len(SubSeq(replies, 1, n)) = IF 1 <= n THEN n - 1 + 1 ELSE 0
      BY <3>2, SubSeqProperties
    <3> QED BY <2>2, <3>3
  <2>4. Taken' \in 0..Taken
    BY <2>1, <2>3, TakenFacts DEF Taken
  <2> QED BY <2>1, <2>4, LosesAnswers
<1>7. CASE ServerApplies
  <2>1. PICK b \in Batch \ Refused : ServerReads(b) /\ log' = Append(log, b) /\ Answer(b)
    BY <1>7 DEF ServerApplies
  <2>2. handshake' = handshake /\ UNCHANGED store /\ replies' = Append(replies, b)
    BY <1>7, <2>1 DEF ServerApplies, Answer
  <2>3. handshake /\ Len(replies) + 1 \in 1..Len(pipeline) /\ b = pipeline[Len(replies) + 1]
    <3>1. b # Handshake
      BY DEF Handshake, Batch
    <3> QED BY <3>1, <2>1, FirstSent
  <2>4. Taken = Len(replies) /\ Taken' = Taken + 1
    <3>1. replies \in Seq(Message) /\ b \in Message
      BY DEF IndInv, TypeOK, Message
    <3>2. Len(replies') = Len(replies) + 1
      BY <3>1, <2>2, AppendProperties
    <3> QED BY <2>2, <2>3, <3>2 DEF Taken
  <2>5. Taken < Len(queue) /\ b = queue[Taken + 1]
    <3>1. Len(pipeline) <= Len(queue) /\ Len(pipeline) \in Nat /\ Len(queue) \in Nat
      BY QueueFacts DEF IndInv
    <3>2. pipeline[Len(replies) + 1] = queue[Len(replies) + 1]
      BY <2>3 DEF IndInv, IsFront
    <3> QED BY <2>3, <2>4, <3>1, <3>2, TakenFacts
  <2>6. Promise!Take
    BY <2>1, <2>2, <2>4, <2>5 DEF store, Taken, Promise!Take
  <2> QED BY <2>6 DEF Promise!Next
<1>8. CASE WriteMutations
  <2>1. /\ issued < MaxBatches /\ issued' = issued + 1 /\ queue' = Append(queue, issued + 1)
        /\ handshake' = handshake /\ replies' = replies /\ log' = log
    BY <1>8 DEF WriteMutations
  <2>2. Promise!Issue
    BY <2>1 DEF Promise!Issue
  <2> QED BY <2>2 DEF Promise!Next
<1>9. CASE ReadResult
  <2>1. /\ replies # <<>> /\ Head(replies) # Handshake /\ replies' = Tail(replies)
        /\ queue' = Tail(queue) /\ issued' = issued /\ log' = log /\ handshake' = handshake
    BY <1>9 DEF ReadResult
  <2>2. handshake /\ Len(replies') = Len(replies) - 1 /\ Len(replies) \in Nat /\ Len(replies) >= 1
    BY <2>1, FirstReply
  <2>3. Taken > 0 /\ Taken' = Taken - 1
    BY <2>1, <2>2 DEF Taken
  <2>4. Promise!Acknowledge
    BY <2>1, <2>3 DEF Taken, Promise!Acknowledge
  <2> QED BY <2>4 DEF Promise!Next
<1>10. CASE ReadFails \/ WriteFails
  <2>1. CloseWithError(ended) /\ log' = log /\ handshake' = FALSE
    BY <1>10 DEF ReadFails, WriteFails, CloseWithError
  <2>2. Taken' = 0
    BY <2>1 DEF Taken
  <2>3. CASE BlamesWrites(ended)
    <3>1. queue' = Tail(queue) /\ issued' = issued
      BY <2>1, <2>3 DEF CloseWithError, RejectFirst
    <3>2. pipeline # <<>>
      BY <2>3 DEF BlamesWrites
    <3>3. queue # <<>>
      BY <3>2, QueueFacts DEF IndInv
    <3>4. Promise!Refuse
      BY <2>1, <2>2, <3>1, <3>3 DEF Taken, Promise!Refuse
    <3> QED BY <3>4 DEF Promise!Next
  <2>4. CASE ~BlamesWrites(ended)
    <3>1. UNCHANGED store
      BY <2>1, <2>4 DEF CloseWithError, KeepWrites
    <3> QED BY <2>1, <2>2, <3>1, TakenFacts, LosesAnswers
  <2> QED BY <2>3, <2>4
<1> QED
  BY <1>1, <1>2, <1>3, <1>4, <1>5, <1>6, <1>7, <1>8, <1>9, <1>10 DEF Next, Client, Server

\* The client's write path keeps the promise of WriteQueue: writes reach the
\* server in the order they were made, each at least once unless it is refused,
\* and leave the queue one by one from the front.
THEOREM StreamKeepsThePromise == Spec => KeepsThePromise
<1>1. Init => Promise!Init
  BY DEF Init, Promise!Init
<1>2. IndInv /\ [Next]_vars => [Promise!Next]_(Promise!state)
  <2>1. ASSUME UNCHANGED vars PROVE UNCHANGED Promise!state
    BY <2>1 DEF vars, store, connection, Promise!state
  <2> QED BY <2>1, StepsOfTheQueue
<1> QED BY <1>1, <1>2, Invariance, PTL DEF Spec, KeepsThePromise, Promise!Spec
-----------------------------------------------------------------------------
(* The writes that are given up.                                            *)

\* The server refused the first write that it has not answered, and what is given up
\* is the first of the pipeline: that write, or one whose answer was thrown away.
BlameFollowsARefusal ==
    \A b \in rejected' \ rejected :
        /\ ended = "permanent" /\ b = Head(pipeline)
        /\ pipeline[Len(replies) + 1] \in Refused
        /\ \/ replies = <<>> /\ b \in Refused
           \/ failing = "next" /\ replies # <<>> /\ Head(replies) = b /\ Applied(b)

LEMMA BlameStep == IndInv /\ [Next]_vars => BlameFollowsARefusal
<1> SUFFICES ASSUME IndInv, [Next]_vars, NEW b \in rejected' \ rejected
             PROVE  /\ ended = "permanent" /\ b = Head(pipeline)
                    /\ pipeline[Len(replies) + 1] \in Refused
                    /\ \/ replies = <<>> /\ b \in Refused
                       \/ /\ failing = "next" /\ replies # <<>> /\ Head(replies) = b
                          /\ Applied(b)
  BY DEF BlameFollowsARefusal
<1>1. ReadFails \/ WriteFails
  <2>1. SUFFICES ASSUME ~(ReadFails \/ WriteFails) PROVE rejected' = rejected
    OBVIOUS
  <2>2. CASE UNCHANGED vars
    BY <2>2 DEF vars, store
  <2>3. CASE Client
    BY <2>1, <2>3 DEF Client, ResumeStart, StaleToken, BackoffElapses, ReadHandshake,
                      ReadResult, store
  <2>4. CASE Server
    BY <2>4 DEF Server, ServerShakesHands, ServerApplies, ServerRefuses, store
  <2>5. CASE \/ WriteMutations \/ NoToken \/ IdleTimeout \/ RestartNetwork \/ Restart
             \/ ServerRefusesStream \/ Break \/ BreakWrite
    BY <2>5 DEF WriteMutations, NoToken, IdleTimeout, RestartNetwork, Restart,
                ServerRefusesStream, Break, BreakWrite, store
  <2> QED BY <2>2, <2>3, <2>4, <2>5 DEF Next
<1>2. CloseWithError(ended)
  BY <1>1 DEF ReadFails, WriteFails
<1>3. BlamesWrites(ended)
  BY <1>2 DEF CloseWithError, KeepWrites, store
<1>4. rejected' = rejected \cup {Head(pipeline)}
  BY <1>2, <1>3 DEF CloseWithError, RejectFirst
<1>5. ended = "permanent" /\ handshake /\ pipeline # <<>> /\ b = Head(pipeline)
  BY <1>3, <1>4 DEF BlamesWrites
<1>6. pipeline[Len(replies) + 1] \in Refused
  BY <1>5 DEF IndInv, RefusedIsNext
<1>7. CASE replies = <<>>
  <2>1. Len(replies) + 1 = 1 /\ Head(pipeline) = pipeline[1]
    BY <1>5, <1>7, HeadTailProperties DEF IndInv, TypeOK
  <2> QED BY <1>5, <1>6, <1>7, <2>1
<1>8. CASE replies # <<>>
  <2>1. WriteFails
    BY <1>1, <1>8 DEF ReadFails
  <2>2. Head(replies) = Head(pipeline) /\ Applied(Head(pipeline))
    BY <1>5, <1>8, FirstReply
  <2> QED BY <1>5, <1>6, <1>8, <2>1, <2>2 DEF WriteFails
<1> QED BY <1>7, <1>8

\* A write is given up only after the server has refused one, and is that one unless a
\* failed write made the client throw away the answer to it: HandleWriteError, which
\* gives up the first of the pipeline, is wrong in no other case.
THEOREM OnlyThrownAwayAnswersMislead == Spec => [][BlameFollowsARefusal]_vars
<1> QED BY Invariance, BlameStep, PTL DEF Spec
=============================================================================
