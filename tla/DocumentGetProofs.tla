-------------------------- MODULE DocumentGetProofs --------------------------
(***************************************************************************)
(* Proofs about DocumentGet, for any calls, versions and faults.            *)
(*                                                                         *)
(* Two inductive invariants.  Connected says what is on its way between the *)
(* client and the server: without an open stream nothing; on one, requests  *)
(* that take turns, and as many responses to come as the client counts, so  *)
(* that a document with no response behind it was sent for the target there *)
(* is.  Attended says where each call is: its task, its listener, its       *)
(* events and its answer.                                                   *)
(***************************************************************************)
EXTENDS DocumentGet, SequenceTheorems, TLAPS

-----------------------------------------------------------------------------
(* The invariant of the connection.                                         *)

\* Without an open stream there are no messages.
Closed ==
    stream # "Open" =>
        expected = 0 /\ sent = <<>> /\ replies = <<>> /\ ~watched /\ ~heard

\* A server that refuses the document denies it and never sends it, another one does
\* not deny it.
RefusesOrSends ==
    /\ watched => ~refuses
    /\ \A i \in 1..Len(replies) :
           /\ replies[i].kind = "denied" => refuses
           /\ replies[i].kind = "document" => ~refuses

IsResponse(m) == m.kind \in {"added", "removed"}

\* still[i] responses are to come when the first i - 1 of the messages rs have been
\* read: those among the others, and one to each of the requests.
Awaited(still, requests, rs) ==
    /\ still \in [1..(Len(rs) + 1) -> Nat]
    /\ still[Len(rs) + 1] = Len(requests)
    /\ \A i \in 1..Len(rs) :
           still[i] = IF IsResponse(rs[i]) THEN still[i + 1] + 1 ELSE still[i + 1]

\* A document with no response behind it is not older than the target.
Recent(still, rs, since) ==
    \A i \in 1..Len(rs) : rs[i].kind = "document" /\ still[i] = 0 => rs[i].doc >= since

CountsWhatComes ==
    ~refuses =>
        \E still \in [1..(Len(replies) + 1) -> Nat] :
            /\ Awaited(still, sent, replies) /\ expected = still[1]
            /\ listeners # <<>> => Recent(still, replies, floor)

\* The first request changes what the server does, each next one changes it back, and
\* the last one asks for what the client wants.
TakesTurns ==
    ~refuses /\ stream = "Open" =>
        /\ \A i \in 1..Len(sent) : i < Len(sent) => sent[i] # sent[i + 1]
        /\ sent # <<>> => /\ sent[1] = "unwatch" <=> watched
                          /\ sent[Len(sent)] = "watch" <=> listeners # <<>>
        /\ sent = <<>> => (watched <=> listeners # <<>>)

Connected ==
    /\ TypeOK /\ Closed /\ RefusesOrSends /\ CountsWhatComes /\ TakesTurns
    /\ OnlineIsHeard /\ TimerOnlyWhileTrying /\ IdleOnlyWhenDone /\ SyncedIsFresh
    /\ floor <= server

-----------------------------------------------------------------------------
(* The invariant of the calls.                                              *)

Tasks == ToSet(tasks)
Events == ToSet(events)
Listeners == ToSet(listeners)

ListenTask(g) == [kind |-> "listen", get |-> g]
RemoveTask(g) == [kind |-> "remove", get |-> g]
HasEvent(g) == \E e \in Events : e.get = g
HasError(g) == \E e \in Events : e.get = g /\ e.kind = "error"

\* A call that was not made has left no trace.
Unasked(g) ==
    g \notin asked =>
        /\ answers[g] = 0 /\ g \notin muted /\ g \notin Listeners /\ ~HasEvent(g)
        /\ ListenTask(g) \notin Tasks

\* A call whose task has not run has gone no further.
Untried(g) ==
    ListenTask(g) \in Tasks =>
        answers[g] = 0 /\ g \notin muted /\ g \notin Listeners /\ ~HasEvent(g)

\* A listener is muted when its call is answered, and then to be removed.
MutedIsAnswered(g) ==
    /\ RemoveTask(g) \in Tasks => g \in muted
    /\ g \in muted => answers[g] = 1
    /\ g \in muted /\ g \in Listeners => RemoveTask(g) \in Tasks

\* A listener that was told of an error is one no longer.
ErrorEnds(g) == HasError(g) => g \notin Listeners

\* A call answered with an error has nothing to come.
AnsweredWithError(g) ==
    answers[g] > 0 /\ g \notin muted => g \notin Listeners /\ ~HasEvent(g)

\* A call without an answer will be listened for, is, or has an error to come.
Pending(g) ==
    g \in asked /\ answers[g] = 0 =>
        ListenTask(g) \in Tasks \/ g \in Listeners \/ HasError(g)

\* An error is the last event of its call.
ErrorsLast ==
    \A i, j \in DOMAIN events :
        i < j /\ events[i].kind = "error" => events[j].get # events[i].get

Held(g) ==
    /\ Unasked(g) /\ Untried(g) /\ MutedIsAnswered(g) /\ ErrorEnds(g)
    /\ AnsweredWithError(g) /\ Pending(g) /\ answers[g] <= 1

Attended ==
    /\ \A g \in Get : Held(g)
    /\ IsInjective(tasks) /\ IsInjective(listeners) /\ ErrorsLast

-----------------------------------------------------------------------------
(* Events and queues.                                                       *)

\* What is raised comes behind the events there are, one for each of the listeners ls.
LEMMA RaiseAdds ==
  ASSUME TypeOK, NEW ls \in Seq(Get), NEW kind \in {"synced", "cached", "error"},
         NEW doc \in 0..MaxVersion, Raise(ls, kind, doc)
  PROVE  /\ events' \in Seq(Event) /\ raised' \subseteq Get
         /\ Len(events') = Len(events) + Len(ls)
         /\ \A i \in 1..Len(events) : events'[i] = events[i]
         /\ \A i \in 1..Len(ls) :
                events'[Len(events) + i] = [get |-> ls[i], kind |-> kind, doc |-> doc]
<1> DEFINE new == EventsFor(ls, kind, doc)
<1>1. Len(ls) \in Nat /\ DOMAIN ls = 1..Len(ls) /\ \A i \in 1..Len(ls) : ls[i] \in Get
  BY LenProperties, ElementOfSeq
<1>2. new \in [1..Len(ls) -> Event]
  BY <1>1 DEF EventsFor, Event
<1>3. new \in Seq(Event) /\ Len(new) = Len(ls)
      /\ \A i \in 1..Len(ls) : new[i] = [get |-> ls[i], kind |-> kind, doc |-> doc]
  BY <1>1, <1>2 DEF EventsFor
<1> HIDE DEF new
<1>4. events \in Seq(Event) /\ events' = events \o new /\ raised' = raised \cup ToSet(ls)
  BY DEF TypeOK, Raise, new
<1>5. ToSet(ls) \subseteq Get
  BY <1>1 DEF ToSet
<1>6. Len(events) \in Nat
  BY <1>4, LenProperties
<1>7. /\ events' \in Seq(Event) /\ Len(events') = Len(events) + Len(ls)
      /\ \A i \in 1..(Len(events) + Len(ls)) :
             events'[i] = IF i <= Len(events) THEN events[i] ELSE new[i - Len(events)]
  <2>0. events \in Seq(Event) /\ new \in Seq(Event)
    BY <1>3, <1>4
  <2>1. /\ events \o new \in Seq(Event)
        /\ Len(events \o new) = Len(events) + Len(new)
        /\ \A i \in 1..(Len(events) + Len(new)) :
               (events \o new)[i] =
                   IF i <= Len(events) THEN events[i] ELSE new[i - Len(events)]
    BY <2>0, ConcatProperties
  <2>2. events' = events \o new /\ Len(new) = Len(ls)
    BY <1>3, <1>4
  <2> QED BY <2>1, <2>2
<1>8. \A i \in 1..Len(events) : events'[i] = events[i]
  <2>1. \A i \in 1..Len(events) : i \in 1..(Len(events) + Len(ls)) /\ i <= Len(events)
    BY <1>1, <1>6
  <2> QED BY <2>1, <1>7
<1>9. \A i \in 1..Len(ls) : events'[Len(events) + i] = new[i]
  <2>1. \A i \in 1..Len(ls) :
            /\ Len(events) + i \in 1..(Len(events) + Len(ls))
            /\ ~(Len(events) + i <= Len(events)) /\ Len(events) + i - Len(events) = i
    BY <1>1, <1>6
  <2> QED BY <2>1, <1>7
<1>10. raised' \subseteq Get
  BY <1>4, <1>5 DEF TypeOK
<1> QED BY <1>3, <1>7, <1>8, <1>9, <1>10

\* At most one event for each of some listeners, none of them an error.
Tells(some) ==
    \/ RaiseNothing
    \/ \E ls \in Seq(Get), kind \in {"synced", "cached"}, doc \in 0..MaxVersion :
           ToSet(ls) \subseteq some /\ Raise(ls, kind, doc)

LEMMA TellsTyped ==
  ASSUME TypeOK, NEW some, Tells(some)
  PROVE  events' \in Seq(Event) /\ raised' \subseteq Get
<1>1. CASE RaiseNothing
  BY <1>1 DEF RaiseNothing, TypeOK
<1>2. CASE ~RaiseNothing
  <2>1. PICK ls \in Seq(Get), kind \in {"synced", "cached"}, doc \in 0..MaxVersion :
            Raise(ls, kind, doc)
    BY <1>2 DEF Tells
  <2>2. kind \in {"synced", "cached", "error"}
    OBVIOUS
  <2> QED BY <2>1, <2>2, RaiseAdds
<1> QED BY <1>1, <1>2

LEMMA ListenersTyped ==
  ASSUME TypeOK
  PROVE  /\ listeners \in Seq(Get) /\ Listeners \subseteq Get /\ Len(listeners) \in Nat
         /\ DOMAIN listeners = 1..Len(listeners)
         /\ cache \in 0..MaxVersion
<1>1. listeners \in Seq(Get) /\ cache \in 0..MaxVersion
  BY DEF TypeOK
<1>2. /\ Len(listeners) \in Nat /\ DOMAIN listeners = 1..Len(listeners)
      /\ \A i \in 1..Len(listeners) : listeners[i] \in Get
  BY <1>1, LenProperties, ElementOfSeq
<1> QED BY <1>1, <1>2 DEF Listeners, ToSet

LEMMA BroadcastTells ==
  ASSUME TypeOK, NEW state, SetAndBroadcast(state)
  PROVE  /\ online' = state /\ current' \in BOOLEAN /\ (current' => current)
         /\ Tells(Listeners)
<1>1. online' = state
  BY DEF SetAndBroadcast
<1>2. CASE state = "Offline" /\ online # "Offline"
  <2>1. PICK ls \in IF current THEN {listeners} ELSE WaitingOnes :
            Raise(ls, "cached", cache) /\ current' = FALSE
    BY <1>2 DEF SetAndBroadcast
  <2>2. ls \in Seq(Get) /\ ToSet(ls) \subseteq Listeners
    <3>1. CASE current
      BY <2>1, <3>1, ListenersTyped DEF Listeners
    <3>2. CASE ~current
      <4>1. /\ ls \in SeqOf(Get, Len(listeners))
            /\ ToSet(ls) = {g \in ToSet(listeners) : Waiting(g)}
        BY <2>1, <3>2 DEF WaitingOnes
      <4>2. PICK m \in 0..Len(listeners) : ls \in [1..m -> Get]
        BY <4>1 DEF SeqOf
      <4>3. ls \in Seq(Get)
        BY <4>2, ListenersTyped
      <4> QED BY <4>1, <4>3 DEF Listeners
    <3> QED BY <3>1, <3>2
  <2> QED BY <1>1, <2>1, <2>2, ListenersTyped DEF Tells
<1>3. CASE ~(state = "Offline" /\ online # "Offline")
  <2>1. UNCHANGED current /\ RaiseNothing
    BY <1>3 DEF SetAndBroadcast
  <2> QED BY <1>1, <2>1 DEF Tells, TypeOK
<1> QED BY <1>2, <1>3

LEMMA UpdateTells ==
  ASSUME TypeOK, NEW state, UpdateState(state)
  PROVE  /\ online' = state /\ current' \in BOOLEAN /\ (current' => current)
         /\ timer' = FALSE /\ failed' = FALSE /\ Tells(Listeners)
BY BroadcastTells DEF UpdateState

\* A new listener alone is told.
LEMMA NewIsTold ==
  ASSUME TypeOK, NEW g \in Get, NEW synced \in BOOLEAN, RaiseNew(g, synced)
  PROVE  Tells({g})
<1>1. <<g>> \in Seq(Get) /\ ToSet(<<g>>) = {g}
  BY DEF ToSet
<1>2. \/ RaiseNothing
      \/ Raise(<<g>>, "synced", cache) \/ Raise(<<g>>, "cached", cache)
  BY DEF RaiseNew
<1> QED BY <1>1, <1>2, ListenersTyped DEF Tells

\* The first task is taken from the queue.
LEMMA TaskTaken ==
  ASSUME TypeOK, NEW kind, NextTask(kind)
  PROVE  /\ tasks \in Seq(Task) /\ tasks' \in Seq(Task) /\ Subject \in Get
         /\ Head(tasks) = [kind |-> kind, get |-> Subject]
         /\ UNCHANGED <<asked, muted, answers>>
         /\ Len(tasks) \in Nat \ {0} /\ Len(tasks') = Len(tasks) - 1
         /\ tasks[1] = Head(tasks)
         /\ \A i \in 1..Len(tasks') : tasks'[i] = tasks[i + 1]
<1>1. tasks \in Seq(Task) /\ tasks # <<>> /\ tasks' = Tail(tasks) /\ Head(tasks).kind = kind
  BY DEF TypeOK, NextTask
<1>2. /\ Head(tasks) \in Task /\ Tail(tasks) \in Seq(Task) /\ Head(tasks) = tasks[1]
      /\ Len(tasks') = Len(tasks) - 1 /\ Len(tasks) \in Nat \ {0}
      /\ \A i \in 1..Len(tasks') : tasks'[i] = tasks[i + 1]
  BY <1>1, HeadTailProperties, LenProperties, EmptySeq
<1>3. Head(tasks) = [kind |-> kind, get |-> Subject] /\ Subject \in Get
  BY <1>1, <1>2 DEF Task, Subject
<1> QED BY <1>1, <1>2, <1>3 DEF NextTask


-----------------------------------------------------------------------------
(* Counting the responses to come.                                          *)

Request == {"watch", "unwatch"}

\* With nothing on its way nothing is to come.
LEMMA NothingAwaited ==
  \E still \in [1..(Len(<<>>) + 1) -> Nat] : Awaited(still, <<>>, <<>>) /\ still[1] = 0
<1> DEFINE still == [i \in 1..(Len(<<>>) + 1) |-> 0]
<1>1. Len(<<>>) = 0
  OBVIOUS
<1>2. still \in [1..(Len(<<>>) + 1) -> Nat] /\ still[1] = 0
  BY <1>1
<1>3. still[Len(<<>>) + 1] = Len(<<>>) /\ 1..Len(<<>>) = {}
  BY <1>1
<1>4. Awaited(still, <<>>, <<>>)
  BY <1>2, <1>3 DEF Awaited
<1> QED BY <1>2, <1>4

\* The chain more is still with one more response behind every message.
SentChain(more, still, ss, rs, request) ==
    /\ more \in [1..(Len(rs) + 1) -> Nat]
    /\ Awaited(more, ss \o <<request>>, rs)
    /\ more[1] = still[1] + 1
    /\ \A i \in 1..Len(rs) : more[i] # 0

\* A request that is sent adds one response to those to come behind every message.
LEMMA SentAwaited ==
  ASSUME NEW ss \in Seq(Request), NEW rs \in Seq(Message), NEW request \in Request,
         NEW still, Awaited(still, ss, rs)
  PROVE  \E more : SentChain(more, still, ss, rs, request)
<1> DEFINE more == [i \in 1..(Len(rs) + 1) |-> still[i] + 1]
<1>1. Len(rs) \in Nat /\ Len(ss) \in Nat /\ Len(ss \o <<request>>) = Len(ss) + 1
  <2>1. Len(ss \o <<request>>) = Len(ss) + Len(<<request>>)
    BY ConcatProperties
  <2> QED BY <2>1, LenProperties
<1>2. /\ still \in [1..(Len(rs) + 1) -> Nat] /\ still[Len(rs) + 1] = Len(ss)
      /\ \A i \in 1..Len(rs) :
             still[i] = IF IsResponse(rs[i]) THEN still[i + 1] + 1 ELSE still[i + 1]
  BY DEF Awaited
<1>3. more \in [1..(Len(rs) + 1) -> Nat]
  BY <1>2
<1>4. \A i \in 1..(Len(rs) + 1) : more[i] = still[i] + 1 /\ still[i] \in Nat /\ more[i] # 0
  BY <1>2
<1>5. /\ Len(rs) + 1 \in 1..(Len(rs) + 1) /\ 1 \in 1..(Len(rs) + 1)
      /\ \A i \in 1..Len(rs) : i \in 1..(Len(rs) + 1) /\ i + 1 \in 1..(Len(rs) + 1)
  BY <1>1
<1> HIDE DEF more
<1>6. more[Len(rs) + 1] = Len(ss \o <<request>>)
  BY <1>1, <1>2, <1>4, <1>5
<1>7. \A i \in 1..Len(rs) :
          more[i] = IF IsResponse(rs[i]) THEN more[i + 1] + 1 ELSE more[i + 1]
  BY <1>2, <1>4, <1>5
<1>8. Awaited(more, ss \o <<request>>, rs)
  BY <1>3, <1>6, <1>7 DEF Awaited
<1> QED BY <1>3, <1>4, <1>5, <1>8 DEF SentChain

\* The chain fewer is still without the first message.
ReadChain(fewer, still, ss, rs, since) ==
    /\ fewer \in [1..(Len(Tail(rs)) + 1) -> Nat]
    /\ Awaited(fewer, ss, Tail(rs))
    /\ fewer[1] = IF IsResponse(Head(rs)) THEN still[1] - 1 ELSE still[1]
    /\ Recent(still, rs, since) => Recent(fewer, Tail(rs), since)

\* A message that is read leaves what is to come behind it.
LEMMA ReadAwaited ==
  ASSUME NEW ss \in Seq(Request), NEW rs \in Seq(Message), rs # <<>>,
         NEW still, Awaited(still, ss, rs), NEW since \in Nat
  PROVE  \E fewer : ReadChain(fewer, still, ss, rs, since)
<1> DEFINE n == Len(Tail(rs))
           fewer == [i \in 1..(n + 1) |-> still[i + 1]]
<1>1. /\ n \in Nat /\ Len(rs) = n + 1 /\ Head(rs) = rs[1]
      /\ \A i \in 1..n : Tail(rs)[i] = rs[i + 1]
  <2>1. Len(rs) \in Nat \ {0} /\ Len(Tail(rs)) = Len(rs) - 1 /\ Head(rs) = rs[1]
        /\ \A i \in 1..Len(Tail(rs)) : Tail(rs)[i] = rs[i + 1]
    BY HeadTailProperties, LenProperties, EmptySeq
  <2> QED BY <2>1
<1>2. /\ still \in [1..(n + 2) -> Nat] /\ still[n + 2] = Len(ss)
      /\ \A i \in 1..(n + 1) :
             still[i] = IF IsResponse(rs[i]) THEN still[i + 1] + 1 ELSE still[i + 1]
  <2>1. Len(rs) + 1 = n + 2
    BY <1>1
  <2> QED BY <1>1, <2>1 DEF Awaited
<1>3. /\ \A i \in 1..(n + 1) : i + 1 \in 1..(n + 2)
      /\ \A i \in 1..n : i \in 1..(n + 1) /\ i + 1 \in 1..(n + 1)
      /\ n + 1 \in 1..(n + 1) /\ 1 \in 1..(n + 1) /\ n + 1 + 1 = n + 2 /\ 1 + 1 = 2
      /\ 1 \in 1..(n + 2) /\ 2 \in 1..(n + 2)
  BY <1>1
<1>4. fewer \in [1..(n + 1) -> Nat]
  BY <1>2, <1>3
<1>5. \A i \in 1..(n + 1) : fewer[i] = still[i + 1]
  OBVIOUS
<1> HIDE DEF fewer, n
<1>6. \A i \in 1..n :
          fewer[i] = IF IsResponse(Tail(rs)[i]) THEN fewer[i + 1] + 1 ELSE fewer[i + 1]
  <2>1. SUFFICES ASSUME NEW i \in 1..n
                 PROVE  fewer[i] = IF IsResponse(Tail(rs)[i]) THEN fewer[i + 1] + 1
                                                              ELSE fewer[i + 1]
    OBVIOUS
  <2>2. Tail(rs)[i] = rs[i + 1] /\ fewer[i] = still[i + 1] /\ fewer[i + 1] = still[i + 1 + 1]
    BY <1>1, <1>3, <1>5
  <2>3. still[i + 1] = IF IsResponse(rs[i + 1]) THEN still[i + 1 + 1] + 1
                                                ELSE still[i + 1 + 1]
    BY <1>2, <1>3
  <2> QED BY <2>2, <2>3
<1>7. fewer[n + 1] = Len(ss)
  BY <1>2, <1>3, <1>5
<1>8. Awaited(fewer, ss, Tail(rs))
  BY <1>4, <1>6, <1>7 DEF Awaited, n
<1>9. fewer[1] = IF IsResponse(Head(rs)) THEN still[1] - 1 ELSE still[1]
  <2>1. fewer[1] = still[2] /\ still[1] \in Nat /\ still[2] \in Nat
    BY <1>2, <1>3, <1>5
  <2>2. still[1] = IF IsResponse(rs[1]) THEN still[2] + 1 ELSE still[2]
    BY <1>2, <1>3
  <2> QED BY <2>1, <2>2, <1>1
<1>10. ASSUME Recent(still, rs, since) PROVE Recent(fewer, Tail(rs), since)
  <2>1. \A j \in 1..(n + 1) : rs[j].kind = "document" /\ still[j] = 0 => rs[j].doc >= since
    BY <1>1, <1>10 DEF Recent
  <2>2. \A i \in 1..n : /\ i + 1 \in 1..(n + 1)
                        /\ Tail(rs)[i] = rs[i + 1] /\ fewer[i] = still[i + 1]
    BY <1>1, <1>3, <1>5
  <2>3. \A i \in 1..n :
            Tail(rs)[i].kind = "document" /\ fewer[i] = 0 => Tail(rs)[i].doc >= since
    BY <2>1, <2>2
  <2> QED BY <2>3 DEF Recent, n
<1> QED BY <1>4, <1>8, <1>9, <1>10 DEF n, ReadChain

\* The chain longer is still with the message m at the end.
AnswerChain(longer, still, tt, rs, m, since) ==
    /\ longer \in [1..(Len(Append(rs, m)) + 1) -> Nat]
    /\ Awaited(longer, tt, Append(rs, m)) /\ longer[1] = still[1]
    /\ Recent(still, rs, since) => Recent(longer, Append(rs, m), since)

\* A message that the server sends goes behind the others: a response takes the place
\* of the request it answers.
LEMMA AnsweredAwaited ==
  ASSUME NEW ss \in Seq(Request), NEW tt \in Seq(Request), NEW rs \in Seq(Message),
         NEW m \in Message, Len(ss) = IF IsResponse(m) THEN Len(tt) + 1 ELSE Len(tt),
         NEW still, Awaited(still, ss, rs), NEW since \in Nat,
         m.kind = "document" => m.doc >= since
  PROVE  \E longer : AnswerChain(longer, still, tt, rs, m, since)
<1> DEFINE n == Len(rs)
           longer == [i \in 1..(n + 2) |-> IF i = n + 2 THEN Len(tt) ELSE still[i]]
           ls == Append(rs, m)
<1>1. /\ n \in Nat /\ Len(ls) = n + 1 /\ ls[n + 1] = m
      /\ \A i \in 1..n : ls[i] = rs[i]
  BY AppendProperties, LenProperties
<1>2. /\ still \in [1..(n + 1) -> Nat] /\ still[n + 1] = Len(ss)
      /\ \A i \in 1..n :
             still[i] = IF IsResponse(rs[i]) THEN still[i + 1] + 1 ELSE still[i + 1]
  BY DEF Awaited
<1>3. Len(tt) \in Nat
  BY LenProperties
<1>4. /\ \A i \in 1..(n + 1) : i \in 1..(n + 2) /\ i # n + 2 /\ i + 1 \in 1..(n + 2)
      /\ \A i \in 1..n : i \in 1..(n + 1) /\ i + 1 \in 1..(n + 1)
      /\ n + 2 \in 1..(n + 2) /\ n + 1 + 1 = n + 2 /\ 1 \in 1..(n + 1)
      /\ \A i \in 1..(n + 2) : i # n + 2 => i \in 1..(n + 1)
      /\ \A i \in 1..(n + 1) : i \in 1..n \/ i = n + 1
      /\ n + 1 \in 1..(n + 1)
  BY <1>1
<1>5. longer \in [1..(n + 2) -> Nat]
  BY <1>2, <1>3, <1>4
<1>6. longer[n + 2] = Len(tt) /\ \A i \in 1..(n + 1) : longer[i] = still[i]
  BY <1>4
<1> HIDE DEF longer, ls, n
<1>7. \A i \in 1..(n + 1) :
          longer[i] = IF IsResponse(ls[i]) THEN longer[i + 1] + 1 ELSE longer[i + 1]
  <2>1. ASSUME NEW i \in 1..n
        PROVE  longer[i] = IF IsResponse(ls[i]) THEN longer[i + 1] + 1 ELSE longer[i + 1]
    <3>1. ls[i] = rs[i] /\ longer[i] = still[i] /\ longer[i + 1] = still[i + 1]
      BY <1>1, <1>4, <1>6
    <3> QED BY <3>1, <1>2
  <2>2. longer[n + 1] = IF IsResponse(ls[n + 1]) THEN longer[n + 2] + 1 ELSE longer[n + 2]
    <3>1. longer[n + 1] = Len(ss) /\ longer[n + 2] = Len(tt) /\ ls[n + 1] = m
      BY <1>1, <1>2, <1>4, <1>6
    <3> QED BY <3>1
  <2> QED BY <2>1, <2>2, <1>4
<1>8. Awaited(longer, tt, ls)
  <2>1. Len(ls) + 1 = n + 2
    BY <1>1
  <2>2. longer \in [1..(Len(ls) + 1) -> Nat] /\ longer[Len(ls) + 1] = Len(tt)
    BY <2>1, <1>5, <1>6
  <2> QED BY <2>2, <1>1, <1>7 DEF Awaited
<1>9. longer[1] = still[1]
  BY <1>4, <1>6
<1>10. ASSUME Recent(still, rs, since) PROVE Recent(longer, ls, since)
  <2>1. \A i \in 1..n : ls[i] = rs[i] /\ longer[i] = still[i]
    BY <1>1, <1>4, <1>6
  <2>2. \A i \in 1..n : ls[i].kind = "document" /\ longer[i] = 0 => ls[i].doc >= since
    BY <1>10, <2>1 DEF Recent, n
  <2>3. \A i \in 1..(n + 1) : ls[i].kind = "document" /\ longer[i] = 0 => ls[i].doc >= since
    BY <2>2, <1>1, <1>4
  <2> QED BY <2>3, <1>1 DEF Recent
<1>11. longer \in [1..(Len(ls) + 1) -> Nat]
  BY <1>8 DEF Awaited
<1> QED BY <1>8, <1>9, <1>10, <1>11 DEF ls, AnswerChain


-----------------------------------------------------------------------------
(* Types.                                                                   *)

\* The parts of TypeOK.
CallsTyped ==
    asked \subseteq Get /\ tasks \in Seq(Task) /\ muted \subseteq Get /\ answers \in [Get -> Nat]

ViewTyped ==
    /\ events \in Seq(Event) /\ listeners \in Seq(Get) /\ raised \subseteq Get
    /\ current \in BOOLEAN
    /\ online \in {"Unknown", "Online", "Offline"} /\ timer \in BOOLEAN /\ failed \in BOOLEAN

StreamTyped ==
    /\ stream \in StreamState /\ idle \in BOOLEAN
    /\ expected \in Int /\ sent \in Seq(Request) /\ replies \in Seq(Message)
    /\ watched \in BOOLEAN /\ told \in 0..NotTold /\ heard \in BOOLEAN

DataTyped ==
    /\ cache \in 0..MaxVersion /\ server \in 0..MaxVersion /\ refuses \in BOOLEAN
    /\ floor \in 0..MaxVersion /\ faults \in 0..MaxFaults

LEMMA TypeParts ==
  /\ TypeOK <=> CallsTyped /\ ViewTyped /\ StreamTyped /\ DataTyped
  /\ TypeOK' <=> CallsTyped' /\ ViewTyped' /\ StreamTyped' /\ DataTyped'
BY DEF TypeOK, CallsTyped, ViewTyped, StreamTyped, DataTyped, Request

LEMMA Bounds == NotTold \in Nat /\ NotTold \in 0..NotTold /\ 0..MaxVersion \subseteq 0..NotTold
                /\ 0 \in 0..MaxVersion
BY VersionAssumption DEF NotTold

LEMMA TypeInit == Init => TypeOK
<1> SUFFICES ASSUME Init PROVE TypeOK
  OBVIOUS
<1>e. \A S : <<>> \in Seq(S)
  OBVIOUS
<1>1. CallsTyped
  BY <1>e DEF Init, CallsTyped
<1>2. ViewTyped
  BY <1>e DEF Init, ViewTyped
<1>4. 0 \in 0..MaxFaults
  BY FaultAssumption
<1>5. StreamTyped
  <2>1. expected \in Int /\ told \in 0..NotTold
    BY Bounds DEF Init
  <2>2. stream \in StreamState /\ idle \in BOOLEAN /\ watched \in BOOLEAN /\ heard \in BOOLEAN
    BY DEF Init, StreamState
  <2>3. sent \in Seq(Request) /\ replies \in Seq(Message)
    BY <1>e DEF Init
  <2> QED BY <2>1, <2>2, <2>3 DEF StreamTyped
<1>6. DataTyped
  BY <1>4, Bounds DEF Init, DataTyped
<1>3. StreamTyped /\ DataTyped
  BY <1>5, <1>6
<1> QED BY <1>1, <1>2, <1>3, TypeParts

LEMMA FaultTyped == TypeOK /\ Fault => faults' \in 0..MaxFaults
BY FaultAssumption DEF TypeOK, Fault

LEMMA SendTyped ==
  ASSUME TypeOK, NEW requests \in {<<>>, <<"watch">>, <<"unwatch">>}, Send(requests)
  PROVE  /\ sent' \in Seq(Request) /\ expected' \in Int
         /\ sent' = sent \o requests /\ expected' = expected + Len(requests)
         /\ UNCHANGED <<replies, watched, told, heard>>
<1>1. requests \in Seq(Request) /\ Len(requests) \in Nat
  <2>1. <<>> \in Seq(Request) /\ <<"watch">> \in Seq(Request) /\ <<"unwatch">> \in Seq(Request)
    BY DEF Request
  <2> QED BY <2>1, LenProperties
<1>2. sent \in Seq(Request) /\ expected \in Int
  BY DEF TypeOK, Request
<1>3. sent \o requests \in Seq(Request)
  BY <1>1, <1>2, ConcatProperties
<1> QED BY <1>1, <1>2, <1>3 DEF Send

\* Handlers of the main thread.
LEMMA TypeMain ==
  ASSUME TypeOK, GetDocument \/ Main
  PROVE  TypeOK'
<1>1. CallsTyped /\ ViewTyped /\ StreamTyped /\ DataTyped
  BY TypeParts
<1>2. UNCHANGED <<listeners, raised, current, online, tracker, stream, idle, connection, cache,
                  database, floor, faults>>
  BY DEF GetDocument, Main, RunMuted, RunSnapshot, RunError, view
<1>3. StreamTyped' /\ DataTyped'
  BY <1>1, <1>2 DEF connection, database, StreamTyped, DataTyped
<1>4. events' \in Seq(Event)
  <2>1. CASE GetDocument
    BY <2>1, <1>1 DEF GetDocument, view, ViewTyped
  <2>2. CASE Main
    <3>1. events # <<>> /\ events' = Tail(events)
      BY <2>2 DEF Main, RunMuted, RunSnapshot, RunError
    <3> QED BY <3>1, <1>1, HeadTailProperties DEF ViewTyped
  <2> QED BY <2>1, <2>2
<1>5. ViewTyped'
  BY <1>1, <1>2, <1>4 DEF tracker, ViewTyped
<1>6. CallsTyped'
  <2>1. CASE GetDocument
    <3>1. PICK g \in Get \ asked :
              /\ asked' = asked \cup {g} /\ UNCHANGED <<muted, answers>>
              /\ tasks' = Append(tasks, ListenTask(g))
      BY <2>1 DEF GetDocument, ListenTask
    <3>2. ListenTask(g) \in Task
      BY DEF ListenTask, Task
    <3>3. tasks' \in Seq(Task)
      BY <1>1, <3>1, <3>2, AppendProperties DEF CallsTyped
    <3> QED BY <1>1, <3>1, <3>3 DEF CallsTyped
  <2>2. CASE RunMuted
    BY <2>2, <1>1 DEF RunMuted, calls, CallsTyped
  <2>3. CASE RunSnapshot \/ RunError
    <3>1. Head(events) \in Event /\ Head(events).get \in Get
      <4>1. Head(events) \in Event
        BY <2>3, <1>1, HeadTailProperties DEF RunSnapshot, RunError, ViewTyped
      <4> QED BY <4>1 DEF Event
    <3>2. \A g \in Get : answers[g] + 1 \in Nat
      BY <1>1 DEF CallsTyped
    <3>3. answers' \in [Get -> Nat] /\ asked' = asked
      BY <2>3, <3>1, <3>2, <1>1 DEF RunSnapshot, RunError, Complete, CallsTyped
    <3>4. muted' \subseteq Get
      BY <2>3, <3>1, <1>1 DEF RunSnapshot, RunError, Mute, CallsTyped
    <3>5. tasks' \in Seq(Task)
      <4>1. RemoveTask(Head(events).get) \in Task
        BY <3>1 DEF RemoveTask, Task
      <4>2. \/ tasks' = tasks \/ tasks' = Append(tasks, RemoveTask(Head(events).get))
        BY <2>3 DEF RunSnapshot, RunError, RemoveTask
      <4> QED BY <4>1, <4>2, <1>1, AppendProperties DEF CallsTyped
    <3> QED BY <1>1, <3>3, <3>4, <3>5 DEF CallsTyped
  <2> QED BY <2>1, <2>2, <2>3 DEF Main
<1> QED BY <1>3, <1>5, <1>6, TypeParts


\* What is dropped with a connection.
LEMMA DropTyped ==
  DropConnection =>
    /\ expected' = 0 /\ sent' = <<>> /\ replies' = <<>> /\ ~watched' /\ ~heard' /\ ~idle'
    /\ expected' \in Int /\ sent' \in Seq(Request) /\ replies' \in Seq(Message)
    /\ watched' \in BOOLEAN /\ heard' \in BOOLEAN /\ told' \in 0..NotTold /\ idle' \in BOOLEAN
<1> SUFFICES ASSUME DropConnection
             PROVE  /\ expected' = 0 /\ sent' = <<>> /\ replies' = <<>>
                    /\ ~watched' /\ ~heard' /\ ~idle'
                    /\ expected' \in Int /\ sent' \in Seq(Request) /\ replies' \in Seq(Message)
                    /\ watched' \in BOOLEAN /\ heard' \in BOOLEAN /\ told' \in 0..NotTold
                    /\ idle' \in BOOLEAN
  OBVIOUS
<1>1. \A S : <<>> \in Seq(S)
  OBVIOUS
<1>2. sent' \in Seq(Request) /\ replies' \in Seq(Message) /\ sent' = <<>> /\ replies' = <<>>
  BY <1>1 DEF DropConnection
<1>3. expected' = 0 /\ expected' \in Int
  BY DEF DropConnection
<1>4. told' \in 0..NotTold
  BY Bounds DEF DropConnection
<1>5. /\ ~watched' /\ ~heard' /\ ~idle'
      /\ watched' \in BOOLEAN /\ heard' \in BOOLEAN /\ idle' \in BOOLEAN
  BY DEF DropConnection
<1> QED BY <1>2, <1>3, <1>4, <1>5

\* What is sent, told and counted when a stream comes or goes.
LEMMA RetryFacts ==
  ASSUME TypeOK, Retry
  PROVE  /\ stream' = "Backoff" /\ online' \in {"Unknown", "Offline"}
         /\ timer' \in BOOLEAN /\ failed' \in BOOLEAN
         /\ timer' => online' = "Unknown"
         /\ current' \in BOOLEAN /\ (current' => current) /\ Tells(Listeners)
<1>1. CASE online = "Online" /\ SetAndBroadcast("Unknown") /\ timer' = TRUE /\ UNCHANGED failed
  BY <1>1, BroadcastTells DEF Retry, TypeOK
<1>2. CASE online # "Online" /\ failed' = TRUE /\ timer' = FALSE /\ SetAndBroadcast("Offline")
  BY <1>2, BroadcastTells DEF Retry
<1> QED BY <1>1, <1>2 DEF Retry

\* A stream that opens, fails or waits, and its timers.
StreamMoves ==
    \/ StreamOpens \/ StreamFails \/ BackoffElapses \/ IdleTimeout \/ RestartNetwork
    \/ OnlineTimeout

LEMMA StreamFacts ==
  ASSUME TypeOK, StreamMoves
  PROVE  /\ UNCHANGED <<calls, listeners, cache, database, floor>>
         /\ faults' \in 0..MaxFaults
         /\ current' \in BOOLEAN /\ (current' => current)
         /\ online' \in {"Unknown", "Online", "Offline"}
         /\ timer' \in BOOLEAN /\ failed' \in BOOLEAN /\ Tells(Listeners)
         /\ \/ /\ StreamOpens /\ stream = "Starting" /\ stream' = "Open"
               /\ Send(IF listeners = <<>> THEN <<>> ELSE <<"watch">>)
               /\ UNCHANGED <<online, timer, idle>>
            \/ /\ stream = "Backoff" /\ stream' = "Starting"
               /\ UNCHANGED <<online, timer, idle, connection>>
            \/ /\ DropConnection
               /\ stream' \in {"Initial", "Starting", "Backoff", "Error"}
               /\ online' # "Online"
               /\ timer' => online' = "Unknown" /\ stream' \in {"Starting", "Backoff"}
            \/ /\ OnlineTimeout /\ timer /\ ~timer' /\ online' = "Offline"
               /\ UNCHANGED <<stream, idle, connection>>
<1> USE DEF view, tracker
<1>0. /\ online \in {"Unknown", "Online", "Offline"} /\ faults \in 0..MaxFaults
      /\ timer \in BOOLEAN /\ failed \in BOOLEAN /\ current \in BOOLEAN
  BY DEF TypeOK
<1>f. Fault => faults' \in 0..MaxFaults
  BY FaultTyped
<1>u. UpdateState("Unknown") =>
          /\ online' = "Unknown" /\ ~timer' /\ timer' \in BOOLEAN /\ failed' \in BOOLEAN
          /\ current' \in BOOLEAN /\ (current' => current) /\ Tells(Listeners)
          /\ online' \in {"Unknown", "Online", "Offline"} /\ online' # "Online"
  <2> SUFFICES ASSUME UpdateState("Unknown")
               PROVE  /\ online' = "Unknown" /\ timer' = FALSE /\ failed' = FALSE
                      /\ current' \in BOOLEAN /\ (current' => current) /\ Tells(Listeners)
    OBVIOUS
  <2> QED BY UpdateTells
<1>s. StartFresh =>
          /\ stream' = "Starting"
          /\ online' = "Unknown" /\ timer' \in BOOLEAN /\ failed' \in BOOLEAN
          /\ current' \in BOOLEAN /\ (current' => current) /\ Tells(Listeners)
          /\ online' \in {"Unknown", "Online", "Offline"} /\ online' # "Online"
  <2> SUFFICES ASSUME StartFresh
               PROVE  /\ stream' = "Starting"
                      /\ online' = "Unknown" /\ timer' = TRUE /\ failed' = FALSE
                      /\ current' \in BOOLEAN /\ (current' => current) /\ Tells(Listeners)
    OBVIOUS
  <2> QED BY BroadcastTells DEF StartFresh
<1>1. CASE StreamOpens
  BY <1>0, <1>1 DEF StreamOpens, Tells, RaiseNothing
<1>2. CASE StreamFails
  <2>1. /\ Fault /\ CloseWithError /\ UNCHANGED <<calls, listeners, cache, database, floor>>
    BY <1>2 DEF StreamFails
  <2>2. CASE Retry
    BY <2>1, <2>2, <1>f, RetryFacts DEF CloseWithError
  <2>3. CASE stream' = "Error" /\ UpdateState("Unknown")
    BY <2>1, <2>3, <1>f, <1>u DEF CloseWithError
  <2> QED BY <2>1, <2>2, <2>3 DEF CloseWithError
<1>3. CASE BackoffElapses
  BY <1>0, <1>3 DEF BackoffElapses, Tells, RaiseNothing
<1>4. CASE IdleTimeout
  BY <1>0, <1>4, <1>u DEF IdleTimeout
<1>5. CASE RestartNetwork
  <2>1. /\ Fault /\ DropConnection /\ UNCHANGED <<calls, listeners, cache, database, floor>>
    BY <1>5 DEF RestartNetwork
  <2>2. CASE StartFresh
    BY <2>1, <2>2, <1>f, <1>s
  <2>3. CASE stream' = "Initial" /\ UpdateState("Unknown")
    BY <2>1, <2>3, <1>f, <1>u
  <2> QED BY <2>2, <2>3, <1>5 DEF RestartNetwork
<1>6. CASE OnlineTimeout
  BY <1>0, <1>6, BroadcastTells DEF OnlineTimeout
<1> QED BY <1>1, <1>2, <1>3, <1>4, <1>5, <1>6 DEF StreamMoves

LEMMA TypeStream ==
  ASSUME TypeOK, StreamMoves
  PROVE  TypeOK'
<1>1. CallsTyped /\ ViewTyped /\ StreamTyped /\ DataTyped
  BY TypeParts
<1>2. events' \in Seq(Event) /\ raised' \subseteq Get
  BY StreamFacts, TellsTyped
<1>3. CallsTyped' /\ ViewTyped' /\ DataTyped'
  BY <1>1, <1>2, StreamFacts DEF CallsTyped, ViewTyped, DataTyped, calls, database
<1>4. StreamTyped'
  <2>1. CASE DropConnection /\ stream' \in {"Initial", "Starting", "Backoff", "Error"}
    BY <2>1, DropTyped DEF StreamTyped, StreamState
  <2>2. CASE /\ stream' \in StreamState /\ UNCHANGED <<idle, connection>>
    BY <1>1, <2>2 DEF StreamTyped, connection
  <2>3. CASE StreamOpens
    <3>1. stream' = "Open" /\ UNCHANGED idle
          /\ Send(IF listeners = <<>> THEN <<>> ELSE <<"watch">>)
      BY <2>3 DEF StreamOpens
    <3>2. Send(<<>>) \/ Send(<<"watch">>)
      BY <3>1
    <3>3. /\ sent' \in Seq(Request) /\ expected' \in Int
          /\ UNCHANGED <<replies, watched, told, heard>>
      BY <3>2, SendTyped
    <3> QED BY <1>1, <3>1, <3>3 DEF StreamTyped, StreamState
  <2>4. stream \in StreamState
    BY <1>1 DEF StreamTyped
  <2> QED BY <2>1, <2>2, <2>3, <2>4, StreamFacts DEF StreamState
<1> QED BY <1>3, <1>4, TypeParts


\* A task that adds a listener.
Listen == ListenAndStart \/ ListenOnStream \/ ListenToView

LEMMA ListenFacts ==
  ASSUME TypeOK, Listen
  PROVE  /\ NextTask("listen") /\ listeners' = Append(listeners, Subject)
         /\ Tells({Subject}) /\ UNCHANGED <<current, cache, database, faults, failed>>
         /\ \/ /\ listeners = <<>> /\ stream \in {"Initial", "Error"} /\ floor' = server
               /\ stream' \in {"Starting", "Backoff"} /\ timer' = TRUE /\ online' = "Unknown"
               /\ UNCHANGED <<idle, connection>>
            \/ /\ listeners = <<>> /\ Started /\ floor' = server
               /\ UNCHANGED <<stream, online, timer>>
               /\ \/ stream = "Open" /\ Send(<<"watch">>) /\ ~idle' /\ idle' \in BOOLEAN
                  \/ stream # "Open" /\ UNCHANGED <<connection, idle>>
            \/ /\ listeners # <<>>
               /\ UNCHANGED <<stream, online, timer, idle, connection, floor>>
<1> USE DEF tracker
<1>0. stream \in StreamState /\ current \in BOOLEAN
  BY DEF TypeOK
<1>s. \A g : <<g>> = Append(<<>>, g)
  OBVIOUS
<1>1. CASE ListenAndStart
  <2>1. /\ NextTask("listen") /\ listeners = <<>> /\ ~Started /\ listeners' = <<Subject>>
        /\ floor' = server
        /\ stream' = (IF stream = "Error" THEN "Backoff" ELSE "Starting")
        /\ SetAndBroadcast("Unknown") /\ timer' = TRUE
        /\ UNCHANGED <<failed, idle, connection, cache, database, faults>>
    BY <1>1 DEF ListenAndStart
  <2>2. online' = "Unknown" /\ UNCHANGED current /\ RaiseNothing
    BY <2>1 DEF SetAndBroadcast
  <2>3. stream \in {"Initial", "Error"} /\ stream' \in {"Starting", "Backoff"}
    BY <2>1, <1>0 DEF Started, StreamState
  <2>4. listeners' = Append(listeners, Subject)
    BY <2>1, <1>s
  <2> QED BY <2>1, <2>2, <2>3, <2>4 DEF Tells
<1>2. CASE ListenOnStream
  <2>1. /\ NextTask("listen") /\ listeners = <<>> /\ Started /\ listeners' = <<Subject>>
        /\ floor' = server /\ RaiseNew(Subject, FALSE)
        /\ IF stream = "Open" THEN Send(<<"watch">>) /\ idle' = FALSE
                              ELSE UNCHANGED <<connection, idle>>
        /\ UNCHANGED <<current, online, tracker, stream, cache, database, faults>>
    BY <1>2 DEF ListenOnStream
  <2>2. Tells({Subject})
    <3>1. Subject \in Get /\ FALSE \in BOOLEAN
      BY <2>1, TaskTaken
    <3> QED BY <3>1, <2>1, NewIsTold
  <2>3. listeners' = Append(listeners, Subject)
    BY <2>1, <1>s
  <2> QED BY <2>1, <2>2, <2>3
<1>3. CASE ListenToView
  <2>1. /\ NextTask("listen") /\ listeners # <<>> /\ listeners' = Append(listeners, Subject)
        /\ RaiseNew(Subject, current)
        /\ UNCHANGED <<current, online, tracker, stream, idle, connection, cache, database,
                       floor, faults>>
    BY <1>3 DEF ListenToView
  <2>2. Tells({Subject})
    <3>1. Subject \in Get
      BY <2>1, TaskTaken
    <3> QED BY <3>1, <2>1, <1>0, NewIsTold
  <2> QED BY <2>1, <2>2
<1> QED BY <1>1, <1>2, <1>3 DEF Listen

LEMMA TypeListen ==
  ASSUME TypeOK, Listen
  PROVE  TypeOK'
<1> USE DEF tracker
<1>1. CallsTyped /\ ViewTyped /\ StreamTyped /\ DataTyped
  BY TypeParts
<1>2. events' \in Seq(Event) /\ raised' \subseteq Get
  BY ListenFacts, TellsTyped
<1>3. NextTask("listen")
  BY ListenFacts
<1>4. CallsTyped'
  BY <1>1, <1>3, TaskTaken DEF CallsTyped
<1>5. listeners' \in Seq(Get)
  <2>1. Subject \in Get /\ listeners \in Seq(Get)
    BY <1>1, <1>3, TaskTaken DEF ViewTyped
  <2> QED BY <2>1, ListenFacts, AppendProperties
<1>6. ViewTyped'
  BY <1>1, <1>2, <1>5, ListenFacts DEF ViewTyped
<1>7. DataTyped'
  BY <1>1, ListenFacts DEF DataTyped, database
<1>8. StreamTyped'
  <2>1. CASE stream' \in {"Starting", "Backoff"} /\ UNCHANGED <<idle, connection>>
    BY <1>1, <2>1 DEF StreamTyped, StreamState, connection
  <2>2. CASE UNCHANGED stream /\ Send(<<"watch">>) /\ idle' \in BOOLEAN
    <3>1. /\ sent' \in Seq(Request) /\ expected' \in Int
          /\ UNCHANGED <<replies, watched, told, heard>>
      BY <2>2, SendTyped
    <3> QED BY <1>1, <2>2, <3>1 DEF StreamTyped
  <2>3. CASE UNCHANGED <<stream, idle, connection>>
    BY <1>1, <2>3 DEF StreamTyped, connection
  <2> QED BY <2>1, <2>2, <2>3, ListenFacts
<1> QED BY <1>4, <1>6, <1>7, <1>8, TypeParts

\* What a list is without one of its places.
LEMMA RemovedAt ==
  ASSUME NEW S, NEW s \in Seq(S), NEW i \in 1..Len(s)
  PROVE  /\ RemoveAt(s, i) \in Seq(S) /\ Len(RemoveAt(s, i)) = Len(s) - 1
         /\ \A j \in 1..(Len(s) - 1) :
                RemoveAt(s, i)[j] = IF j < i THEN s[j] ELSE s[j + 1]
<1> DEFINE a == SubSeq(s, 1, i - 1)
           b == SubSeq(s, i + 1, Len(s))
<1>1. Len(s) \in Nat /\ i \in Nat /\ 1 <= i /\ i <= Len(s)
  BY LenProperties
<1>2. /\ a \in Seq(S) /\ Len(a) = i - 1
      /\ \A j \in 1..(i - 1) : a[j] = s[j]
  <2>1. 1 \in 1..(Len(s) + 1) /\ i - 1 \in 0..Len(s)
    BY <1>1
  <2>2. \A j \in 1..(i - 1) : j \in 1..Len(s)
    BY <1>1
  <2>3. a \in Seq(S)
    BY <2>1, <2>2, <1>1, SubSeqProperties
  <2>4. Len(a) = i - 1 /\ \A j \in 1..(i - 1) : a[j] = s[1 + j - 1]
    BY <2>1, <1>1, SubSeqProperties
  <2> QED BY <2>3, <2>4
<1>3. /\ b \in Seq(S) /\ Len(b) = Len(s) - i
      /\ \A j \in 1..(Len(s) - i) : b[j] = s[i + j]
  <2>1. i + 1 \in 1..(Len(s) + 1) /\ Len(s) \in 0..Len(s)
    BY <1>1
  <2>2. b \in Seq(S)
    BY <2>1, <1>1, SubSeqProperties
  <2>3. Len(b) = Len(s) - i /\ \A j \in 1..(Len(s) - i) : b[j] = s[i + 1 + j - 1]
    BY <2>1, <1>1, SubSeqProperties
  <2>4. \A j \in 1..(Len(s) - i) : i + 1 + j - 1 = i + j
    BY <1>1
  <2> QED BY <2>2, <2>3, <2>4
<1> HIDE DEF a, b
<1>4. /\ a \o b \in Seq(S) /\ Len(a \o b) = Len(a) + Len(b)
      /\ \A j \in 1..(Len(a) + Len(b)) :
             (a \o b)[j] = IF j <= Len(a) THEN a[j] ELSE b[j - Len(a)]
  BY <1>2, <1>3, ConcatProperties
<1>5. RemoveAt(s, i) = a \o b
  BY DEF RemoveAt, a, b
<1>6. Len(a) + Len(b) = Len(s) - 1 /\ Len(a) = i - 1 /\ Len(b) = Len(s) - i
  BY <1>1, <1>2, <1>3
<1>7. ASSUME NEW j \in 1..(Len(s) - 1)
      PROVE  (a \o b)[j] = IF j < i THEN s[j] ELSE s[j + 1]
  <2>1. (a \o b)[j] = IF j <= Len(a) THEN a[j] ELSE b[j - Len(a)]
    BY <1>4, <1>6
  <2>2. CASE j < i
    <3>1. j <= Len(a) /\ j \in 1..(i - 1)
      BY <2>2, <1>1, <1>6
    <3> QED BY <2>1, <2>2, <3>1, <1>2
  <2>3. CASE ~(j < i)
    <3>1. ~(j <= Len(a)) /\ j - Len(a) \in 1..(Len(s) - i) /\ i + (j - Len(a)) = j + 1
      BY <2>3, <1>1, <1>6
    <3>2. (a \o b)[j] = b[j - Len(a)]
      BY <2>1, <3>1
    <3>3. b[j - Len(a)] = s[i + (j - Len(a))]
      BY <3>1, <1>3
    <3> QED BY <2>3, <3>1, <3>2, <3>3
  <2> QED BY <2>2, <2>3
<1> QED BY <1>4, <1>5, <1>6, <1>7


\* One of several listeners goes, or one that has gone already.
LEMMA RemoveFacts ==
  ASSUME TypeOK, RemoveListener
  PROVE  /\ NextTask("remove") /\ listeners' \in Seq(Get)
         /\ listeners' = <<>> <=> listeners = <<>>
         /\ Listeners' \subseteq Listeners /\ Listeners \ {Subject} \subseteq Listeners'
         /\ IsInjective(listeners) => IsInjective(listeners') /\ Subject \notin Listeners'
         /\ UNCHANGED <<view, tracker, stream, idle, connection, cache, database, floor, faults>>
<1>1. /\ NextTask("remove") /\ listeners # <<Subject>>
      /\ UNCHANGED <<view, tracker, stream, idle, connection, cache, database, floor, faults>>
  BY DEF RemoveListener
<1>2. /\ listeners \in Seq(Get) /\ Len(listeners) \in Nat /\ DOMAIN listeners = 1..Len(listeners)
  BY ListenersTyped
<1>3. ASSUME NEW i \in DOMAIN listeners, listeners[i] = Subject,
             listeners' = RemoveAt(listeners, i)
      PROVE  /\ listeners' \in Seq(Get)
             /\ listeners' = <<>> <=> listeners = <<>>
             /\ Listeners' \subseteq Listeners /\ Listeners \ {Subject} \subseteq Listeners'
             /\ IsInjective(listeners) => IsInjective(listeners') /\ Subject \notin Listeners'
  <2> DEFINE n == Len(listeners)
  <2>1. i \in 1..n /\ n \in Nat \ {0} /\ i \in Nat
    BY <1>2
  <2>2. /\ listeners' \in Seq(Get) /\ Len(listeners') = n - 1
        /\ \A j \in 1..(n - 1) :
               listeners'[j] = IF j < i THEN listeners[j] ELSE listeners[j + 1]
    BY <1>2, <1>3, <2>1, RemovedAt
  <2>3. DOMAIN listeners' = 1..(n - 1)
    BY <2>2, LenProperties
  <2>4. n # 1
    <3>1. SUFFICES ASSUME n = 1 PROVE FALSE
      OBVIOUS
    <3>2. listeners[1] = Subject
      BY <3>1, <2>1, <1>3
    <3>3. <<Subject>> \in Seq(Get) /\ Len(<<Subject>>) = 1 /\ <<Subject>>[1] = Subject
      BY <1>1, TaskTaken
    <3>4. \A j \in 1..Len(listeners) : listeners[j] = <<Subject>>[j]
      BY <3>1, <3>2, <3>3
    <3>5. listeners = <<Subject>>
      BY <3>1, <3>3, <3>4, <1>2, SeqEqual
    <3> QED BY <3>5, <1>1
  <2>5. Len(listeners') # 0
    BY <2>1, <2>2, <2>4
  <2>6. listeners' # <<>> /\ listeners # <<>>
    BY <2>1, <2>2, <2>5, <1>2, EmptySeq
  <2>7. ASSUME NEW j \in 1..(n - 1)
        PROVE  \E k \in 1..n : k # i /\ listeners'[j] = listeners[k]
                               /\ k = (IF j < i THEN j ELSE j + 1)
    <3>1. (IF j < i THEN j ELSE j + 1) \in 1..n /\ (IF j < i THEN j ELSE j + 1) # i
      BY <2>1
    <3> QED BY <3>1, <2>2
  <2>8. ASSUME NEW k \in 1..n, k # i
        PROVE  \E j \in 1..(n - 1) : listeners'[j] = listeners[k]
    <3>1. CASE k < i
      <4>1. k \in 1..(n - 1)
        BY <3>1, <2>1
      <4> QED BY <3>1, <4>1, <2>2
    <3>2. CASE ~(k < i)
      <4>1. k - 1 \in 1..(n - 1) /\ ~(k - 1 < i) /\ k - 1 + 1 = k
        BY <3>2, <2>1, <2>8
      <4> QED BY <4>1, <2>2
    <3> QED BY <3>1, <3>2
  <2> HIDE DEF n
  <2>9. Listeners' \subseteq Listeners
    BY <2>3, <2>7, <1>2 DEF Listeners, ToSet, n
  <2>10. Listeners \ {Subject} \subseteq Listeners'
    <3>1. SUFFICES ASSUME NEW g \in Listeners, g # Subject PROVE g \in Listeners'
      OBVIOUS
    <3>2. PICK k \in 1..n : g = listeners[k]
      BY <1>2 DEF Listeners, ToSet, n
    <3>3. k # i
      BY <3>1, <3>2, <1>3
    <3>4. PICK j \in 1..(n - 1) : listeners'[j] = listeners[k]
      BY <3>3, <2>8
    <3> QED BY <3>2, <3>4, <2>3 DEF Listeners, ToSet
  <2>11. ASSUME IsInjective(listeners) PROVE IsInjective(listeners') /\ Subject \notin Listeners'
    <3>1. \A k, m \in 1..n : listeners[k] = listeners[m] => k = m
      BY <2>11, <1>2 DEF IsInjective, n
    <3>2. \A j, m \in 1..(n - 1) : listeners'[j] = listeners'[m] => j = m
      <4>1. SUFFICES ASSUME NEW j \in 1..(n - 1), NEW m \in 1..(n - 1),
                            listeners'[j] = listeners'[m]
                     PROVE  j = m
        OBVIOUS
      <4>2. PICK k \in 1..n : listeners'[j] = listeners[k] /\ k = (IF j < i THEN j ELSE j + 1)
        BY <2>7
      <4>3. PICK l \in 1..n : listeners'[m] = listeners[l] /\ l = (IF m < i THEN m ELSE m + 1)
        BY <2>7
      <4>4. k = l
        BY <4>1, <4>2, <4>3, <3>1
      <4> QED BY <4>2, <4>3, <4>4, <2>1
    <3>3. \A j \in 1..(n - 1) : listeners'[j] # Subject
      <4>1. SUFFICES ASSUME NEW j \in 1..(n - 1), listeners'[j] = Subject PROVE FALSE
        OBVIOUS
      <4>2. PICK k \in 1..n : k # i /\ listeners'[j] = listeners[k]
        BY <2>7
      <4> QED BY <4>1, <4>2, <3>1, <1>3, <2>1
    <3> QED BY <3>2, <3>3, <2>3 DEF IsInjective, Listeners, ToSet
  <2> QED BY <2>2, <2>6, <2>9, <2>10, <2>11
<1>4. ASSUME ~Contains(listeners, Subject), UNCHANGED listeners
      PROVE  /\ listeners' \in Seq(Get)
             /\ listeners' = <<>> <=> listeners = <<>>
             /\ Listeners' \subseteq Listeners /\ Listeners \ {Subject} \subseteq Listeners'
             /\ IsInjective(listeners) => IsInjective(listeners') /\ Subject \notin Listeners'
  <2>1. Subject \notin Listeners
    BY <1>2, <1>4 DEF Contains, Listeners, ToSet
  <2>2. Listeners' = Listeners /\ listeners' = listeners
    BY <1>4 DEF Listeners
  <2> QED BY <2>1, <2>2, <1>2
<1> QED BY <1>1, <1>3, <1>4 DEF RemoveListener

\* The last listener goes.
LEMMA RemoveLastFacts ==
  ASSUME TypeOK, RemoveLastListener
  PROVE  /\ NextTask("remove") /\ listeners = <<Subject>> /\ listeners' = <<>> /\ ~current'
         /\ RaiseNothing /\ UNCHANGED <<stream, cache, database, floor, faults>>
         /\ \/ /\ stream = "Open" /\ Send(<<"unwatch">>) /\ idle' = TRUE
               /\ UNCHANGED <<online, tracker>>
            \/ /\ stream # "Open" /\ online' = "Unknown" /\ ~timer' /\ ~failed'
               /\ timer' \in BOOLEAN /\ failed' \in BOOLEAN
               /\ UNCHANGED <<connection, idle>>
         /\ current' \in BOOLEAN /\ listeners # <<>>
<1>1. \A g : <<g>> # <<>>
  OBVIOUS
<1> QED BY <1>1 DEF RemoveLastListener

LEMMA TypeRemove ==
  ASSUME TypeOK, RemoveListener \/ RemoveLastListener
  PROVE  TypeOK'
<1> USE DEF tracker
<1>1. CallsTyped /\ ViewTyped /\ StreamTyped /\ DataTyped
  BY TypeParts
<1>2. NextTask("remove")
  BY RemoveFacts, RemoveLastFacts
<1>3. CallsTyped'
  BY <1>1, <1>2, TaskTaken DEF CallsTyped
<1>4. CASE RemoveListener
  BY <1>1, <1>3, <1>4, RemoveFacts, TypeParts
     DEF view, connection, database, ViewTyped, StreamTyped, DataTyped
<1>5. CASE RemoveLastListener
  <2>1. listeners' \in Seq(Get)
    BY <1>5, RemoveLastFacts
  <2>2. ViewTyped'
    BY <1>1, <1>5, <2>1, RemoveLastFacts DEF ViewTyped, RaiseNothing
  <2>3. DataTyped'
    BY <1>1, <1>5, RemoveLastFacts DEF DataTyped, database
  <2>4. StreamTyped'
    <3>1. CASE Send(<<"unwatch">>) /\ idle' = TRUE
      <4>1. /\ sent' \in Seq(Request) /\ expected' \in Int
            /\ UNCHANGED <<replies, watched, told, heard>>
        BY <3>1, SendTyped
      <4> QED BY <1>1, <1>5, <3>1, <4>1, RemoveLastFacts DEF StreamTyped
    <3>2. CASE UNCHANGED <<connection, idle>>
      BY <1>1, <1>5, <3>2, RemoveLastFacts DEF StreamTyped, connection
    <3> QED BY <3>1, <3>2, <1>5, RemoveLastFacts
  <2> QED BY <1>3, <2>2, <2>3, <2>4, TypeParts
<1> QED BY <1>4, <1>5

\* A message is read from the stream.
ReadsMessage == ReadResponse \/ ReadSnapshot \/ ReadDenial

LEMMA ReadFacts ==
  ASSUME TypeOK, ReadsMessage
  PROVE  /\ replies # <<>> /\ replies' = Tail(replies) /\ heard' /\ heard' \in BOOLEAN
         /\ replies' \in Seq(Message) /\ Head(replies) \in Message
         /\ online' = "Online" /\ timer' = FALSE /\ failed' = FALSE
         /\ current' \in BOOLEAN /\ cache' \in 0..MaxVersion
         /\ UNCHANGED <<calls, stream, idle, sent, watched, told, server, refuses, floor, faults>>
         /\ \/ /\ ReadResponse /\ IsResponse(Head(replies)) /\ expected' = expected - 1
               /\ UNCHANGED <<listeners, cache>> /\ (current' => current) /\ Tells(Listeners)
            \/ /\ ReadSnapshot /\ Head(replies).kind = "document"
               /\ UNCHANGED <<listeners, expected>> /\ Tells(Listeners)
               /\ \/ UNCHANGED <<cache, current>>
                  \/ /\ listeners # <<>> /\ expected = 0 /\ cache' = Head(replies).doc
            \/ /\ ReadDenial /\ Head(replies).kind = "denied" /\ UNCHANGED cache
               /\ \/ listeners = <<>> /\ UNCHANGED <<listeners, current, expected>> /\ RaiseNothing
                  \/ /\ listeners # <<>> /\ listeners' = <<>> /\ ~current' /\ expected' = 0
                     /\ Raise(listeners, "error", 0)
<1>1. /\ replies # <<>> /\ replies' = Tail(replies) /\ heard' = TRUE
  BY DEF ReadsMessage, ReadResponse, ReadSnapshot, ReadDenial, Reads
<1>2. replies' \in Seq(Message) /\ Head(replies) \in Message
  <2>1. replies \in Seq(Message)
    BY DEF TypeOK
  <2> QED BY <1>1, <2>1, HeadTailProperties
<1>3. /\ Head(replies).doc \in 0..MaxVersion /\ cache \in 0..MaxVersion /\ current \in BOOLEAN
      /\ listeners \in Seq(Get) /\ Listeners = ToSet(listeners)
  BY <1>2 DEF Message, TypeOK, Listeners
<1>4. CASE ReadResponse
  <2>1. /\ Head(replies).kind \in {"added", "removed"} /\ expected' = expected - 1
        /\ UpdateState("Online")
        /\ UNCHANGED <<calls, listeners, stream, idle, sent, watched, told, cache, database,
                       floor, faults>>
    BY <1>4 DEF ReadResponse, Reads
  <2>2. /\ online' = "Online" /\ current' \in BOOLEAN /\ (current' => current)
        /\ timer' = FALSE /\ failed' = FALSE /\ Tells(Listeners)
    BY <2>1, UpdateTells
  <2> QED BY <1>1, <1>2, <1>3, <1>4, <2>1, <2>2 DEF IsResponse, database
<1>5. CASE ReadSnapshot
  <2>1. /\ Head(replies).kind = "document"
        /\ online' = "Online" /\ timer' = FALSE /\ failed' = FALSE
        /\ UNCHANGED <<calls, listeners, stream, idle, expected, sent, watched, told, database,
                       floor, faults>>
    BY <1>5 DEF ReadSnapshot, Reads
  <2>2. CASE IsActiveTarget
    <3>1. /\ cache' = Head(replies).doc /\ current' = TRUE
          /\ Raise(listeners, "synced", cache') \/ RaiseNothing
      BY <1>5, <2>2 DEF ReadSnapshot
    <3>2. Tells(Listeners)
      BY <3>1, <1>3 DEF Tells
    <3> QED BY <1>1, <1>2, <1>3, <1>5, <2>1, <2>2, <3>1, <3>2 DEF IsActiveTarget, database
  <2>3. CASE ~IsActiveTarget
    <3>1. UNCHANGED <<cache, current>> /\ RaiseNothing
      BY <1>5, <2>3 DEF ReadSnapshot
    <3> QED BY <1>1, <1>2, <1>3, <1>5, <2>1, <3>1 DEF Tells, database
  <2> QED BY <2>2, <2>3
<1>6. CASE ReadDenial
  <2>1. /\ Head(replies).kind = "denied"
        /\ online' = "Online" /\ timer' = FALSE /\ failed' = FALSE
        /\ UNCHANGED <<calls, stream, idle, sent, watched, told, cache, database, floor, faults>>
    BY <1>6 DEF ReadDenial, Reads
  <2>2. \/ listeners = <<>> /\ UNCHANGED <<listeners, current, expected>> /\ RaiseNothing
        \/ /\ listeners # <<>> /\ listeners' = <<>> /\ current' = FALSE /\ expected' = 0
           /\ Raise(listeners, "error", 0)
    BY <1>6 DEF ReadDenial
  <2> QED BY <1>1, <1>2, <1>3, <1>6, <2>1, <2>2 DEF database
<1> QED BY <1>4, <1>5, <1>6 DEF ReadsMessage

LEMMA TypeReads ==
  ASSUME TypeOK, ReadsMessage
  PROVE  TypeOK'
<1>1. CallsTyped /\ ViewTyped /\ StreamTyped /\ DataTyped
  BY TypeParts
<1>2. events' \in Seq(Event) /\ raised' \subseteq Get
  <2>1. CASE Tells(Listeners)
    BY <2>1, TellsTyped
  <2>2. CASE RaiseNothing
    BY <2>2, <1>1 DEF RaiseNothing, ViewTyped
  <2>3. CASE Raise(listeners, "error", 0)
    <3>1. listeners \in Seq(Get) /\ 0 \in 0..MaxVersion
      BY ListenersTyped, Bounds
    <3> QED BY <2>3, <3>1, RaiseAdds
  <2> QED BY <2>1, <2>2, <2>3, ReadFacts
<1>3. CallsTyped' /\ DataTyped'
  BY <1>1, ReadFacts DEF CallsTyped, DataTyped, calls
<1>4. listeners' \in Seq(Get) /\ expected' \in Int
  <2>1. <<>> \in Seq(Get) /\ listeners \in Seq(Get)
    BY ListenersTyped
  <2>2. expected \in Int /\ expected - 1 \in Int /\ 0 \in Int
    BY <1>1 DEF StreamTyped
  <2>3. listeners' = listeners \/ listeners' = <<>>
    BY ReadFacts
  <2>4. expected' = expected \/ expected' = expected - 1 \/ expected' = 0
    BY ReadFacts
  <2>5. expected' \in Int
    BY <2>2, <2>4
  <2> QED BY <2>1, <2>3, <2>5
<1>5. ViewTyped'
  BY <1>1, <1>2, <1>4, ReadFacts DEF ViewTyped
<1>6. StreamTyped'
  BY <1>1, <1>4, ReadFacts DEF StreamTyped
<1> QED BY <1>3, <1>5, <1>6, TypeParts


\* What the server reads and answers, and what it commits.
ServerFacts(request) ==
    /\ sent # <<>> /\ sent[1] = request /\ sent' = Tail(sent) /\ sent' \in Seq(Request)

LEMMA ServerStep ==
  ASSUME TypeOK, Server \/ Commit
  PROVE  /\ UNCHANGED <<calls, listeners, view, tracker, stream, idle, expected, heard, cache,
                        refuses, floor, faults>>
         /\ \/ /\ ~refuses /\ ServerFacts("watch") /\ watched' = TRUE /\ told' = NotTold
               /\ replies' = Append(replies, [kind |-> "added", doc |-> 0])
               /\ server' = server
            \/ /\ refuses /\ ServerFacts("watch") /\ UNCHANGED <<watched, told>>
               /\ replies' = Append(replies, [kind |-> "denied", doc |-> 0])
               /\ server' = server
            \/ /\ ServerFacts("unwatch") /\ watched' = FALSE /\ told' = NotTold
               /\ \/ replies' = Append(replies, [kind |-> "removed", doc |-> 0])
                  \/ ~watched /\ UNCHANGED replies
               /\ server' = server
            \/ /\ watched /\ told' = server /\ UNCHANGED <<sent, watched>>
               /\ replies' = Append(replies, [kind |-> "document", doc |-> server])
               /\ server' = server
            \/ /\ UNCHANGED connection /\ server' = server + 1 /\ server' \in 0..MaxVersion
<1>0. sent \in Seq(Request) /\ server \in 0..MaxVersion
  BY DEF TypeOK, Request
<1>r. ASSUME NEW request, ServerReads(request)
      PROVE  /\ ServerFacts(request)
             /\ UNCHANGED <<calls, listeners, view, tracker, stream, idle, expected, heard,
                            cache, server, refuses, floor, faults>>
  <2>1. /\ sent # <<>> /\ Head(sent) = request /\ sent' = Tail(sent)
        /\ UNCHANGED <<calls, listeners, view, tracker, stream, idle, expected, heard,
                       cache, server, refuses, floor, faults>>
    BY <1>r DEF ServerReads, database
  <2>2. Head(sent) = sent[1] /\ Tail(sent) \in Seq(Request)
    BY <2>1, <1>0, HeadTailProperties
  <2> QED BY <2>1, <2>2 DEF ServerFacts
<1>1. CASE ServerAddsTarget
  BY <1>1, <1>r DEF ServerAddsTarget, Answer
<1>2. CASE ServerDeniesTarget
  BY <1>2, <1>r DEF ServerDeniesTarget, Answer
<1>3. CASE ServerRemovesTarget
  BY <1>3, <1>r DEF ServerRemovesTarget, Answer
<1>4. CASE ServerSends
  BY <1>4 DEF ServerSends, Answer, database
<1>5. CASE Commit
  <2>1. server' \in 0..MaxVersion
    BY <1>0, <1>5, VersionAssumption DEF Commit
  <2> QED BY <1>5, <2>1 DEF Commit, connection
<1> QED BY <1>1, <1>2, <1>3, <1>4, <1>5 DEF Server

LEMMA AnswerTyped ==
  ASSUME TypeOK,
         NEW kind \in {"added", "removed", "denied", "document"}, NEW doc \in 0..MaxVersion
  PROVE  /\ [kind |-> kind, doc |-> doc] \in Message
         /\ Append(replies, [kind |-> kind, doc |-> doc]) \in Seq(Message)
         /\ Len(Append(replies, [kind |-> kind, doc |-> doc])) = Len(replies) + 1
         /\ Append(replies, [kind |-> kind, doc |-> doc])[Len(replies) + 1] =
                [kind |-> kind, doc |-> doc]
         /\ \A i \in 1..Len(replies) :
                Append(replies, [kind |-> kind, doc |-> doc])[i] = replies[i]
<1> DEFINE m == [kind |-> kind, doc |-> doc]
<1>1. m \in Message /\ replies \in Seq(Message)
  BY DEF Message, TypeOK
<1> HIDE DEF m
<1>2. /\ Append(replies, m) \in Seq(Message) /\ Len(Append(replies, m)) = Len(replies) + 1
      /\ Append(replies, m)[Len(replies) + 1] = m
      /\ \A i \in 1..Len(replies) : Append(replies, m)[i] = replies[i]
  BY <1>1, AppendProperties
<1> QED BY <1>1, <1>2 DEF m

LEMMA TypeServer ==
  ASSUME TypeOK, Server \/ Commit
  PROVE  TypeOK'
<1>1. CallsTyped /\ ViewTyped /\ StreamTyped /\ DataTyped
  BY TypeParts
<1>2. CallsTyped' /\ ViewTyped'
  BY <1>1, ServerStep DEF CallsTyped, ViewTyped, calls, view, tracker
<1>3. server' \in 0..MaxVersion
  BY <1>1, ServerStep DEF DataTyped
<1>4. DataTyped'
  BY <1>1, <1>3, ServerStep DEF DataTyped
<1>5. sent' \in Seq(Request) /\ watched' \in BOOLEAN
  BY <1>1, ServerStep DEF StreamTyped, ServerFacts, connection
<1>6. told' \in 0..NotTold
  BY <1>1, ServerStep, Bounds DEF StreamTyped, DataTyped, connection
<1>7. replies' \in Seq(Message)
  <2>1. /\ Append(replies, [kind |-> "added", doc |-> 0]) \in Seq(Message)
        /\ Append(replies, [kind |-> "removed", doc |-> 0]) \in Seq(Message)
        /\ Append(replies, [kind |-> "denied", doc |-> 0]) \in Seq(Message)
        /\ Append(replies, [kind |-> "document", doc |-> server]) \in Seq(Message)
    <3>1. server \in 0..MaxVersion /\ 0 \in 0..MaxVersion
      BY <1>1, Bounds DEF DataTyped
    <3> QED BY <3>1, AnswerTyped
  <2>2. replies \in Seq(Message)
    BY <1>1 DEF StreamTyped
  <2> QED BY <2>1, <2>2, ServerStep DEF connection
<1>8. StreamTyped'
  BY <1>1, <1>5, <1>6, <1>7, ServerStep DEF StreamTyped
<1> QED BY <1>2, <1>4, <1>8, TypeParts

LEMMA TypeStep == TypeOK /\ [Next]_vars => TypeOK'
<1> SUFFICES ASSUME TypeOK, [Next]_vars PROVE TypeOK'
  OBVIOUS
<1>1. CASE UNCHANGED vars
  BY <1>1, TypeParts
     DEF vars, calls, view, tracker, connection, database,
         CallsTyped, ViewTyped, StreamTyped, DataTyped
<1>2. CASE Next
  <2>1. \/ GetDocument \/ Main \/ Listen \/ RemoveListener \/ RemoveLastListener
        \/ StreamMoves \/ ReadsMessage \/ Server \/ Commit
    BY <1>2 DEF Next, Worker, Connection, Listen, StreamMoves, ReadsMessage
  <2> QED BY <2>1, TypeMain, TypeListen, TypeRemove, TypeStream, TypeReads, TypeServer
<1> QED BY <1>1, <1>2

-----------------------------------------------------------------------------
(* Requests take turns.                                                     *)

Alternate(ss) == \A i \in 1..Len(ss) : i < Len(ss) => ss[i] # ss[i + 1]

\* A request goes behind another one.
LEMMA AlternateSend ==
  ASSUME NEW ss \in Seq(Request), Alternate(ss), NEW request \in Request,
         ss # <<>> => ss[Len(ss)] # request
  PROVE  /\ Alternate(ss \o <<request>>) /\ ss \o <<request>> # <<>>
         /\ (ss \o <<request>>)[Len(ss \o <<request>>)] = request
         /\ (ss \o <<request>>)[1] = IF ss = <<>> THEN request ELSE ss[1]
<1> DEFINE n == Len(ss)
           tt == ss \o <<request>>
<1>1. n \in Nat /\ (ss = <<>> <=> n = 0)
  BY LenProperties, EmptySeq
<1>2. <<request>> \in Seq(Request) /\ Len(<<request>>) = 1 /\ <<request>>[1] = request
  OBVIOUS
<1>3. /\ tt \in Seq(Request) /\ Len(tt) = n + Len(<<request>>)
      /\ \A i \in 1..(n + Len(<<request>>)) :
             tt[i] = IF i <= n THEN ss[i] ELSE <<request>>[i - n]
  BY <1>2, ConcatProperties
<1> HIDE DEF tt
<1>4. /\ Len(tt) = n + 1 /\ tt[n + 1] = request
      /\ \A i \in 1..n : tt[i] = ss[i]
  <2>1. n + 1 \in 1..(n + 1) /\ ~(n + 1 <= n) /\ n + 1 - n = 1
        /\ \A i \in 1..n : i \in 1..(n + 1) /\ i <= n
    BY <1>1
  <2> QED BY <1>2, <1>3, <2>1
<1>5. tt # <<>>
  BY <1>1, <1>3, <1>4, EmptySeq
<1>6. ASSUME NEW i \in 1..(n + 1), i < n + 1 PROVE tt[i] # tt[i + 1]
  <2>1. i \in 1..n /\ tt[i] = ss[i]
    BY <1>1, <1>4, <1>6
  <2>2. CASE i < n
    <3>1. i + 1 \in 1..n
      BY <2>1, <2>2, <1>1
    <3> QED BY <2>1, <2>2, <3>1, <1>4 DEF Alternate
  <2>3. CASE ~(i < n)
    <3>1. i = n /\ n # 0
      BY <2>1, <2>3, <1>1
    <3> QED BY <2>1, <3>1, <1>1, <1>4
  <2> QED BY <2>2, <2>3
<1>7. Alternate(tt)
  BY <1>4, <1>6 DEF Alternate
<1>8. tt[1] = IF ss = <<>> THEN request ELSE ss[1]
  <2>1. CASE n = 0
    BY <2>1, <1>1, <1>4
  <2>2. CASE n # 0
    <3>1. 1 \in 1..n
      BY <2>2, <1>1
    <3> QED BY <2>2, <3>1, <1>1, <1>4
  <2> QED BY <2>1, <2>2
<1> QED BY <1>4, <1>5, <1>7, <1>8 DEF tt

\* The first request is read.
LEMMA AlternateRead ==
  ASSUME NEW ss \in Seq(Request), Alternate(ss), ss # <<>>
  PROVE  /\ Alternate(Tail(ss)) /\ Len(ss) = Len(Tail(ss)) + 1
         /\ Tail(ss) = <<>> => ss[Len(ss)] = ss[1]
         /\ Tail(ss) # <<>> => /\ Tail(ss)[1] # ss[1]
                               /\ Tail(ss)[Len(Tail(ss))] = ss[Len(ss)]
<1> DEFINE n == Len(Tail(ss))
<1>1. /\ n \in Nat /\ Len(ss) = n + 1 /\ \A i \in 1..n : Tail(ss)[i] = ss[i + 1]
      /\ Tail(ss) \in Seq(Request)
  <2>1. Len(ss) \in Nat \ {0} /\ Len(Tail(ss)) = Len(ss) - 1 /\ Tail(ss) \in Seq(Request)
        /\ \A i \in 1..Len(Tail(ss)) : Tail(ss)[i] = ss[i + 1]
    BY HeadTailProperties, LenProperties, EmptySeq
  <2> QED BY <2>1
<1>2. Tail(ss) = <<>> <=> n = 0
  BY <1>1, EmptySeq
<1> HIDE DEF n
<1>3. \A i \in 1..n : i < n => Tail(ss)[i] # Tail(ss)[i + 1]
  <2>1. SUFFICES ASSUME NEW i \in 1..n, i < n PROVE Tail(ss)[i] # Tail(ss)[i + 1]
    OBVIOUS
  <2>2. i + 1 \in 1..n /\ i + 1 \in 1..(n + 1) /\ i + 1 < n + 1
    BY <2>1, <1>1
  <2> QED BY <2>2, <1>1 DEF Alternate
<1>4. CASE n = 0
  BY <1>1, <1>2, <1>3, <1>4 DEF Alternate, n
<1>5. CASE n # 0
  <2>1. 1 \in 1..n /\ n \in 1..n /\ 1 \in 1..(n + 1) /\ 1 < n + 1
    BY <1>1, <1>5
  <2>2. Tail(ss)[1] = ss[2] /\ Tail(ss)[n] = ss[n + 1] /\ ss[1] # ss[2]
    BY <2>1, <1>1 DEF Alternate
  <2> QED BY <2>2, <1>1, <1>2, <1>3, <1>5 DEF Alternate, n
<1> QED BY <1>4, <1>5


-----------------------------------------------------------------------------
(* The connection, step by step.                                            *)

\* The state that Connected is about.
wire == <<listeners, current, online, timer, stream, idle, connection, cache, database, floor>>

LEMMA ConnectedInit == Init => Connected
<1> SUFFICES ASSUME Init PROVE Connected
  OBVIOUS
<1>1. TypeOK
  BY TypeInit
<1>2. /\ listeners = <<>> /\ current = FALSE /\ online = "Unknown" /\ timer = FALSE
      /\ stream = "Initial" /\ idle = FALSE /\ expected = 0 /\ sent = <<>> /\ replies = <<>>
      /\ watched = FALSE /\ heard = FALSE /\ floor = 0 /\ server \in 0..MaxVersion
  BY <1>1 DEF Init, TypeOK
<1>3. Len(<<>>) = 0 /\ 1..0 = {}
  OBVIOUS
<1>4. Closed /\ RefusesOrSends /\ TakesTurns /\ OnlineIsHeard /\ TimerOnlyWhileTrying
      /\ IdleOnlyWhenDone /\ SyncedIsFresh
  BY <1>2, <1>3 DEF Closed, RefusesOrSends, TakesTurns, OnlineIsHeard, TimerOnlyWhileTrying,
                    IdleOnlyWhenDone, SyncedIsFresh
<1>5. CountsWhatComes
  <2>1. PICK still \in [1..(Len(<<>>) + 1) -> Nat] : Awaited(still, <<>>, <<>>) /\ still[1] = 0
    BY NothingAwaited
  <2>2. Recent(still, <<>>, floor)
    BY <1>3 DEF Recent
  <2> QED BY <2>1, <2>2, <1>2 DEF CountsWhatComes
<1>6. floor <= server
  BY <1>2
<1> QED BY <1>1, <1>4, <1>5, <1>6 DEF Connected

LEMMA ConnectedSame ==
  ASSUME Connected, TypeOK', UNCHANGED wire
  PROVE  Connected'
<1>1. UNCHANGED <<listeners, current, online, timer, stream, idle, cache, server, refuses, floor,
                  expected, sent, replies, watched, heard>>
  BY DEF wire, connection, database
<1>2. Closed' /\ RefusesOrSends' /\ TakesTurns'
  BY <1>1 DEF Connected, Closed, RefusesOrSends, TakesTurns
<1>3. OnlineIsHeard' /\ TimerOnlyWhileTrying' /\ IdleOnlyWhenDone' /\ SyncedIsFresh'
  BY <1>1 DEF Connected, OnlineIsHeard, TimerOnlyWhileTrying, IdleOnlyWhenDone, SyncedIsFresh,
              Started
<1>4. CountsWhatComes'
  BY <1>1 DEF Connected, CountsWhatComes
<1>5. floor' <= server'
  BY <1>1 DEF Connected
<1> QED BY <1>2, <1>3, <1>4, <1>5 DEF Connected

\* A connection without messages.
LEMMA EmptyConnection ==
  ASSUME expected' = 0, sent' = <<>>, replies' = <<>>, ~watched', ~heard'
  PROVE  Closed' /\ RefusesOrSends' /\ CountsWhatComes'
<1>1. Len(<<>>) = 0 /\ 1..0 = {}
  OBVIOUS
<1>2. Closed' /\ RefusesOrSends'
  BY <1>1 DEF Closed, RefusesOrSends
<1>3. PICK still \in [1..(Len(<<>>) + 1) -> Nat] : Awaited(still, <<>>, <<>>) /\ still[1] = 0
  BY NothingAwaited
<1>4. Recent(still, <<>>, floor')
  BY <1>1 DEF Recent
<1>5. CountsWhatComes'
  BY <1>3, <1>4 DEF CountsWhatComes
<1> QED BY <1>2, <1>5

\* The client asks for the target of its first listener, or gives up that of its last.
LEMMA ConnectedSend ==
  ASSUME Connected, NEW request \in Request, stream' = "Open", UNCHANGED refuses,
         sent' = sent \o <<request>>, expected' = expected + 1,
         UNCHANGED <<replies, watched, heard>>,
         ~refuses /\ sent # <<>> => sent[Len(sent)] # request,
         ~refuses => Alternate(sent),
         ~refuses /\ sent # <<>> => (sent[1] = "unwatch" <=> watched),
         sent = <<>> => (request = "unwatch" <=> watched) \/ refuses,
         request = "watch" <=> listeners' # <<>>
  PROVE  Closed' /\ RefusesOrSends' /\ CountsWhatComes' /\ TakesTurns'
<1>0. sent \in Seq(Request) /\ replies \in Seq(Message)
  BY DEF Connected, TypeOK, Request
<1>1. Closed' /\ RefusesOrSends'
  BY DEF Closed, RefusesOrSends, Connected
<1>2. CountsWhatComes'
  <2>1. SUFFICES ASSUME ~refuses PROVE CountsWhatComes'
    BY DEF CountsWhatComes
  <2>2. PICK still \in [1..(Len(replies) + 1) -> Nat] :
            Awaited(still, sent, replies) /\ expected = still[1]
    BY <2>1 DEF Connected, CountsWhatComes
  <2>3. PICK more : SentChain(more, still, sent, replies, request)
    BY <1>0, <2>2, SentAwaited
  <2>4. Recent(more, replies, floor')
    BY <2>3 DEF Recent, SentChain
  <2> QED BY <2>2, <2>3, <2>4 DEF CountsWhatComes, SentChain
<1>3. TakesTurns'
  <2>1. SUFFICES ASSUME ~refuses PROVE TakesTurns'
    BY DEF TakesTurns
  <2>2. /\ Alternate(sent') /\ sent' # <<>> /\ sent'[Len(sent')] = request
        /\ sent'[1] = IF sent = <<>> THEN request ELSE sent[1]
    BY <1>0, <2>1, AlternateSend
  <2> QED BY <2>1, <2>2 DEF TakesTurns, Alternate
<1> QED BY <1>1, <1>2, <1>3

LEMMA ConnectedStream ==
  ASSUME Connected, TypeOK', StreamMoves
  PROVE  Connected'
<1>0. TypeOK /\ online \in {"Unknown", "Online", "Offline"}
  BY DEF Connected, TypeOK
<1>1. /\ UNCHANGED <<listeners, cache, server, refuses, floor>> /\ (current' => current)
      /\ \/ /\ StreamOpens /\ stream = "Starting" /\ stream' = "Open"
            /\ Send(IF listeners = <<>> THEN <<>> ELSE <<"watch">>)
            /\ UNCHANGED <<online, timer, idle>>
         \/ /\ stream = "Backoff" /\ stream' = "Starting"
            /\ UNCHANGED <<online, timer, idle, connection>>
         \/ /\ DropConnection
            /\ stream' \in {"Initial", "Starting", "Backoff", "Error"}
            /\ online' # "Online"
            /\ timer' => online' = "Unknown" /\ stream' \in {"Starting", "Backoff"}
         \/ /\ OnlineTimeout /\ timer /\ ~timer' /\ online' = "Offline"
            /\ UNCHANGED <<stream, idle, connection>>
  BY <1>0, StreamFacts DEF database
<1>2. SyncedIsFresh' /\ floor' <= server'
  BY <1>1 DEF Connected, SyncedIsFresh
<1>3. CASE DropConnection
           /\ stream' \in {"Initial", "Starting", "Backoff", "Error"} /\ online' # "Online"
           /\ (timer' => online' = "Unknown" /\ stream' \in {"Starting", "Backoff"})
  <2>1. expected' = 0 /\ sent' = <<>> /\ replies' = <<>> /\ ~watched' /\ ~heard' /\ ~idle'
    BY <1>3, DropTyped
  <2>2. Closed' /\ RefusesOrSends' /\ CountsWhatComes'
    BY <2>1, EmptyConnection
  <2>3. TakesTurns' /\ OnlineIsHeard' /\ TimerOnlyWhileTrying' /\ IdleOnlyWhenDone'
    BY <1>3, <2>1 DEF TakesTurns, OnlineIsHeard, TimerOnlyWhileTrying, IdleOnlyWhenDone, Started
  <2> QED BY <1>2, <2>2, <2>3 DEF Connected
<1>4. CASE StreamOpens /\ stream = "Starting" /\ stream' = "Open"
           /\ Send(IF listeners = <<>> THEN <<>> ELSE <<"watch">>)
           /\ UNCHANGED <<online, timer, idle>>
  <2>1. expected = 0 /\ sent = <<>> /\ replies = <<>> /\ ~watched /\ ~heard /\ ~idle
    BY <1>4 DEF Connected, Closed, IdleOnlyWhenDone
  <2>2. UNCHANGED <<replies, watched, told, heard>>
    BY <1>4 DEF Send
  <2>3. OnlineIsHeard' /\ TimerOnlyWhileTrying' /\ IdleOnlyWhenDone'
    BY <1>4, <2>1, <2>2 DEF Connected, OnlineIsHeard, TimerOnlyWhileTrying, IdleOnlyWhenDone,
                            Started
  <2>4. CASE listeners = <<>>
    <3>1. Send(<<>>) /\ <<>> \in {<<>>, <<"watch">>, <<"unwatch">>}
      BY <1>4, <2>4
    <3>2. sent' = sent \o <<>> /\ expected' = expected + Len(<<>>)
      BY <3>1 DEF Send
    <3>3. sent' = <<>> /\ expected' = 0
      BY <3>2, <2>1
    <3>4. Closed' /\ RefusesOrSends' /\ CountsWhatComes'
      BY <2>1, <2>2, <3>3, EmptyConnection
    <3>5. TakesTurns'
      <4>1. Len(<<>>) = 0 /\ 1..0 = {}
        OBVIOUS
      <4> QED BY <4>1, <3>3, <2>1, <2>2, <2>4, <1>1 DEF TakesTurns
    <3> QED BY <1>2, <2>3, <3>4, <3>5 DEF Connected
  <2>5. CASE listeners # <<>>
    <3>1. Send(<<"watch">>)
      BY <1>4, <2>5
    <3>2. sent' = sent \o <<"watch">> /\ expected' = expected + Len(<<"watch">>)
      BY <3>1 DEF Send
    <3>3. Len(<<"watch">>) = 1 /\ Len(<<>>) = 0 /\ 1..0 = {}
      OBVIOUS
    <3>4. Alternate(sent) /\ "watch" \in Request /\ expected' = expected + 1
      BY <2>1, <3>2, <3>3 DEF Alternate, Request
    <3>5. Closed' /\ RefusesOrSends' /\ CountsWhatComes' /\ TakesTurns'
      BY <1>1, <1>4, <2>1, <2>2, <2>5, <3>2, <3>4, ConnectedSend
    <3> QED BY <1>2, <2>3, <3>5 DEF Connected
  <2> QED BY <2>4, <2>5
<1>5. CASE stream = "Backoff" /\ stream' = "Starting" /\ UNCHANGED <<online, timer, idle, connection>>
  <2>1. expected' = 0 /\ sent' = <<>> /\ replies' = <<>> /\ ~watched' /\ ~heard'
    BY <1>5 DEF Connected, Closed, connection
  <2>2. Closed' /\ RefusesOrSends' /\ CountsWhatComes'
    BY <2>1, EmptyConnection
  <2>3. TakesTurns' /\ OnlineIsHeard' /\ TimerOnlyWhileTrying' /\ IdleOnlyWhenDone'
    BY <1>1, <1>5 DEF Connected, TakesTurns, OnlineIsHeard, TimerOnlyWhileTrying, IdleOnlyWhenDone,
                      Started, connection
  <2> QED BY <1>2, <2>2, <2>3 DEF Connected
<1>6. CASE OnlineTimeout /\ timer /\ ~timer' /\ online' = "Offline"
           /\ UNCHANGED <<stream, idle, connection>>
  <2>1. UNCHANGED <<expected, sent, replies, watched, heard>>
    BY <1>6 DEF connection
  <2>2. Closed' /\ RefusesOrSends' /\ TakesTurns'
    BY <1>1, <1>6, <2>1 DEF Connected, Closed, RefusesOrSends, TakesTurns
  <2>3. CountsWhatComes'
    BY <1>1, <2>1 DEF Connected, CountsWhatComes
  <2>4. OnlineIsHeard' /\ TimerOnlyWhileTrying' /\ IdleOnlyWhenDone'
    BY <1>1, <1>6, <2>1 DEF Connected, OnlineIsHeard, TimerOnlyWhileTrying, IdleOnlyWhenDone
  <2> QED BY <1>2, <2>2, <2>3, <2>4 DEF Connected
<1> QED BY <1>1, <1>3, <1>4, <1>5, <1>6


LEMMA ConnectedListen ==
  ASSUME Connected, TypeOK', Listen
  PROVE  Connected'
<1>0. TypeOK /\ stream \in StreamState /\ current \in BOOLEAN /\ floor <= server
      /\ server \in 0..MaxVersion
  BY DEF Connected, TypeOK
<1>1. listeners' # <<>>
  <2>1. listeners \in Seq(Get) /\ Subject \in Get
    BY <1>0, ListenersTyped, ListenFacts, TaskTaken
  <2>2. Len(Append(listeners, Subject)) = Len(listeners) + 1 /\ Len(listeners) \in Nat
    BY <2>1, AppendProperties, LenProperties
  <2>3. Len(listeners') # 0
    BY <1>0, <2>2, ListenFacts
  <2>4. Len(<<>>) = 0
    OBVIOUS
  <2> QED BY <2>3, <2>4
<1>2. /\ UNCHANGED <<current, cache, server, refuses>>
      /\ \/ /\ listeners = <<>> /\ stream \in {"Initial", "Error"} /\ floor' = server
            /\ stream' \in {"Starting", "Backoff"} /\ timer' = TRUE /\ online' = "Unknown"
            /\ UNCHANGED <<idle, connection>>
         \/ /\ listeners = <<>> /\ Started /\ floor' = server
            /\ UNCHANGED <<stream, online, timer>>
            /\ \/ stream = "Open" /\ Send(<<"watch">>) /\ ~idle' /\ idle' \in BOOLEAN
               \/ stream # "Open" /\ UNCHANGED <<connection, idle>>
         \/ /\ listeners # <<>>
            /\ UNCHANGED <<stream, online, timer, idle, connection, floor>>
  BY <1>0, ListenFacts DEF database
<1>3. floor' <= server'
  BY <1>0, <1>2
<1>4. SyncedIsFresh'
  BY <1>1, <1>2 DEF Connected, SyncedIsFresh
<1>5. CASE stream # "Open" /\ stream' # "Open" /\ UNCHANGED <<idle, connection>>
           /\ (\/ stream' \in {"Starting", "Backoff"} /\ online' = "Unknown"
               \/ UNCHANGED <<stream, online, timer>>)
  <2>1. expected' = 0 /\ sent' = <<>> /\ replies' = <<>> /\ ~watched' /\ ~heard' /\ ~heard
    BY <1>5 DEF Connected, Closed, connection
  <2>2. Closed' /\ RefusesOrSends' /\ CountsWhatComes'
    BY <2>1, EmptyConnection
  <2>3. TakesTurns' /\ IdleOnlyWhenDone'
    BY <1>5 DEF Connected, TakesTurns, IdleOnlyWhenDone
  <2>4. OnlineIsHeard' /\ TimerOnlyWhileTrying'
    BY <1>5, <2>1 DEF Connected, OnlineIsHeard, TimerOnlyWhileTrying, Started
  <2> QED BY <1>3, <1>4, <2>2, <2>3, <2>4 DEF Connected
<1>6. CASE listeners = <<>> /\ UNCHANGED <<stream, online, timer>>
           /\ stream = "Open" /\ Send(<<"watch">>) /\ ~idle'
  <2>1. /\ sent' = sent \o <<"watch">> /\ expected' = expected + Len(<<"watch">>)
        /\ UNCHANGED <<replies, watched, told, heard>>
    BY <1>6 DEF Send
  <2>2. Len(<<"watch">>) = 1 /\ "watch" \in Request /\ "watch" # "unwatch"
    BY DEF Request
  <2>3. expected' = expected + 1
    BY <2>1, <2>2
  <2>4. ~refuses =>
            /\ Alternate(sent)
            /\ sent # <<>> => sent[Len(sent)] # "watch" /\ (sent[1] = "unwatch" <=> watched)
            /\ sent = <<>> => ~watched
    BY <1>6 DEF Connected, TakesTurns, Alternate
  <2>5. Closed' /\ RefusesOrSends' /\ CountsWhatComes' /\ TakesTurns'
    BY <1>1, <1>2, <1>6, <2>1, <2>2, <2>3, <2>4, ConnectedSend
  <2>6. OnlineIsHeard' /\ TimerOnlyWhileTrying' /\ IdleOnlyWhenDone'
    BY <1>6, <2>1 DEF Connected, OnlineIsHeard, TimerOnlyWhileTrying, IdleOnlyWhenDone, Started
  <2> QED BY <1>3, <1>4, <2>5, <2>6 DEF Connected
<1>7. CASE listeners # <<>> /\ UNCHANGED <<stream, online, timer, idle, connection, floor>>
  <2>1. UNCHANGED <<expected, sent, replies, watched, heard>>
    BY <1>7 DEF connection
  <2>2. Closed' /\ RefusesOrSends'
    BY <1>2, <1>7, <2>1 DEF Connected, Closed, RefusesOrSends
  <2>3. TakesTurns'
    BY <1>1, <1>2, <1>7, <2>1 DEF Connected, TakesTurns
  <2>4. CountsWhatComes'
    BY <1>1, <1>2, <1>7, <2>1 DEF Connected, CountsWhatComes
  <2>5. OnlineIsHeard' /\ TimerOnlyWhileTrying' /\ IdleOnlyWhenDone'
    BY <1>7, <2>1 DEF Connected, OnlineIsHeard, TimerOnlyWhileTrying, IdleOnlyWhenDone, Started
  <2> QED BY <1>3, <1>4, <2>2, <2>3, <2>4, <2>5 DEF Connected
<1> QED BY <1>2, <1>5, <1>6, <1>7

LEMMA ConnectedRemove ==
  ASSUME Connected, TypeOK', RemoveListener \/ RemoveLastListener
  PROVE  Connected'
<1>0. TypeOK /\ floor <= server /\ server \in 0..MaxVersion
  BY DEF Connected, TypeOK
<1>1. CASE RemoveListener
  <2>1. /\ listeners' = <<>> <=> listeners = <<>>
        /\ UNCHANGED <<current, online, timer, stream, idle, cache, server, refuses, floor,
                       expected, sent, replies, watched, heard>>
    BY <1>0, <1>1, RemoveFacts DEF view, tracker, connection, database
  <2>2. Closed' /\ RefusesOrSends'
    BY <2>1 DEF Connected, Closed, RefusesOrSends
  <2>3. TakesTurns'
    BY <2>1 DEF Connected, TakesTurns
  <2>4. CountsWhatComes'
    BY <2>1 DEF Connected, CountsWhatComes
  <2>5. OnlineIsHeard' /\ TimerOnlyWhileTrying' /\ IdleOnlyWhenDone' /\ SyncedIsFresh'
    BY <2>1 DEF Connected, OnlineIsHeard, TimerOnlyWhileTrying, IdleOnlyWhenDone, Started,
                SyncedIsFresh
  <2> QED BY <1>0, <2>1, <2>2, <2>3, <2>4, <2>5 DEF Connected
<1>2. CASE RemoveLastListener
  <2>1. /\ listeners # <<>> /\ listeners' = <<>> /\ ~current'
        /\ UNCHANGED <<stream, cache, server, refuses, floor>>
        /\ \/ /\ stream = "Open" /\ Send(<<"unwatch">>) /\ idle' = TRUE
              /\ UNCHANGED <<online, timer>>
           \/ /\ stream # "Open" /\ online' = "Unknown" /\ ~timer'
              /\ UNCHANGED <<connection, idle>>
    BY <1>0, <1>2, RemoveLastFacts DEF database, tracker
  <2>2. SyncedIsFresh' /\ floor' <= server'
    BY <1>0, <2>1 DEF SyncedIsFresh
  <2>3. CASE stream = "Open" /\ Send(<<"unwatch">>) /\ idle' = TRUE /\ UNCHANGED <<online, timer>>
    <3>1. /\ sent' = sent \o <<"unwatch">> /\ expected' = expected + Len(<<"unwatch">>)
          /\ UNCHANGED <<replies, watched, told, heard>>
      BY <2>3 DEF Send
    <3>2. Len(<<"unwatch">>) = 1 /\ "unwatch" \in Request /\ "watch" # "unwatch"
      BY DEF Request
    <3>3. expected' = expected + 1
      BY <3>1, <3>2
    <3>4. ~refuses =>
              /\ Alternate(sent)
              /\ sent # <<>> => sent[Len(sent)] = "watch" /\ (sent[1] = "unwatch" <=> watched)
              /\ sent = <<>> => watched
      BY <2>1, <2>3 DEF Connected, TakesTurns, Alternate
    <3>5. Closed' /\ RefusesOrSends' /\ CountsWhatComes' /\ TakesTurns'
      BY <2>1, <2>3, <3>1, <3>2, <3>3, <3>4, ConnectedSend
    <3>6. OnlineIsHeard' /\ TimerOnlyWhileTrying' /\ IdleOnlyWhenDone'
      BY <2>1, <2>3, <3>1
         DEF Connected, OnlineIsHeard, TimerOnlyWhileTrying, IdleOnlyWhenDone, Started
    <3> QED BY <2>2, <3>5, <3>6 DEF Connected
  <2>4. CASE stream # "Open" /\ online' = "Unknown" /\ ~timer' /\ UNCHANGED <<connection, idle>>
    <3>1. expected' = 0 /\ sent' = <<>> /\ replies' = <<>> /\ ~watched' /\ ~heard'
      BY <2>4 DEF Connected, Closed, connection
    <3>2. Closed' /\ RefusesOrSends' /\ CountsWhatComes'
      BY <3>1, EmptyConnection
    <3>3. TakesTurns' /\ IdleOnlyWhenDone'
      BY <2>1, <2>4 DEF Connected, TakesTurns, IdleOnlyWhenDone
    <3>4. OnlineIsHeard' /\ TimerOnlyWhileTrying'
      BY <2>4, <3>1 DEF OnlineIsHeard, TimerOnlyWhileTrying
    <3> QED BY <2>2, <3>2, <3>3, <3>4 DEF Connected
  <2> QED BY <2>1, <2>3, <2>4
<1> QED BY <1>1, <1>2

LEMMA ConnectedReads ==
  ASSUME Connected, TypeOK', ReadsMessage
  PROVE  Connected'
<1>00. TypeOK /\ floor <= server /\ floor \in 0..MaxVersion /\ replies \in Seq(Message)
       /\ sent \in Seq(Request)
  BY DEF Connected, TypeOK, Request
<1>0. TypeOK /\ floor <= server /\ floor \in Nat /\ replies \in Seq(Message)
      /\ sent \in Seq(Request)
  BY <1>00
<1>1. /\ replies # <<>> /\ replies' = Tail(replies) /\ heard'
      /\ online' = "Online" /\ timer' = FALSE
      /\ UNCHANGED <<stream, idle, sent, watched, server, refuses, floor>>
  BY <1>0, ReadFacts
<1>2. /\ Len(replies) \in Nat \ {0} /\ Len(replies') = Len(replies) - 1
      /\ Head(replies) = replies[1]
      /\ \A i \in 1..Len(replies') : replies'[i] = replies[i + 1]
  BY <1>0, <1>1, HeadTailProperties, LenProperties, EmptySeq
<1>3. \A i \in 1..Len(replies') : i + 1 \in 1..Len(replies)
  BY <1>2
<1>4. stream' = "Open" /\ stream = "Open"
  BY <1>1 DEF Connected, Closed
<1>5. Closed'
  BY <1>4 DEF Closed
<1>6. RefusesOrSends'
  BY <1>1, <1>2, <1>3 DEF Connected, RefusesOrSends
<1>7. 1 \in 1..Len(replies)
  BY <1>2
<1>8. OnlineIsHeard' /\ TimerOnlyWhileTrying'
  BY <1>1 DEF OnlineIsHeard, TimerOnlyWhileTrying
<1>9. floor' <= server'
  BY <1>0, <1>1
<1>10. CASE Head(replies).kind = "denied"
            /\ (\/ listeners = <<>> /\ UNCHANGED <<listeners, current, cache>>
                \/ listeners' = <<>> /\ ~current')
  <2>1. refuses'
    BY <1>1, <1>2, <1>7, <1>10 DEF Connected, RefusesOrSends
  <2>2. CountsWhatComes' /\ TakesTurns'
    BY <2>1 DEF CountsWhatComes, TakesTurns
  <2>3. IdleOnlyWhenDone' /\ SyncedIsFresh'
    BY <1>1, <1>10 DEF Connected, IdleOnlyWhenDone, SyncedIsFresh
  <2> QED BY <1>5, <1>6, <1>8, <1>9, <2>2, <2>3 DEF Connected
<1>11. CASE UNCHANGED listeners
            /\ expected' = IF IsResponse(Head(replies)) THEN expected - 1 ELSE expected
  <2>1. TakesTurns' /\ IdleOnlyWhenDone'
    BY <1>1, <1>11 DEF Connected, TakesTurns, IdleOnlyWhenDone
  <2>2. CountsWhatComes'
    <3>1. SUFFICES ASSUME ~refuses PROVE CountsWhatComes'
      BY <1>1 DEF CountsWhatComes
    <3>2. PICK still :
              /\ Awaited(still, sent, replies) /\ expected = still[1]
              /\ listeners # <<>> => Recent(still, replies, floor)
      BY <3>1 DEF Connected, CountsWhatComes
    <3>4. PICK fewer : ReadChain(fewer, still, sent, replies, floor)
      BY <1>0, <1>1, <3>2, ReadAwaited
    <3>5. /\ fewer \in [1..(Len(replies') + 1) -> Nat] /\ Awaited(fewer, sent', replies')
          /\ expected' = fewer[1]
          /\ listeners' # <<>> => Recent(fewer, replies', floor')
      BY <1>1, <1>11, <3>2, <3>4 DEF ReadChain
    <3> QED BY <3>5 DEF CountsWhatComes
  <2>3. SyncedIsFresh'
    <3>1. CASE UNCHANGED cache /\ (current' => current)
      BY <1>1, <1>11, <3>1 DEF Connected, SyncedIsFresh
    <3>2. CASE /\ listeners # <<>> /\ expected = 0 /\ cache' = Head(replies).doc
               /\ Head(replies).kind = "document"
      <4>1. ~refuses
        BY <1>2, <1>7, <3>2 DEF Connected, RefusesOrSends
      <4>2. PICK still :
                /\ Awaited(still, sent, replies) /\ expected = still[1]
                /\ Recent(still, replies, floor)
        BY <3>2, <4>1 DEF Connected, CountsWhatComes
      <4>3. replies[1].doc >= floor
        BY <1>2, <1>7, <3>2, <4>2 DEF Recent
      <4>4. cache' >= floor
        BY <1>2, <3>2, <4>3
      <4> QED BY <1>1, <1>11, <3>2, <4>4 DEF SyncedIsFresh
    <3>3. \/ UNCHANGED cache /\ (current' => current)
          \/ /\ listeners # <<>> /\ expected = 0 /\ cache' = Head(replies).doc
             /\ Head(replies).kind = "document"
          \/ listeners = <<>> /\ UNCHANGED <<listeners, current, cache>>
          \/ listeners' = <<>> /\ ~current'
      BY <1>0, ReadFacts
    <3> QED BY <3>1, <3>2, <3>3 DEF SyncedIsFresh
  <2> QED BY <1>5, <1>6, <1>8, <1>9, <2>1, <2>2, <2>3 DEF Connected
<1>12. \/ /\ IsResponse(Head(replies)) /\ expected' = expected - 1 /\ UNCHANGED listeners
       \/ /\ Head(replies).kind = "document" /\ UNCHANGED <<listeners, expected>>
       \/ /\ Head(replies).kind = "denied"
          /\ \/ listeners = <<>> /\ UNCHANGED <<listeners, current, cache>>
             \/ listeners' = <<>> /\ ~current'
  BY <1>0, ReadFacts
<1> QED BY <1>10, <1>11, <1>12 DEF IsResponse


\* The server adds a message, and reads the request that it answers, if it does.
LEMMA CountsAnswer ==
  ASSUME Connected, NEW m \in Message, replies' = Append(replies, m), sent' \in Seq(Request),
         Len(sent) = IF IsResponse(m) THEN Len(sent') + 1 ELSE Len(sent'),
         m.kind = "document" => m.doc >= floor,
         UNCHANGED <<expected, listeners, floor, refuses>>
  PROVE  CountsWhatComes'
<1>1. SUFFICES ASSUME ~refuses PROVE CountsWhatComes'
  BY DEF CountsWhatComes
<1>00. floor \in 0..MaxVersion /\ replies \in Seq(Message) /\ sent \in Seq(Request)
  BY DEF Connected, TypeOK, Request
<1>0. floor \in Nat /\ replies \in Seq(Message) /\ sent \in Seq(Request)
  BY <1>00
<1>2. PICK still :
          /\ Awaited(still, sent, replies) /\ expected = still[1]
          /\ listeners # <<>> => Recent(still, replies, floor)
  BY <1>1 DEF Connected, CountsWhatComes
<1>4. PICK longer : AnswerChain(longer, still, sent', replies, m, floor)
  BY <1>0, <1>2, AnsweredAwaited
<1>5. /\ longer \in [1..(Len(replies') + 1) -> Nat] /\ Awaited(longer, sent', replies')
      /\ expected' = longer[1]
      /\ listeners' # <<>> => Recent(longer, replies', floor')
  BY <1>2, <1>4 DEF AnswerChain
<1> QED BY <1>5 DEF CountsWhatComes

LEMMA ConnectedServer ==
  ASSUME Connected, TypeOK', Server \/ Commit
  PROVE  Connected'
<1>00. /\ TypeOK /\ floor <= server /\ floor \in 0..MaxVersion /\ server \in 0..MaxVersion
       /\ replies \in Seq(Message) /\ sent \in Seq(Request) /\ 0 \in 0..MaxVersion
  BY Bounds DEF Connected, TypeOK, Request
<1>0. TypeOK /\ floor <= server /\ floor \in Nat /\ server \in Nat
  BY <1>00
<1>1. UNCHANGED <<listeners, current, online, timer, stream, idle, expected, heard, cache,
                  refuses, floor>>
  BY <1>0, ServerStep DEF view, tracker
<1>2. OnlineIsHeard' /\ TimerOnlyWhileTrying' /\ IdleOnlyWhenDone' /\ SyncedIsFresh'
  BY <1>1 DEF Connected, OnlineIsHeard, TimerOnlyWhileTrying, IdleOnlyWhenDone, Started,
              SyncedIsFresh
<1>3. server' = server \/ server' = server + 1
  BY <1>0, ServerStep
<1>4. floor' <= server'
  BY <1>0, <1>1, <1>3
<1>5. ASSUME sent # <<>> \/ watched PROVE stream = "Open" /\ Closed'
  BY <1>1, <1>5 DEF Connected, Closed
\* An answer keeps RefusesOrSends.
<1>6. ASSUME NEW kind \in {"added", "removed", "denied", "document"}, NEW doc \in 0..MaxVersion,
             replies' = Append(replies, [kind |-> kind, doc |-> doc]),
             kind = "denied" => refuses, kind = "document" => ~refuses, watched' => ~refuses
      PROVE  RefusesOrSends'
  <2> DEFINE m == [kind |-> kind, doc |-> doc]
  <2>1. /\ Len(replies') = Len(replies) + 1 /\ replies'[Len(replies) + 1] = m
        /\ \A i \in 1..Len(replies) : replies'[i] = replies[i]
    BY <1>0, <1>6, AnswerTyped
  <2>2. Len(replies) \in Nat /\ m.kind = kind
    BY <1>00, LenProperties
  <2>3. \A i \in 1..(Len(replies) + 1) : i \in 1..Len(replies) \/ i = Len(replies) + 1
    BY <2>2
  <2> HIDE DEF m
  <2>4. ASSUME NEW i \in 1..Len(replies')
        PROVE  /\ replies'[i].kind = "denied" => refuses'
               /\ replies'[i].kind = "document" => ~refuses'
    <3>1. CASE i \in 1..Len(replies)
      BY <1>1, <2>1, <3>1 DEF Connected, RefusesOrSends
    <3>2. CASE i = Len(replies) + 1
      BY <1>1, <1>6, <2>1, <2>2, <3>2
    <3> QED BY <2>1, <2>3, <3>1, <3>2
  <2> QED BY <1>1, <1>6, <2>4 DEF RefusesOrSends
\* A request that is read keeps the turns if the server watches as it asks.
<1>7. ASSUME NEW request \in Request, ServerFacts(request),
             ~refuses => (watched' <=> request = "watch")
      PROVE  /\ TakesTurns' /\ Len(sent) = Len(sent') + 1 /\ stream = "Open" /\ Closed'
             /\ ~refuses => (request = "unwatch" <=> watched)
  <2>1. sent # <<>> /\ sent[1] = request /\ sent' = Tail(sent)
    BY <1>7 DEF ServerFacts
  <2>2. stream = "Open" /\ Closed'
    BY <2>1, <1>5
  <2>3. Len(sent) = Len(sent') + 1
    <3>1. Len(Tail(sent)) = Len(sent) - 1 /\ Len(sent) \in Nat
      BY <1>00, <2>1, HeadTailProperties, LenProperties
    <3> QED BY <2>1, <3>1
  <2>4. ASSUME ~refuses
        PROVE  TakesTurns' /\ (request = "unwatch" <=> watched)
    <3>1. /\ Alternate(sent) /\ (sent[1] = "unwatch" <=> watched)
          /\ sent[Len(sent)] = "watch" <=> listeners # <<>>
      BY <2>1, <2>2, <2>4 DEF Connected, TakesTurns, Alternate
    <3>2. /\ Alternate(sent')
          /\ sent' = <<>> => sent[Len(sent)] = sent[1]
          /\ sent' # <<>> => sent'[1] # sent[1] /\ sent'[Len(sent')] = sent[Len(sent)]
      BY <1>00, <2>1, <3>1, AlternateRead
    <3>3. sent' # <<>> => sent'[1] \in Request
      <4>1. sent' \in Seq(Request)
        BY <1>7 DEF ServerFacts
      <4>2. sent' # <<>> => 1 \in 1..Len(sent')
        BY <4>1, EmptySeq, LenProperties
      <4> QED BY <4>1, <4>2, ElementOfSeq
    <3>4. CASE sent' = <<>>
      BY <1>1, <1>7, <2>1, <2>4, <3>1, <3>2, <3>4 DEF TakesTurns, Alternate
    <3>5. CASE sent' # <<>>
      <4>1. sent'[1] = "unwatch" <=> watched'
        BY <1>7, <2>1, <2>4, <3>2, <3>3, <3>5 DEF Request
      <4>2. TakesTurns'
        BY <1>1, <3>1, <3>2, <3>5, <4>1 DEF TakesTurns, Alternate
      <4>3. request = "unwatch" <=> watched
        BY <2>1, <3>1
      <4> QED BY <4>2, <4>3
    <3> QED BY <3>4, <3>5
  <2>5. refuses => TakesTurns'
    BY <1>1 DEF TakesTurns
  <2> QED BY <2>2, <2>3, <2>4, <2>5
<1>8. "watch" \in Request /\ "unwatch" \in Request /\ "watch" # "unwatch"
  BY DEF Request
<1>9. CASE ~refuses /\ ServerFacts("watch") /\ watched' = TRUE
           /\ replies' = Append(replies, [kind |-> "added", doc |-> 0])
  <2>1. TakesTurns' /\ Len(sent) = Len(sent') + 1 /\ Closed'
    BY <1>7, <1>8, <1>9
  <2>2. RefusesOrSends'
    BY <1>00, <1>6, <1>9
  <2>3. CountsWhatComes'
    <3>1. [kind |-> "added", doc |-> 0] \in Message
      BY <1>00, AnswerTyped
    <3>2. IsResponse([kind |-> "added", doc |-> 0])
          /\ [kind |-> "added", doc |-> 0].kind # "document"
      BY DEF IsResponse
    <3>3. sent' \in Seq(Request)
      BY <1>9 DEF ServerFacts
    <3> QED BY <1>1, <1>9, <2>1, <3>1, <3>2, <3>3, CountsAnswer
  <2> QED BY <1>2, <1>4, <2>1, <2>2, <2>3 DEF Connected
<1>10. CASE refuses /\ ServerFacts("watch") /\ UNCHANGED watched
            /\ replies' = Append(replies, [kind |-> "denied", doc |-> 0])
  <2>1. TakesTurns' /\ CountsWhatComes'
    BY <1>1, <1>10 DEF TakesTurns, CountsWhatComes
  <2>2. Closed'
    BY <1>5, <1>10 DEF ServerFacts
  <2>3. ~watched'
    BY <1>10 DEF Connected, RefusesOrSends
  <2>4. RefusesOrSends'
    BY <1>00, <1>6, <1>10, <2>3
  <2> QED BY <1>2, <1>4, <2>1, <2>2, <2>4 DEF Connected
<1>11. CASE ServerFacts("unwatch") /\ watched' = FALSE
            /\ (\/ replies' = Append(replies, [kind |-> "removed", doc |-> 0])
                \/ ~watched /\ UNCHANGED replies)
  <2>1. /\ TakesTurns' /\ Len(sent) = Len(sent') + 1 /\ Closed'
        /\ ~refuses => watched
    BY <1>7, <1>8, <1>11
  <2>2. CASE replies' = Append(replies, [kind |-> "removed", doc |-> 0])
    <3>1. RefusesOrSends'
      BY <1>00, <1>6, <1>11, <2>2
    <3>2. CountsWhatComes'
      <4>1. [kind |-> "removed", doc |-> 0] \in Message
        BY <1>00, AnswerTyped
      <4>2. IsResponse([kind |-> "removed", doc |-> 0])
            /\ [kind |-> "removed", doc |-> 0].kind # "document"
        BY DEF IsResponse
      <4>3. sent' \in Seq(Request)
        BY <1>11 DEF ServerFacts
      <4> QED BY <1>1, <2>1, <2>2, <4>1, <4>2, <4>3, CountsAnswer
    <3> QED BY <1>2, <1>4, <2>1, <3>1, <3>2 DEF Connected
  <2>3. CASE ~watched /\ UNCHANGED replies
    <3>1. refuses
      BY <2>1, <2>3
    <3>2. CountsWhatComes'
      BY <1>1, <3>1 DEF CountsWhatComes
    <3>3. RefusesOrSends'
      BY <1>1, <1>11, <2>3 DEF Connected, RefusesOrSends
    <3> QED BY <1>2, <1>4, <2>1, <3>2, <3>3 DEF Connected
  <2> QED BY <1>11, <2>2, <2>3
<1>12. CASE watched /\ UNCHANGED <<sent, watched>>
            /\ replies' = Append(replies, [kind |-> "document", doc |-> server])
  <2>1. ~refuses /\ Closed'
    BY <1>5, <1>12 DEF Connected, RefusesOrSends
  <2>2. TakesTurns'
    BY <1>1, <1>12 DEF Connected, TakesTurns
  <2>3. RefusesOrSends'
    BY <1>00, <1>6, <1>12, <2>1
  <2>4. CountsWhatComes'
    <3>1. [kind |-> "document", doc |-> server] \in Message
      BY <1>00, AnswerTyped
    <3>2. ~IsResponse([kind |-> "document", doc |-> server])
          /\ [kind |-> "document", doc |-> server].doc >= floor
      BY <1>0 DEF IsResponse
    <3> QED BY <1>00, <1>1, <1>12, <3>1, <3>2, CountsAnswer
  <2> QED BY <1>2, <1>4, <2>1, <2>2, <2>3, <2>4 DEF Connected
<1>13. CASE UNCHANGED connection
  <2>1. UNCHANGED <<sent, replies, watched>>
    BY <1>13 DEF connection
  <2>2. Closed' /\ RefusesOrSends' /\ TakesTurns'
    BY <1>1, <2>1 DEF Connected, Closed, RefusesOrSends, TakesTurns
  <2>3. CountsWhatComes'
    BY <1>1, <2>1 DEF Connected, CountsWhatComes
  <2> QED BY <1>2, <1>4, <2>2, <2>3 DEF Connected
<1> QED BY <1>0, <1>9, <1>10, <1>11, <1>12, <1>13, ServerStep

LEMMA ConnectedStep == Connected /\ [Next]_vars => Connected'
<1> SUFFICES ASSUME Connected, [Next]_vars PROVE Connected'
  OBVIOUS
<1>0. TypeOK'
  BY TypeStep DEF Connected
<1>1. CASE UNCHANGED vars
  <2>1. UNCHANGED wire
    BY <1>1 DEF vars, wire, view, tracker
  <2> QED BY <1>0, <2>1, ConnectedSame
<1>2. CASE GetDocument \/ Main
  <2>1. UNCHANGED wire
    BY <1>2 DEF GetDocument, Main, RunMuted, RunSnapshot, RunError, wire, view, tracker
  <2> QED BY <1>0, <2>1, ConnectedSame
<1>3. CASE Next /\ ~(GetDocument \/ Main)
  <2>1. \/ Listen \/ RemoveListener \/ RemoveLastListener
        \/ StreamMoves \/ ReadsMessage \/ Server \/ Commit
    BY <1>3 DEF Next, Worker, Connection, Listen, StreamMoves, ReadsMessage
  <2> QED BY <1>0, <2>1, ConnectedListen, ConnectedRemove, ConnectedStream, ConnectedReads,
             ConnectedServer
<1> QED BY <1>1, <1>2, <1>3

LEMMA AlwaysConnected == Spec => []Connected
BY ConnectedInit, ConnectedStep, PTL DEF Spec

-----------------------------------------------------------------------------
(* What follows.                                                            *)

\* The values stay in their types, the client counts itself online exactly while a
\* message has come on the stream there is, the online state timer runs only while a
\* stream is tried, and an idle stream has no target: no assertion of RemoteStore or
\* OnlineStateTracker trips, however streams fail and calls come and go.
THEOREM OnlineIsWhatWasHeard == Spec => []OnlineConsistent
<1>1. Connected => OnlineConsistent
  BY DEF Connected, OnlineConsistent
<1> QED BY <1>1, AlwaysConnected, PTL

\* A view in sync is not older than the document was when its target was added: what
\* the server sent for an earlier target of the same document is never taken for it.
THEOREM NoStaleSync == Spec => []SyncedIsFresh
<1>1. Connected => SyncedIsFresh
  BY DEF Connected
<1> QED BY <1>1, AlwaysConnected, PTL

\* Once all requests and messages are read, the server watches the document if and only
\* if the client has a listener, and the client waits for no more responses.
THEOREM ClientAndServerAgree == Spec => []TargetsAgree
<1>1. Connected => TargetsAgree
  <2>1. SUFFICES ASSUME Connected, stream = "Open", sent = <<>>, replies = <<>>, ~refuses
                 PROVE  expected = 0 /\ (watched <=> listeners # <<>>)
    BY DEF TargetsAgree
  <2>2. watched <=> listeners # <<>>
    BY <2>1 DEF Connected, TakesTurns
  <2>3. PICK still : Awaited(still, sent, replies) /\ expected = still[1]
    BY <2>1 DEF Connected, CountsWhatComes
  <2>4. Len(<<>>) = 0 /\ 0 + 1 = 1
    OBVIOUS
  <2>5. still[Len(replies) + 1] = Len(sent)
    BY <2>3 DEF Awaited
  <2>6. expected = 0
    BY <2>1, <2>3, <2>4, <2>5
  <2> QED BY <2>2, <2>6
<1> QED BY <1>1, AlwaysConnected, PTL


-----------------------------------------------------------------------------
(* The calls: what their queues hold.                                       *)

LEMMA AppendSet ==
  ASSUME NEW S, NEW s \in Seq(S), NEW x \in S
  PROVE  /\ Append(s, x) \in Seq(S) /\ ToSet(Append(s, x)) = ToSet(s) \cup {x}
         /\ IsInjective(s) /\ x \notin ToSet(s) => IsInjective(Append(s, x))
<1> DEFINE n == Len(s)
           t == Append(s, x)
<1>1. n \in Nat /\ DOMAIN s = 1..n
  BY LenProperties
<1>2. /\ t \in Seq(S) /\ Len(t) = n + 1 /\ t[n + 1] = x
      /\ \A i \in 1..n : t[i] = s[i]
  BY AppendProperties
<1>3. DOMAIN t = 1..(n + 1)
  BY <1>2, LenProperties
<1>4. 1..(n + 1) = (1..n) \cup {n + 1} /\ n + 1 \notin 1..n
  BY <1>1
<1> HIDE DEF t, n
<1>5. ToSet(t) = ToSet(s) \cup {x}
  BY <1>1, <1>2, <1>3, <1>4 DEF ToSet
<1>6. ASSUME IsInjective(s), x \notin ToSet(s) PROVE IsInjective(t)
  <2>1. \A i, j \in 1..n : t[i] = t[j] => i = j
    BY <1>1, <1>2, <1>6 DEF IsInjective
  <2>2. \A i \in 1..n : t[i] # t[n + 1]
    BY <1>1, <1>2, <1>6 DEF ToSet
  <2>3. \A i, j \in 1..(n + 1) : t[i] = t[j] => i = j
    BY <1>4, <2>1, <2>2
  <2> QED BY <1>3, <2>3 DEF IsInjective
<1> QED BY <1>2, <1>5, <1>6 DEF t

LEMMA TailSet ==
  ASSUME NEW S, NEW s \in Seq(S), s # <<>>
  PROVE  /\ Tail(s) \in Seq(S) /\ Head(s) \in ToSet(s) /\ Head(s) = s[1]
         /\ ToSet(Tail(s)) \subseteq ToSet(s) /\ ToSet(s) = ToSet(Tail(s)) \cup {Head(s)}
         /\ IsInjective(s) => IsInjective(Tail(s)) /\ Head(s) \notin ToSet(Tail(s))
<1> DEFINE n == Len(Tail(s))
<1>1. /\ n \in Nat /\ Len(s) = n + 1 /\ Head(s) = s[1] /\ Tail(s) \in Seq(S)
      /\ \A i \in 1..n : Tail(s)[i] = s[i + 1]
  <2>1. Len(s) \in Nat \ {0} /\ Len(Tail(s)) = Len(s) - 1 /\ Head(s) = s[1]
        /\ Tail(s) \in Seq(S) /\ \A i \in 1..Len(Tail(s)) : Tail(s)[i] = s[i + 1]
    BY HeadTailProperties, LenProperties, EmptySeq
  <2> QED BY <2>1
<1>2. DOMAIN s = 1..(n + 1) /\ DOMAIN Tail(s) = 1..n
  BY <1>1, LenProperties
<1>3. /\ 1 \in 1..(n + 1)
      /\ \A i \in 1..n : i + 1 \in 1..(n + 1) /\ i + 1 # 1
      /\ \A i \in 1..(n + 1) : i = 1 \/ (i - 1 \in 1..n /\ i - 1 + 1 = i)
      /\ \A i, j \in 1..n : i + 1 = j + 1 => i = j
  BY <1>1
<1> HIDE DEF n
<1>4. ToSet(Tail(s)) \subseteq ToSet(s) /\ Head(s) \in ToSet(s)
  BY <1>1, <1>2, <1>3 DEF ToSet
<1>5. ASSUME NEW x \in ToSet(s) PROVE x \in ToSet(Tail(s)) \cup {Head(s)}
  <2>1. PICK i \in 1..(n + 1) : x = s[i]
    BY <1>2 DEF ToSet
  <2>2. CASE i = 1
    BY <2>1, <2>2, <1>1
  <2>3. CASE i # 1
    <3>1. i - 1 \in 1..n /\ Tail(s)[i - 1] = s[i]
      BY <2>3, <1>1, <1>3
    <3> QED BY <2>1, <3>1, <1>2 DEF ToSet
  <2> QED BY <2>2, <2>3
<1>6. ASSUME IsInjective(s) PROVE IsInjective(Tail(s)) /\ Head(s) \notin ToSet(Tail(s))
  <2>1. \A i, j \in 1..(n + 1) : s[i] = s[j] => i = j
    BY <1>2, <1>6 DEF IsInjective
  <2>2. \A i, j \in 1..n : Tail(s)[i] = Tail(s)[j] => i = j
    BY <2>1, <1>1, <1>3
  <2>3. \A i \in 1..n : Tail(s)[i] # Head(s)
    BY <2>1, <1>1, <1>3
  <2> QED BY <2>2, <2>3, <1>2 DEF IsInjective, ToSet
<1> QED BY <1>1, <1>4, <1>5, <1>6

\* What is told to some that have no error is heard by no others and is no error.
LEMMA ToldEvents ==
  ASSUME TypeOK, NEW some, Tells(some), \A g \in some : ~HasError(g), ErrorsLast
  PROVE  /\ ErrorsLast'
         /\ \A g : HasEvent(g)' => HasEvent(g) \/ g \in some
         /\ \A g : HasError(g)' <=> HasError(g)
<1>1. CASE RaiseNothing
  BY <1>1 DEF RaiseNothing, ErrorsLast, HasEvent, HasError, Events
<1>2. CASE ~RaiseNothing
  <2>1. PICK ls \in Seq(Get), kind \in {"synced", "cached"}, doc \in 0..MaxVersion :
            ToSet(ls) \subseteq some /\ Raise(ls, kind, doc)
    BY <1>2 DEF Tells
  <2>2. kind \in {"synced", "cached", "error"} /\ kind # "error"
    OBVIOUS
  <2> DEFINE n == Len(events)
             k == Len(ls)
  <2>3. /\ events' \in Seq(Event) /\ Len(events') = n + k
        /\ \A i \in 1..n : events'[i] = events[i]
        /\ \A i \in 1..k : events'[n + i] = [get |-> ls[i], kind |-> kind, doc |-> doc]
    BY <2>1, <2>2, RaiseAdds
  <2>4. n \in Nat /\ k \in Nat /\ DOMAIN events = 1..n /\ DOMAIN ls = 1..k
        /\ DOMAIN events' = 1..(n + k)
    <3>1. events \in Seq(Event)
      BY DEF TypeOK
    <3> QED BY <3>1, <2>3, LenProperties
  <2> HIDE DEF n, k
  <2>5. \A i \in 1..(n + k) : i \in 1..n \/ (i - n \in 1..k /\ n + (i - n) = i /\ i > n)
    BY <2>4
  <2>6. ASSUME NEW i \in 1..(n + k), i \notin 1..n
        PROVE  events'[i].kind # "error" /\ events'[i].get \in some
    <3>1. i - n \in 1..k /\ n + (i - n) = i
      BY <2>5, <2>6
    <3>2. events'[i] = [get |-> ls[i - n], kind |-> kind, doc |-> doc]
      BY <2>3, <3>1
    <3>3. ls[i - n] \in some
      BY <2>1, <2>4, <3>1 DEF ToSet
    <3> QED BY <2>2, <3>2, <3>3
  <2>7. 1..n \subseteq 1..(n + k)
    BY <2>4
  <2>8. \A g : HasEvent(g)' => HasEvent(g) \/ g \in some
    BY <2>3, <2>4, <2>6 DEF HasEvent, Events, ToSet
  <2>9. \A g : HasError(g)' => HasError(g)
    BY <2>3, <2>4, <2>6 DEF HasError, Events, ToSet
  <2>10. \A g : HasError(g) => HasError(g)'
    BY <2>3, <2>4, <2>7 DEF HasError, Events, ToSet
  <2>11. ErrorsLast'
    <3>1. SUFFICES ASSUME NEW i \in 1..(n + k), NEW j \in 1..(n + k), i < j,
                          events'[i].kind = "error"
                   PROVE  events'[j].get # events'[i].get
      BY <2>4 DEF ErrorsLast
    <3>2. i \in 1..n /\ events'[i] = events[i]
      BY <2>3, <2>6, <3>1
    <3>3. CASE j \in 1..n
      BY <2>3, <2>4, <3>1, <3>2, <3>3 DEF ErrorsLast
    <3>4. CASE j \notin 1..n
      <4>1. events'[j].get \in some
        BY <2>6, <3>4
      <4>2. HasError(events[i].get)
        BY <2>4, <3>1, <3>2 DEF HasError, Events, ToSet
      <4> QED BY <3>2, <4>1, <4>2
    <3> QED BY <3>3, <3>4
  <2> QED BY <2>8, <2>9, <2>10, <2>11
<1> QED BY <1>1, <1>2

\* All the listeners are told of an error.
LEMMA DeniedEvents ==
  ASSUME TypeOK, Raise(listeners, "error", 0), \A g \in Listeners : ~HasError(g), ErrorsLast,
         IsInjective(listeners)
  PROVE  /\ ErrorsLast'
         /\ \A g : HasEvent(g)' => HasEvent(g) \/ g \in Listeners
         /\ \A g : HasError(g)' <=> HasError(g) \/ g \in Listeners
<1> DEFINE n == Len(events)
           k == Len(listeners)
<1>1. listeners \in Seq(Get) /\ 0 \in 0..MaxVersion /\ DOMAIN listeners = 1..k /\ k \in Nat
  BY ListenersTyped, Bounds
<1>2. /\ events' \in Seq(Event) /\ Len(events') = n + k
      /\ \A i \in 1..n : events'[i] = events[i]
      /\ \A i \in 1..k : events'[n + i] = [get |-> listeners[i], kind |-> "error", doc |-> 0]
  BY <1>1, RaiseAdds
<1>3. n \in Nat /\ DOMAIN events = 1..n /\ DOMAIN events' = 1..(n + k)
  <2>1. events \in Seq(Event)
    BY DEF TypeOK
  <2> QED BY <2>1, <1>2, LenProperties
<1> HIDE DEF n, k
<1>4. /\ \A i \in 1..(n + k) : i \in 1..n \/ (i - n \in 1..k /\ n + (i - n) = i /\ i > n)
      /\ \A i \in 1..k : n + i \in 1..(n + k)
      /\ 1..n \subseteq 1..(n + k)
  BY <1>1, <1>3
<1>5. ASSUME NEW i \in 1..(n + k), i \notin 1..n
      PROVE  /\ events'[i].kind = "error" /\ events'[i].get = listeners[i - n]
             /\ i - n \in 1..k /\ events'[i].get \in Listeners
  <2>1. i - n \in 1..k /\ n + (i - n) = i
    BY <1>4, <1>5
  <2>2. events'[i] = [get |-> listeners[i - n], kind |-> "error", doc |-> 0]
    BY <1>2, <2>1
  <2>3. listeners[i - n] \in Listeners
    BY <1>1, <2>1 DEF Listeners, ToSet
  <2> QED BY <2>1, <2>2, <2>3
<1>6. \A g : HasEvent(g)' => HasEvent(g) \/ g \in Listeners
  BY <1>2, <1>3, <1>5 DEF HasEvent, Events, ToSet
<1>7. \A g : HasError(g)' => HasError(g) \/ g \in Listeners
  BY <1>2, <1>3, <1>5 DEF HasError, Events, ToSet
<1>8. \A g : HasError(g) => HasError(g)'
  BY <1>2, <1>3, <1>4 DEF HasError, Events, ToSet
<1>9. ASSUME NEW g \in Listeners PROVE HasError(g)'
  <2>1. PICK i \in 1..k : g = listeners[i]
    BY <1>1 DEF Listeners, ToSet
  <2>2. /\ n + i \in DOMAIN events'
        /\ events'[n + i] = [get |-> listeners[i], kind |-> "error", doc |-> 0]
    BY <1>2, <1>3, <1>4
  <2>3. events'[n + i].get = g /\ events'[n + i].kind = "error"
    BY <2>1, <2>2
  <2> QED BY <2>2, <2>3 DEF HasError, Events, ToSet
<1>10. ErrorsLast'
  <2>1. SUFFICES ASSUME NEW i \in 1..(n + k), NEW j \in 1..(n + k), i < j,
                        events'[i].kind = "error"
                 PROVE  events'[j].get # events'[i].get
    BY <1>3 DEF ErrorsLast
  <2>2. CASE i \in 1..n /\ j \in 1..n
    BY <1>2, <1>3, <2>1, <2>2 DEF ErrorsLast
  <2>3. CASE i \in 1..n /\ j \notin 1..n
    <3>1. events'[j].get \in Listeners
      BY <1>5, <2>3
    <3>2. HasError(events[i].get) /\ events'[i] = events[i]
      BY <1>2, <1>3, <2>1, <2>3 DEF HasError, Events, ToSet
    <3> QED BY <3>1, <3>2
  <2>4. CASE i \notin 1..n
    <3>1. j \notin 1..n
      BY <1>3, <2>1, <2>4
    <3>2. /\ events'[i].get = listeners[i - n] /\ i - n \in 1..k
          /\ events'[j].get = listeners[j - n] /\ j - n \in 1..k
      BY <1>5, <2>4, <3>1
    <3>3. i - n # j - n
      BY <1>3, <2>1
    <3> QED BY <1>1, <3>2, <3>3 DEF IsInjective
  <2> QED BY <2>2, <2>3, <2>4
<1> QED BY <1>6, <1>7, <1>8, <1>9, <1>10

\* The first event is run.
LEMMA RunEvents ==
  ASSUME TypeOK, events # <<>>, events' = Tail(events), ErrorsLast,
         NEW h, h = Head(events).get
  PROVE  /\ Head(events) \in Event /\ h \in Get /\ HasEvent(h) /\ ErrorsLast'
         /\ Head(events).kind = "error" => HasError(h) /\ ~HasEvent(h)'
         /\ \A g : HasEvent(g)' => HasEvent(g)
         /\ \A g : HasError(g)' => HasError(g)
         /\ \A g : g # h => (HasError(g) => HasError(g)')
<1> DEFINE n == Len(Tail(events))
<1>0. events \in Seq(Event)
  BY DEF TypeOK
<1>1. /\ Tail(events) \in Seq(Event) /\ Head(events) \in Events /\ Head(events) = events[1]
      /\ Events' \subseteq Events /\ Events = Events' \cup {Head(events)}
  BY <1>0, TailSet DEF Events
<1>2. Head(events) \in Event /\ h \in Get
  <2>1. Head(events) \in Event
    BY <1>0, HeadTailProperties
  <2> QED BY <2>1 DEF Event
<1>3. /\ n \in Nat /\ Len(events) = n + 1
      /\ \A i \in 1..n : events'[i] = events[i + 1]
      /\ DOMAIN events = 1..(n + 1) /\ DOMAIN events' = 1..n
  <2>1. Len(events) \in Nat \ {0} /\ Len(Tail(events)) = Len(events) - 1
        /\ \A i \in 1..Len(Tail(events)) : Tail(events)[i] = events[i + 1]
    BY <1>0, HeadTailProperties, LenProperties, EmptySeq
  <2> QED BY <1>0, <1>1, <2>1, LenProperties
<1> HIDE DEF n
<1>4. /\ \A i \in 1..n : i + 1 \in 1..(n + 1) /\ 1 < i + 1
      /\ \A i, j \in 1..n : i < j => i + 1 < j + 1
      /\ 1 \in 1..(n + 1)
  BY <1>3
<1>5. ErrorsLast'
  BY <1>3, <1>4 DEF ErrorsLast
<1>6. ASSUME Head(events).kind = "error" PROVE ~HasEvent(h)'
  <2>1. \A i \in 1..n : events'[i].get # h
    BY <1>1, <1>3, <1>4, <1>6 DEF ErrorsLast
  <2>2. SUFFICES ASSUME NEW e \in Events', e.get = h PROVE FALSE
    BY DEF HasEvent
  <2>3. PICK i \in 1..n : e = events'[i]
    BY <1>3 DEF Events, ToSet
  <2> QED BY <2>1, <2>2, <2>3
<1>7. HasEvent(h)
  BY <1>1 DEF HasEvent
<1>8. Head(events).kind = "error" => HasError(h)
  BY <1>1 DEF HasError
<1>9. /\ \A g : HasEvent(g)' => HasEvent(g)
      /\ \A g : HasError(g)' => HasError(g)
  BY <1>1 DEF HasEvent, HasError
<1>10. \A g : g # h => (HasError(g) => HasError(g)')
  BY <1>1 DEF HasError
<1> QED BY <1>2, <1>5, <1>6, <1>7, <1>8, <1>9, <1>10


-----------------------------------------------------------------------------
(* The calls, step by step.                                                 *)

LEMMA TaskNames ==
  \A g, h : /\ ListenTask(g) # RemoveTask(h)
            /\ ListenTask(g) = ListenTask(h) => g = h
            /\ RemoveTask(g) = RemoveTask(h) => g = h
<1> SUFFICES ASSUME NEW g, NEW h
             PROVE  /\ ListenTask(g) # RemoveTask(h)
                    /\ ListenTask(g) = ListenTask(h) => g = h
                    /\ RemoveTask(g) = RemoveTask(h) => g = h
  OBVIOUS
<1>1. /\ ListenTask(g).kind = "listen" /\ ListenTask(g).get = g
      /\ ListenTask(h).kind = "listen" /\ ListenTask(h).get = h
      /\ RemoveTask(g).kind = "remove" /\ RemoveTask(g).get = g
      /\ RemoveTask(h).kind = "remove" /\ RemoveTask(h).get = h
  BY DEF ListenTask, RemoveTask
<1> QED BY <1>1

LEMMA AttendedInit == Init => Attended
<1> SUFFICES ASSUME Init PROVE Attended
  OBVIOUS
<1>0. /\ asked = {} /\ tasks = <<>> /\ events = <<>> /\ muted = {} /\ listeners = <<>>
      /\ \A g \in Get : answers[g] = 0
  BY DEF Init
<1>1. DOMAIN <<>> = {} /\ 0 <= 1
  OBVIOUS
<1>2. Tasks = {} /\ Events = {} /\ Listeners = {}
  BY <1>0, <1>1 DEF Tasks, Events, Listeners, ToSet
<1>3. IsInjective(tasks) /\ IsInjective(listeners) /\ ErrorsLast
  BY <1>0, <1>1 DEF IsInjective, ErrorsLast
<1>4. ASSUME NEW g \in Get PROVE Held(g)
  BY <1>0, <1>1, <1>2 DEF Held, Unasked, Untried, MutedIsAnswered, ErrorEnds, AnsweredWithError,
                          Pending, HasEvent, HasError
<1> QED BY <1>3, <1>4 DEF Attended

\* What has to be shown of a step, once the queues and histories are known.
LEMMA AttendedSame ==
  ASSUME Attended, UNCHANGED <<asked, tasks, muted, answers, listeners, events>>
  PROVE  Attended'
<1>1. Tasks' = Tasks /\ Events' = Events /\ Listeners' = Listeners
  BY DEF Tasks, Events, Listeners
<1>2. ASSUME NEW g \in Get PROVE Held(g)'
  <2>1. Held(g) /\ (HasEvent(g)' <=> HasEvent(g)) /\ (HasError(g)' <=> HasError(g))
    BY <1>1 DEF Attended, HasEvent, HasError
  <2> QED BY <1>1, <2>1 DEF Held, Unasked, Untried, MutedIsAnswered, ErrorEnds,
                            AnsweredWithError, Pending
<1> QED BY <1>2 DEF Attended, ErrorsLast

\* The listeners, who stay, are told of something that is not an error.
LEMMA AttendedTold ==
  ASSUME TypeOK, Attended, UNCHANGED <<calls, listeners>>, Tells(Listeners)
  PROVE  Attended'
<1>1. UNCHANGED <<asked, tasks, muted, answers>> /\ Tasks' = Tasks /\ Listeners' = Listeners
  BY DEF calls, Tasks, Listeners
<1>2. Listeners \subseteq Get
  BY ListenersTyped
<1>3. /\ ErrorsLast'
      /\ \A g : HasEvent(g)' => HasEvent(g) \/ g \in Listeners
      /\ \A g : HasError(g)' <=> HasError(g)
  <2>1. ErrorsLast /\ \A g \in Listeners : ~HasError(g)
    BY <1>2 DEF Attended, Held, ErrorEnds
  <2> QED BY <2>1, ToldEvents
<1>4. ASSUME NEW g \in Get PROVE Held(g)'
  <2>1. /\ Held(g) /\ (HasEvent(g)' => HasEvent(g) \/ g \in Listeners)
        /\ HasError(g)' <=> HasError(g)
    BY <1>3 DEF Attended
  <2> QED BY <1>1, <2>1 DEF Held, Unasked, Untried, MutedIsAnswered, ErrorEnds,
                            AnsweredWithError, Pending
<1>5. IsInjective(tasks)' /\ IsInjective(listeners)'
  BY <1>1 DEF Attended
<1> QED BY <1>3, <1>4, <1>5 DEF Attended

LEMMA AttendedListen ==
  ASSUME TypeOK, Attended, Listen
  PROVE  Attended'
<1>0. NextTask("listen") /\ listeners' = Append(listeners, Subject) /\ Tells({Subject})
  BY ListenFacts
<1>1. PICK s \in Get : s = Subject
  BY <1>0, TaskTaken
<1>2. /\ UNCHANGED <<asked, muted, answers>> /\ tasks # <<>> /\ tasks' = Tail(tasks)
      /\ Head(tasks) = ListenTask(s) /\ tasks \in Seq(Task)
  BY <1>0, <1>1, TaskTaken DEF NextTask, ListenTask
<1>3. /\ ListenTask(s) \in Tasks /\ ListenTask(s) \notin Tasks' /\ IsInjective(tasks')
      /\ Tasks' \subseteq Tasks /\ Tasks = Tasks' \cup {ListenTask(s)}
  BY <1>2, TailSet DEF Attended, Tasks
<1>4. answers[s] = 0 /\ s \notin muted /\ s \notin Listeners /\ ~HasEvent(s) /\ s \in asked
  BY <1>1, <1>3 DEF Attended, Held, Untried, Unasked
<1>5. Listeners' = Listeners \cup {s} /\ IsInjective(listeners')
  <2>1. listeners \in Seq(Get) /\ listeners' = Append(listeners, s)
    BY <1>0, <1>1, ListenersTyped
  <2> QED BY <1>1, <1>4, <2>1, AppendSet DEF Attended, Listeners
<1>6. /\ ErrorsLast'
      /\ \A g : HasEvent(g)' => HasEvent(g) \/ g = s
      /\ \A g : HasError(g)' <=> HasError(g)
  <2>1. ~HasError(s)
    BY <1>4 DEF HasEvent, HasError
  <2>2. Tells({s}) /\ ErrorsLast /\ \A g \in {s} : ~HasError(g)
    BY <1>0, <1>1, <2>1 DEF Attended
  <2> QED BY <2>2, ToldEvents
<1>7. ASSUME NEW g \in Get PROVE Held(g)'
  <2>1. /\ Held(g) /\ (HasEvent(g)' => HasEvent(g) \/ g = s)
        /\ HasError(g)' <=> HasError(g)
        /\ ListenTask(g) \in Tasks' <=> ListenTask(g) \in Tasks /\ g # s
        /\ RemoveTask(g) \in Tasks' <=> RemoveTask(g) \in Tasks
    BY <1>3, <1>6, TaskNames DEF Attended
  <2>2. ~HasError(s)
    BY <1>4 DEF HasEvent, HasError
  <2>3. Unasked(g)' /\ Untried(g)'
    BY <1>2, <1>4, <1>5, <2>1 DEF Held, Unasked, Untried
  <2>4. MutedIsAnswered(g)' /\ ErrorEnds(g)'
    BY <1>2, <1>4, <1>5, <2>1, <2>2 DEF Held, MutedIsAnswered, ErrorEnds
  <2>5. AnsweredWithError(g)'
    BY <1>2, <1>4, <1>5, <2>1 DEF Held, AnsweredWithError
  <2>6. Pending(g)' /\ answers'[g] <= 1
    BY <1>2, <1>5, <2>1 DEF Held, Pending
  <2> QED BY <2>3, <2>4, <2>5, <2>6 DEF Held
<1> QED BY <1>3, <1>5, <1>6, <1>7 DEF Attended

LEMMA AttendedRemove ==
  ASSUME TypeOK, Attended, RemoveListener \/ RemoveLastListener
  PROVE  Attended'
<1>0. NextTask("remove") /\ UNCHANGED events
  BY RemoveFacts, RemoveLastFacts DEF view, RaiseNothing
<1>1. PICK s \in Get : s = Subject
  BY <1>0, TaskTaken
<1>2. /\ UNCHANGED <<asked, muted, answers>> /\ tasks # <<>> /\ tasks' = Tail(tasks)
      /\ Head(tasks) = RemoveTask(s) /\ tasks \in Seq(Task)
  BY <1>0, <1>1, TaskTaken DEF NextTask, RemoveTask
<1>3. /\ RemoveTask(s) \in Tasks /\ RemoveTask(s) \notin Tasks' /\ IsInjective(tasks')
      /\ Tasks' \subseteq Tasks /\ Tasks = Tasks' \cup {RemoveTask(s)}
  BY <1>2, TailSet DEF Attended, Tasks
<1>4. s \in muted /\ answers[s] = 1
  BY <1>1, <1>3 DEF Attended, Held, MutedIsAnswered
<1>5. /\ Listeners' \subseteq Listeners /\ Listeners \ {s} \subseteq Listeners'
      /\ s \notin Listeners' /\ IsInjective(listeners')
  <2>1. CASE RemoveListener
    BY <1>1, <2>1, RemoveFacts DEF Attended
  <2>2. CASE RemoveLastListener
    <3>1. listeners = <<s>> /\ listeners' = <<>>
      BY <1>1, <2>2, RemoveLastFacts
    <3>2. DOMAIN <<>> = {} /\ DOMAIN <<s>> = {1} /\ <<s>>[1] = s
      OBVIOUS
    <3>3. Listeners = {s} /\ Listeners' = {}
      BY <3>1, <3>2 DEF Listeners, ToSet
    <3> QED BY <3>1, <3>2, <3>3 DEF IsInjective
  <2> QED BY <2>1, <2>2
<1>6. /\ ErrorsLast' /\ \A g : (HasEvent(g)' <=> HasEvent(g)) /\ (HasError(g)' <=> HasError(g))
  BY <1>0 DEF Attended, ErrorsLast, HasEvent, HasError, Events
<1>7. ASSUME NEW g \in Get PROVE Held(g)'
  <2>1. /\ Held(g) /\ (HasEvent(g)' <=> HasEvent(g)) /\ (HasError(g)' <=> HasError(g))
        /\ ListenTask(g) \in Tasks' <=> ListenTask(g) \in Tasks
        /\ RemoveTask(g) \in Tasks' <=> RemoveTask(g) \in Tasks /\ g # s
    BY <1>3, <1>6, TaskNames DEF Attended
  <2>2. /\ g \in Listeners' => g \in Listeners /\ g # s
        /\ g \in Listeners /\ g # s => g \in Listeners'
    BY <1>5
  <2>3. Unasked(g)' /\ Untried(g)' /\ ErrorEnds(g)' /\ AnsweredWithError(g)'
    BY <1>2, <2>1, <2>2 DEF Held, Unasked, Untried, ErrorEnds, AnsweredWithError
  <2>4. MutedIsAnswered(g)'
    BY <1>2, <2>1, <2>2 DEF Held, MutedIsAnswered
  <2>5. Pending(g)' /\ answers'[g] <= 1
    BY <1>2, <1>4, <2>1, <2>2 DEF Held, Pending
  <2> QED BY <2>3, <2>4, <2>5 DEF Held
<1> QED BY <1>3, <1>5, <1>6, <1>7 DEF Attended

LEMMA AttendedDenied ==
  ASSUME TypeOK, Attended, UNCHANGED calls, Raise(listeners, "error", 0), listeners' = <<>>
  PROVE  Attended'
<1>1. UNCHANGED <<asked, tasks, muted, answers>> /\ Tasks' = Tasks
  BY DEF calls, Tasks
<1>2. Listeners' = {} /\ IsInjective(listeners')
  <2>1. DOMAIN <<>> = {}
    OBVIOUS
  <2> QED BY <2>1 DEF Listeners, ToSet, IsInjective
<1>3. Listeners \subseteq Get
  BY ListenersTyped
<1>4. /\ ErrorsLast'
      /\ \A g : HasEvent(g)' => HasEvent(g) \/ g \in Listeners
      /\ \A g : HasError(g)' <=> HasError(g) \/ g \in Listeners
  <2>1. ErrorsLast /\ IsInjective(listeners) /\ \A g \in Listeners : ~HasError(g)
    BY <1>3 DEF Attended, Held, ErrorEnds
  <2> QED BY <2>1, DeniedEvents
<1>5. ASSUME NEW g \in Get PROVE Held(g)'
  <2>1. /\ Held(g) /\ (HasEvent(g)' => HasEvent(g) \/ g \in Listeners)
        /\ HasError(g)' <=> HasError(g) \/ g \in Listeners
    BY <1>4 DEF Attended
  <2> QED BY <1>1, <1>2, <2>1 DEF Held, Unasked, Untried, MutedIsAnswered, ErrorEnds,
                                  AnsweredWithError, Pending
<1> QED BY <1>1, <1>2, <1>4, <1>5 DEF Attended


LEMMA AttendedGet ==
  ASSUME TypeOK, Attended, GetDocument
  PROVE  Attended'
<1>1. PICK s \in Get \ asked :
          /\ asked' = asked \cup {s} /\ tasks' = Append(tasks, ListenTask(s))
          /\ UNCHANGED <<muted, answers, listeners, events>>
  BY DEF GetDocument, ListenTask, view
<1>2. Listeners' = Listeners /\ Events' = Events
  BY <1>1 DEF Listeners, Events
<1>3. /\ answers[s] = 0 /\ s \notin muted /\ s \notin Listeners /\ ~HasEvent(s)
      /\ ListenTask(s) \notin Tasks
  BY <1>1 DEF Attended, Held, Unasked
<1>4. Tasks' = Tasks \cup {ListenTask(s)} /\ IsInjective(tasks')
  <2>1. tasks \in Seq(Task) /\ ListenTask(s) \in Task
    BY <1>1 DEF TypeOK, Task, ListenTask
  <2> QED BY <1>1, <1>3, <2>1, AppendSet DEF Attended, Tasks
<1>5. ErrorsLast' /\ IsInjective(listeners')
  BY <1>1 DEF Attended, ErrorsLast
<1>6. ASSUME NEW g \in Get PROVE Held(g)'
  <2>1. /\ Held(g) /\ (HasEvent(g)' <=> HasEvent(g)) /\ (HasError(g)' <=> HasError(g))
        /\ ListenTask(g) \in Tasks' <=> ListenTask(g) \in Tasks \/ g = s
        /\ RemoveTask(g) \in Tasks' <=> RemoveTask(g) \in Tasks
    BY <1>2, <1>4, TaskNames DEF Attended, HasEvent, HasError
  <2>2. Unasked(g)' /\ Untried(g)'
    BY <1>1, <1>2, <1>3, <2>1 DEF Held, Unasked, Untried
  <2>3. MutedIsAnswered(g)' /\ ErrorEnds(g)' /\ AnsweredWithError(g)'
    BY <1>1, <1>2, <2>1 DEF Held, MutedIsAnswered, ErrorEnds, AnsweredWithError
  <2>4. Pending(g)' /\ answers'[g] <= 1
    BY <1>1, <1>2, <2>1 DEF Held, Pending
  <2> QED BY <2>2, <2>3, <2>4 DEF Held
<1> QED BY <1>4, <1>5, <1>6 DEF Attended

LEMMA AttendedMuted ==
  ASSUME TypeOK, Attended, RunMuted
  PROVE  Attended'
<1>1. /\ events # <<>> /\ Head(events).get \in muted /\ events' = Tail(events)
      /\ UNCHANGED <<asked, tasks, muted, answers, listeners>>
  BY DEF RunMuted, calls
<1>2. PICK h : h = Head(events).get
  OBVIOUS
<1>3. Tasks' = Tasks /\ Listeners' = Listeners
  BY <1>1 DEF Tasks, Listeners
<1>4. /\ ErrorsLast' /\ h \in Get
      /\ \A g : HasEvent(g)' => HasEvent(g)
      /\ \A g : HasError(g)' => HasError(g)
      /\ \A g : g # h => (HasError(g) => HasError(g)')
  BY <1>1, <1>2, RunEvents DEF Attended
<1>5. answers[h] = 1
  BY <1>1, <1>2, <1>4 DEF Attended, Held, MutedIsAnswered
<1>6. ASSUME NEW g \in Get PROVE Held(g)'
  <2>1. /\ Held(g) /\ (HasEvent(g)' => HasEvent(g)) /\ (HasError(g)' => HasError(g))
        /\ g # h => (HasError(g) => HasError(g)')
    BY <1>4 DEF Attended
  <2>2. Unasked(g)' /\ Untried(g)'
    BY <1>1, <1>3, <2>1 DEF Held, Unasked, Untried
  <2>3. MutedIsAnswered(g)' /\ ErrorEnds(g)' /\ AnsweredWithError(g)'
    BY <1>1, <1>3, <2>1 DEF Held, MutedIsAnswered, ErrorEnds, AnsweredWithError
  <2>4. Pending(g)' /\ answers'[g] <= 1
    BY <1>1, <1>3, <1>5, <2>1 DEF Held, Pending
  <2> QED BY <2>2, <2>3, <2>4 DEF Held
<1>7. IsInjective(tasks') /\ IsInjective(listeners')
  BY <1>1 DEF Attended
<1> QED BY <1>4, <1>6, <1>7 DEF Attended

\* The call whose event is run, and not muted, has no answer yet.
LEMMA Unanswered ==
  ASSUME TypeOK, Attended, NEW h \in Get, HasEvent(h), h \notin muted
  PROVE  /\ answers[h] = 0 /\ h \in asked /\ ListenTask(h) \notin Tasks
         /\ RemoveTask(h) \notin Tasks
<1>1. Held(h) /\ answers[h] \in Nat
  BY DEF Attended, TypeOK
<1>2. answers[h] = 0
  BY <1>1 DEF Held, AnsweredWithError
<1> QED BY <1>1, <1>2 DEF Held, Unasked, Untried, MutedIsAnswered

LEMMA Completed ==
  ASSUME TypeOK, NEW h \in Get, answers[h] = 0, Complete(h)
  PROVE  answers'[h] = 1 /\ \A g \in Get : g # h => answers'[g] = answers[g]
BY DEF TypeOK, Complete

LEMMA AttendedSnapshot ==
  ASSUME TypeOK, Attended, RunSnapshot
  PROVE  Attended'
<1>1. PICK h : h = Head(events).get
  OBVIOUS
<1>2. /\ events # <<>> /\ h \notin muted /\ Head(events).kind # "error"
      /\ events' = Tail(events) /\ muted' = muted \cup {h}
      /\ tasks' = Append(tasks, RemoveTask(h)) /\ Complete(h)
      /\ UNCHANGED <<asked, listeners>>
  BY <1>1 DEF RunSnapshot, Mute, RemoveTask
<1>3. /\ ErrorsLast' /\ h \in Get /\ HasEvent(h)
      /\ \A g : HasEvent(g)' => HasEvent(g)
      /\ \A g : HasError(g)' => HasError(g)
      /\ \A g : g # h => (HasError(g) => HasError(g)')
  BY <1>1, <1>2, RunEvents DEF Attended
<1>4. /\ answers[h] = 0 /\ h \in asked /\ ListenTask(h) \notin Tasks
      /\ RemoveTask(h) \notin Tasks
  BY <1>2, <1>3, Unanswered
<1>5. answers'[h] = 1 /\ \A g \in Get : g # h => answers'[g] = answers[g]
  BY <1>2, <1>3, <1>4, Completed
<1>6. Tasks' = Tasks \cup {RemoveTask(h)} /\ IsInjective(tasks')
  <2>1. tasks \in Seq(Task) /\ RemoveTask(h) \in Task
    BY <1>3 DEF TypeOK, Task, RemoveTask
  <2> QED BY <1>2, <1>4, <2>1, AppendSet DEF Attended, Tasks
<1>7. Listeners' = Listeners /\ IsInjective(listeners')
  BY <1>2 DEF Attended, Listeners
<1>8. ASSUME NEW g \in Get PROVE Held(g)'
  <2>1. /\ Held(g) /\ (HasEvent(g)' => HasEvent(g)) /\ (HasError(g)' => HasError(g))
        /\ g # h => (HasError(g) => HasError(g)')
        /\ ListenTask(g) \in Tasks' <=> ListenTask(g) \in Tasks
        /\ RemoveTask(g) \in Tasks' <=> RemoveTask(g) \in Tasks \/ g = h
        /\ g \in muted' <=> g \in muted \/ g = h
    BY <1>2, <1>3, <1>6, TaskNames DEF Attended
  <2>2. CASE g = h
    <3>1. Unasked(g)' /\ Untried(g)'
      BY <1>2, <1>4, <2>1, <2>2 DEF Unasked, Untried
    <3>2. MutedIsAnswered(g)' /\ ErrorEnds(g)' /\ AnsweredWithError(g)'
      BY <1>5, <1>7, <2>1, <2>2 DEF Held, MutedIsAnswered, ErrorEnds, AnsweredWithError
    <3>3. Pending(g)' /\ answers'[g] <= 1
      BY <1>5, <2>2 DEF Pending
    <3> QED BY <3>1, <3>2, <3>3 DEF Held
  <2>3. CASE g # h
    <3>1. answers'[g] = answers[g]
      BY <1>5, <2>3
    <3>2. Unasked(g)' /\ Untried(g)'
      BY <1>2, <1>7, <2>1, <2>3, <3>1 DEF Held, Unasked, Untried
    <3>3. MutedIsAnswered(g)' /\ ErrorEnds(g)' /\ AnsweredWithError(g)'
      BY <1>7, <2>1, <2>3, <3>1 DEF Held, MutedIsAnswered, ErrorEnds, AnsweredWithError
    <3>4. Pending(g)' /\ answers'[g] <= 1
      BY <1>2, <1>7, <2>1, <2>3, <3>1 DEF Held, Pending
    <3> QED BY <3>2, <3>3, <3>4 DEF Held
  <2> QED BY <2>2, <2>3
<1> QED BY <1>3, <1>6, <1>7, <1>8 DEF Attended

LEMMA AttendedError ==
  ASSUME TypeOK, Attended, RunError
  PROVE  Attended'
<1>1. PICK h : h = Head(events).get
  OBVIOUS
<1>2. /\ events # <<>> /\ h \notin muted /\ Head(events).kind = "error"
      /\ events' = Tail(events) /\ Complete(h)
      /\ UNCHANGED <<asked, tasks, muted, listeners>>
  BY <1>1 DEF RunError
<1>3. /\ ErrorsLast' /\ h \in Get /\ HasEvent(h) /\ HasError(h) /\ ~HasEvent(h)'
      /\ \A g : HasEvent(g)' => HasEvent(g)
      /\ \A g : HasError(g)' => HasError(g)
      /\ \A g : g # h => (HasError(g) => HasError(g)')
  BY <1>1, <1>2, RunEvents DEF Attended
<1>4. /\ answers[h] = 0 /\ h \in asked /\ ListenTask(h) \notin Tasks
      /\ RemoveTask(h) \notin Tasks /\ h \notin Listeners
  <2>1. h \notin Listeners
    BY <1>3 DEF Attended, Held, ErrorEnds
  <2> QED BY <1>2, <1>3, <2>1, Unanswered
<1>5. answers'[h] = 1 /\ \A g \in Get : g # h => answers'[g] = answers[g]
  BY <1>2, <1>3, <1>4, Completed
<1>6. Tasks' = Tasks /\ Listeners' = Listeners /\ IsInjective(tasks') /\ IsInjective(listeners')
  BY <1>2 DEF Attended, Tasks, Listeners
<1>7. ASSUME NEW g \in Get PROVE Held(g)'
  <2>1. /\ Held(g) /\ (HasEvent(g)' => HasEvent(g)) /\ (HasError(g)' => HasError(g))
        /\ g # h => (HasError(g) => HasError(g)')
    BY <1>3 DEF Attended
  <2>2. CASE g = h
    <3>1. Unasked(g)' /\ Untried(g)'
      BY <1>2, <1>4, <1>6, <2>1, <2>2 DEF Unasked, Untried
    <3>2. MutedIsAnswered(g)' /\ ErrorEnds(g)' /\ AnsweredWithError(g)'
      BY <1>2, <1>3, <1>4, <1>6, <2>1, <2>2
         DEF Held, MutedIsAnswered, ErrorEnds, AnsweredWithError
    <3>3. Pending(g)' /\ answers'[g] <= 1
      BY <1>5, <2>2 DEF Pending
    <3> QED BY <3>1, <3>2, <3>3 DEF Held
  <2>3. CASE g # h
    <3>1. answers'[g] = answers[g]
      BY <1>5, <2>3
    <3>2. Unasked(g)' /\ Untried(g)'
      BY <1>2, <1>6, <2>1, <2>3, <3>1 DEF Held, Unasked, Untried
    <3>3. MutedIsAnswered(g)' /\ ErrorEnds(g)' /\ AnsweredWithError(g)'
      BY <1>2, <1>6, <2>1, <2>3, <3>1
         DEF Held, MutedIsAnswered, ErrorEnds, AnsweredWithError
    <3>4. Pending(g)' /\ answers'[g] <= 1
      BY <1>2, <1>6, <2>1, <2>3, <3>1 DEF Held, Pending
    <3> QED BY <3>2, <3>3, <3>4 DEF Held
  <2> QED BY <2>2, <2>3
<1> QED BY <1>3, <1>6, <1>7 DEF Attended

LEMMA AttendedStep == TypeOK /\ Attended /\ [Next]_vars => Attended'
<1> SUFFICES ASSUME TypeOK, Attended, [Next]_vars PROVE Attended'
  OBVIOUS
<1>1. CASE UNCHANGED vars \/ Server \/ Commit
  <2>1. UNCHANGED <<asked, tasks, muted, answers, listeners, events>>
    <3>1. CASE UNCHANGED vars
      BY <3>1 DEF vars, calls, view
    <3>2. CASE Server \/ Commit
      BY <3>2, ServerStep DEF calls, view
    <3> QED BY <1>1, <3>1, <3>2
  <2> QED BY <2>1, AttendedSame
<1>2. CASE StreamMoves
  <2>1. UNCHANGED <<calls, listeners>> /\ Tells(Listeners)
    BY <1>2, StreamFacts
  <2> QED BY <2>1, AttendedTold
<1>3. CASE ReadsMessage
  <2>1. \/ UNCHANGED <<calls, listeners>> /\ Tells(Listeners)
        \/ UNCHANGED <<calls, listeners>> /\ RaiseNothing
        \/ UNCHANGED calls /\ Raise(listeners, "error", 0) /\ listeners' = <<>>
    BY <1>3, ReadFacts
  <2>2. RaiseNothing => Tells(Listeners)
    BY DEF Tells
  <2> QED BY <2>1, <2>2, AttendedTold, AttendedDenied
<1>4. CASE GetDocument \/ Main
  BY <1>4, AttendedGet, AttendedMuted, AttendedSnapshot, AttendedError DEF Main
<1>5. CASE Listen \/ RemoveListener \/ RemoveLastListener
  BY <1>5, AttendedListen, AttendedRemove
<1>6. CASE Next
  <2>1. \/ GetDocument \/ Main \/ Listen \/ RemoveListener \/ RemoveLastListener
        \/ StreamMoves \/ ReadsMessage \/ Server \/ Commit
    BY <1>6 DEF Next, Worker, Connection, Listen, StreamMoves, ReadsMessage
  <2> QED BY <2>1, <1>1, <1>2, <1>3, <1>4, <1>5
<1> QED BY <1>1, <1>6

\* The completion of a getDocument is called at most once, whatever snapshots and errors
\* its listener is given before the worker queue removes it, and once both queues are
\* empty exactly the calls without an answer have a listener.
THEOREM CallsEndOnce == Spec => []CallsAreHeldOnce
<1>1. Init => TypeOK /\ Attended
  BY TypeInit, AttendedInit
<1>2. TypeOK /\ Attended /\ [Next]_vars => (TypeOK /\ Attended)'
  BY TypeStep, AttendedStep
<1>3. TypeOK /\ Attended => CallsAreHeldOnce
  <2>1. SUFFICES ASSUME TypeOK, Attended PROVE AnsweredOnce /\ ListenersAreWaiting
    BY DEF CallsAreHeldOnce
  <2>2. AnsweredOnce
    BY <2>1 DEF Attended, Held, AnsweredOnce
  <2>3. ListenersAreWaiting
    <3>1. SUFFICES ASSUME tasks = <<>>, events = <<>>, NEW g \in Get
                   PROVE  Contains(listeners, g) <=> g \in asked /\ answers[g] = 0
      BY DEF ListenersAreWaiting
    <3>2. DOMAIN <<>> = {}
      OBVIOUS
    <3>3. ListenTask(g) \notin Tasks /\ RemoveTask(g) \notin Tasks /\ ~HasError(g)
      BY <3>1, <3>2 DEF Tasks, Events, HasError, ToSet
    <3>4. Contains(listeners, g) <=> g \in Listeners
      BY <2>1, ListenersTyped DEF Contains, Listeners, ToSet
    <3>5. Held(g) /\ answers[g] \in Nat
      BY <2>1 DEF Attended, TypeOK
    <3>6. g \in Listeners => g \in asked /\ answers[g] = 0
      BY <3>3, <3>5 DEF Held, Unasked, MutedIsAnswered, AnsweredWithError
    <3>7. g \in asked /\ answers[g] = 0 => g \in Listeners
      BY <3>3, <3>5 DEF Held, Pending
    <3> QED BY <3>4, <3>6, <3>7
  <2> QED BY <2>2, <2>3
<1> QED BY <1>1, <1>2, <1>3, PTL DEF Spec
-----------------------------------------------------------------------------
(* The wait that nothing ends.                                              *)

\* What it takes for a listener to wait, while nothing is known, without the timer.
UntimedComesLate ==
    TimedWhileTrying /\ ~TimedWhileTrying' => ListenOnStream /\ ~heard

\* A stream that opens, fails or is started again leaves the timer to those who wait.
LEMMA TimedStream ==
  ASSUME Connected, StreamMoves, TimedWhileTrying
  PROVE  TimedWhileTrying'
<1>1. listeners' = listeners
  <2>1. TypeOK
    BY DEF Connected
  <2> QED BY <2>1, StreamFacts
<1>2. CASE StreamOpens \/ BackoffElapses
  BY <1>1, <1>2 DEF StreamOpens, BackoffElapses, view, tracker, TimedWhileTrying
<1>3. CASE StreamFails
  <2>1. \/ listeners # <<>> /\ Retry
        \/ listeners = <<>>
    BY <1>3 DEF StreamFails, CloseWithError
  <2>2. Retry => timer' = TRUE \/ online' = "Offline"
    BY DEF Retry, SetAndBroadcast
  <2> QED BY <1>1, <2>1, <2>2 DEF TimedWhileTrying
<1>4. CASE IdleTimeout
  <2>1. listeners = <<>>
    BY <1>4 DEF IdleTimeout, Connected, IdleOnlyWhenDone
  <2> QED BY <1>1, <2>1 DEF TimedWhileTrying
<1>5. CASE RestartNetwork
  <2>1. timer' = TRUE \/ listeners = <<>>
    BY <1>5 DEF RestartNetwork, StartFresh
  <2> QED BY <1>1, <2>1 DEF TimedWhileTrying
<1>6. CASE OnlineTimeout
  BY <1>6 DEF OnlineTimeout, SetAndBroadcast, TimedWhileTrying
<1> QED BY <1>2, <1>3, <1>4, <1>5, <1>6 DEF StreamMoves

\* The first listener of a stream, or another of the same view.
LEMMA TimedListen ==
  ASSUME Connected, Listen, TimedWhileTrying, ~TimedWhileTrying'
  PROVE  ListenOnStream /\ ~heard
<1>1. CASE ListenAndStart
  BY <1>1 DEF ListenAndStart, TimedWhileTrying
<1>2. CASE ListenOnStream
  <2>1. online' = online
    BY <1>2 DEF ListenOnStream
  <2>2. online = "Unknown"
    BY <2>1 DEF TimedWhileTrying
  <2> QED BY <1>2, <2>2 DEF Connected, OnlineIsHeard
<1>3. CASE ListenToView
  BY <1>3 DEF ListenToView, tracker, TimedWhileTrying
<1> QED BY <1>1, <1>2, <1>3 DEF Listen

LEMMA UntimedStep == Connected /\ [Next]_vars => UntimedComesLate
<1> SUFFICES ASSUME Connected, [Next]_vars, TimedWhileTrying, ~TimedWhileTrying'
             PROVE  ListenOnStream /\ ~heard
  BY DEF UntimedComesLate
<1>0. TypeOK
  BY DEF Connected
<1>1. CASE UNCHANGED vars
  BY <1>1 DEF vars, view, tracker, TimedWhileTrying
<1>2. CASE GetDocument \/ Main
  BY <1>2 DEF GetDocument, Main, RunMuted, RunSnapshot, RunError, view, tracker,
              TimedWhileTrying
<1>3. CASE Listen
  BY <1>3, TimedListen
<1>4. CASE RemoveListener
  BY <1>0, <1>4, RemoveFacts DEF view, tracker, TimedWhileTrying
<1>5. CASE RemoveLastListener
  BY <1>0, <1>5, RemoveLastFacts DEF TimedWhileTrying
<1>6. CASE StreamMoves
  BY <1>6, TimedStream
<1>7. CASE ReadsMessage
  <2>1. online' = "Online"
    BY <1>0, <1>7, ReadFacts
  <2> QED BY <2>1 DEF TimedWhileTrying
<1>8. CASE Server \/ Commit
  BY <1>0, <1>8, ServerStep DEF view, tracker, TimedWhileTrying
<1> QED BY <1>1, <1>2, <1>3, <1>4, <1>5, <1>6, <1>7, <1>8
        DEF Next, Worker, Connection, Listen, StreamMoves, ReadsMessage

\* A call comes to wait without the timer, while nothing is known, in one way only: its
\* listener is the first on a stream that was started for a listener that has gone, and
\* that was never heard from (RemoteStore::Listen finds it started and starts nothing).
\* No failure, restart, message or timeout takes the timer from a call that has it.
THEOREM OnlyALateListenerIsUntimed == Spec => [][UntimedComesLate]_vars
<1> QED BY AlwaysConnected, UntimedStep, PTL DEF Spec
=============================================================================
