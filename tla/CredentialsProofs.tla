------------------------- MODULE CredentialsProofs -------------------------
(***************************************************************************)
(* The safety of Credentials, for any accounts, any calls and any number of *)
(* changes of user and of renewed tokens.                                   *)
(*                                                                         *)
(* News of a user travels through the blocks of the main queue and then     *)
(* through the tasks of the worker queue.  The inductive invariant says of  *)
(* every place in the two queues who will be known as the user when it is   *)
(* reached: the last one named before that place or, if none is, the one    *)
(* SyncEngine has.  A token that will be let through, and a write whose     *)
(* call saw no change, are of the user known at their place.                *)
(***************************************************************************)
EXTENDS Credentials, SequenceTheorems, TLAPS

-----------------------------------------------------------------------------
(* Who is known as the user at a place of a queue.                          *)

\* No entry of s from m to n tells of a user.
NoUser(s, m, n) == \A i \in m..n : s[i].kind # "user"

\* The last of the first n entries of s that tells of a user tells of u.
LastUser(s, n, u) ==
    \E i \in 1..n : s[i].kind = "user" /\ s[i].user = u /\ NoUser(s, i + 1, n)

\* Who is known when the first n entries of s have run, if one of T is before.
KnownAt(s, n, T, u) == LastUser(s, n, u) \/ (NoUser(s, 1, n) /\ u \in T)

\* Who SyncEngine will know when the tasks that wait have run.
Told == {u \in Identity : KnownAt(worker, Len(worker), {current}, u)}

-----------------------------------------------------------------------------
(* The inductive invariant.                                                 *)

MainBlock ==
    [kind : {"user", "token"}, user : Identity, counter : Nat, closes : Nat]
        \cup [kind : {"answer"}, call : Call]

WorkerTask ==
    [kind : {"user", "token"}, user : Identity, counter : Nat, closes : Nat]
        \cup [kind : {"write"}, call : Call]

Types == TypeOK /\ main \in Seq(MainBlock) /\ worker \in Seq(WorkerTask)

\* The user of FIRAuth will be known in the end.
AuthKnown == KnownAt(main, Len(main), Told, auth)

\* In k, the call c was made, for the user u unless there was a change since.
For(k, c, u) == k[c].phase # "idle" /\ (k[c].raced \/ k[c].owner = u)

\* A token whose count is still that of the provider is of the user known where
\* it is, if no news is on its way before it.
FetchesKnown ==
    \A f \in fetches :
        /\ f.counter <= counter
        /\ f.user # Unread /\ f.counter = counter /\ NoUser(main, 1, Len(main)) => f.user \in Told

TokenBlocksKnown ==
    \A i \in 1..Len(main) : main[i].kind = "token" =>
        /\ main[i].counter <= counter
        /\ main[i].counter = counter /\ NoUser(main, 1, i - 1) => main[i].user \in Told

\* An answer is for the user known where it is.
AnswersKnown ==
    \A i \in 1..Len(main) : main[i].kind = "answer" =>
        \E u \in Identity : KnownAt(main, i - 1, Told, u) /\ For(call, main[i].call, u)

TokenTasksKnown ==
    \A i \in 1..Len(worker) : worker[i].kind = "token" =>
        KnownAt(worker, i - 1, {current}, worker[i].user)

WritesKnown ==
    \A i \in 1..Len(worker) : worker[i].kind = "write" =>
        \E u \in Identity :
            KnownAt(worker, i - 1, {current}, u) /\ For(call, worker[i].call, u)

AskedByUser == \A c \in Call : call[c].phase = "asked" => For(call, c, auth)

QueuesKnown == \A u \in Identity : \A i \in 1..Len(queues[u]) : For(call, queues[u][i], u)

RefusedRaced == \A c \in refused : call[c].phase # "idle" /\ call[c].raced

IndInv ==
    /\ Types
    /\ AuthKnown /\ FetchesKnown /\ TokenBlocksKnown /\ AnswersKnown
    /\ TokenTasksKnown /\ WritesKnown
    /\ AskedByUser /\ QueuesKnown /\ RefusedRaced
    /\ StreamIsTheUsers

-----------------------------------------------------------------------------
(* Places of a queue that grows at its end or loses its head.               *)

\* What was said of a place stays true when an entry comes behind it.
LEMMA PlacesBehind ==
  ASSUME NEW S, NEW s \in Seq(S), NEW t \in Seq(S), Len(s) <= Len(t),
         \A i \in 1..Len(s) : t[i] = s[i], NEW n \in 0..Len(s), NEW u
  PROVE  /\ NoUser(t, 1, n) <=> NoUser(s, 1, n)
         /\ LastUser(t, n, u) <=> LastUser(s, n, u)
<1>1. Len(s) \in Nat /\ \A i \in 1..n : i \in 1..Len(s) /\ t[i] = s[i]
  BY LenProperties
<1>2. \A i \in 1..n : \A j \in (i + 1)..n : j \in 1..n
  BY <1>1
<1>3. \A m \in 1..(n + 1) : NoUser(t, m, n) <=> NoUser(s, m, n)
  <2>1. ASSUME NEW m \in 1..(n + 1) PROVE NoUser(t, m, n) <=> NoUser(s, m, n)
    <3>1. \A i \in m..n : i \in 1..n
      BY <1>1
    <3> QED BY <3>1, <1>1 DEF NoUser
  <2> QED BY <2>1
<1>4. \A i \in 1..n : i + 1 \in 1..(n + 1)
  BY <1>1
<1>5. 1 \in 1..(n + 1)
  BY <1>1
<1> QED BY <1>1, <1>3, <1>4, <1>5 DEF LastUser

\* A new entry is the last place: it is the news, or passes on what was known.
LEMMA NewPlace ==
  ASSUME NEW S, NEW s \in Seq(S), NEW e \in S, NEW T
  PROVE  /\ Append(s, e) \in Seq(S) /\ Len(Append(s, e)) = Len(s) + 1
         /\ Append(s, e)[Len(s) + 1] = e
         /\ Len(s) \in Nat /\ \A i \in 1..Len(s) : Append(s, e)[i] = s[i]
         /\ e.kind = "user" =>
               KnownAt(Append(s, e), Len(s) + 1, T, e.user) /\ ~NoUser(Append(s, e), 1, Len(s) + 1)
         /\ e.kind # "user" =>
               /\ \A u : KnownAt(s, Len(s), T, u) => KnownAt(Append(s, e), Len(s) + 1, T, u)
               /\ NoUser(Append(s, e), 1, Len(s) + 1) <=> NoUser(s, 1, Len(s))
         /\ \A n \in 0..Len(s) : \A u : KnownAt(s, n, T, u) => KnownAt(Append(s, e), n, T, u)
         /\ \A n \in 0..Len(s) : NoUser(Append(s, e), 1, n) <=> NoUser(s, 1, n)
<1> DEFINE t == Append(s, e)
<1>1. /\ t \in Seq(S) /\ Len(t) = Len(s) + 1 /\ t[Len(s) + 1] = e
      /\ Len(s) \in Nat /\ \A i \in 1..Len(s) : t[i] = s[i]
  BY AppendProperties, LenProperties
<1> HIDE DEF t
<1>2. ASSUME e.kind = "user" PROVE LastUser(t, Len(t), e.user) /\ ~NoUser(t, 1, Len(t))
  <2>1. Len(t) \in 1..Len(t) /\ t[Len(t)] = e /\ NoUser(t, Len(t) + 1, Len(t))
    BY <1>1 DEF NoUser
  <2> QED BY <2>1, <1>2 DEF LastUser, NoUser
<1>3. ASSUME e.kind # "user", NEW u, LastUser(s, Len(s), u) PROVE LastUser(t, Len(t), u)
  <2>1. PICK i \in 1..Len(s) : s[i].kind = "user" /\ s[i].user = u /\ NoUser(s, i + 1, Len(s))
    BY <1>3 DEF LastUser
  <2>2. i \in 1..Len(t) /\ t[i] = s[i]
    BY <1>1
  <2>3. ASSUME NEW j \in (i + 1)..Len(t) PROVE t[j].kind # "user"
    <3>1. CASE j \in (i + 1)..Len(s)
      <4>1. j \in 1..Len(s)
        BY <3>1, <1>1
      <4> QED BY <4>1, <3>1, <1>1, <2>1 DEF NoUser
    <3>2. CASE j = Len(s) + 1
      BY <3>2, <1>1, <1>3
    <3> QED BY <3>1, <3>2, <1>1
  <2> QED BY <2>1, <2>2, <2>3 DEF LastUser, NoUser
<1>4. ASSUME e.kind # "user" PROVE NoUser(t, 1, Len(t)) <=> NoUser(s, 1, Len(s))
  <2>1. \A j \in 1..Len(t) : j \in 1..Len(s) \/ j = Len(s) + 1
    BY <1>1
  <2>2. \A j \in 1..Len(s) : j \in 1..Len(t)
    BY <1>1
  <2> QED BY <2>1, <2>2, <1>1, <1>4 DEF NoUser
<1>5. ASSUME NEW n \in 0..Len(s), NEW u
      PROVE  /\ NoUser(t, 1, n) <=> NoUser(s, 1, n)
             /\ LastUser(t, n, u) <=> LastUser(s, n, u)
  <2>1. Len(s) <= Len(t)
    BY <1>1
  <2> QED BY <2>1, <1>1, PlacesBehind
<1>6. \A u : e.kind = "user" => KnownAt(t, Len(s) + 1, T, e.user)
  BY <1>1, <1>2 DEF KnownAt
<1>7. ASSUME e.kind # "user", NEW u, KnownAt(s, Len(s), T, u) PROVE KnownAt(t, Len(s) + 1, T, u)
  BY <1>1, <1>3, <1>4, <1>7 DEF KnownAt
<1>8. ASSUME NEW n \in 0..Len(s), NEW u, KnownAt(s, n, T, u) PROVE KnownAt(t, n, T, u)
  BY <1>5, <1>8 DEF KnownAt
<1> QED BY <1>1, <1>2, <1>4, <1>5, <1>6, <1>7, <1>8 DEF t

\* When the head leaves, every place moves up by one.
LEMMA PlacesMoveUp ==
  ASSUME NEW S, NEW s \in Seq(S), s # <<>>, NEW T, NEW R,
         IF Head(s).kind = "user" THEN Head(s).user \in R ELSE T \subseteq R
  PROVE  /\ Tail(s) \in Seq(S) /\ Len(Tail(s)) = Len(s) - 1 /\ Len(s) \in Nat /\ Len(s) >= 1
         /\ Head(s) = s[1] /\ Head(s) \in S
         /\ \A i \in 1..(Len(s) - 1) : Tail(s)[i] = s[i + 1]
         /\ \A n \in 0..(Len(s) - 1) : \A u :
               KnownAt(s, n + 1, T, u) => KnownAt(Tail(s), n, R, u)
         /\ \A n \in 0..(Len(s) - 1) :
               NoUser(s, 1, n + 1) <=> Head(s).kind # "user" /\ NoUser(Tail(s), 1, n)
<1> DEFINE t == Tail(s)
<1>1. /\ t \in Seq(S) /\ Len(t) = Len(s) - 1 /\ Len(s) \in Nat /\ Len(s) >= 1
      /\ Head(s) = s[1] /\ Head(s) \in S
      /\ \A i \in 1..(Len(s) - 1) : t[i] = s[i + 1]
  <2>1. /\ Head(s) \in S /\ t \in Seq(S) /\ Head(s) = s[1] /\ Len(t) = Len(s) - 1
        /\ \A i \in 1..Len(t) : t[i] = s[i + 1]
    BY HeadTailProperties
  <2>2. Len(s) \in Nat /\ Len(s) # 0
    BY LenProperties, EmptySeq
  <2> QED BY <2>1, <2>2
<1> HIDE DEF t
<1>2. ASSUME NEW n \in 0..(Len(s) - 1), NEW m \in 1..(n + 1)
      PROVE  NoUser(t, m, n) <=> NoUser(s, m + 1, n + 1)
  <2>1. ASSUME NoUser(t, m, n), NEW j \in (m + 1)..(n + 1) PROVE s[j].kind # "user"
    <3>1. j - 1 \in m..n /\ j - 1 \in 1..(Len(s) - 1) /\ (j - 1) + 1 = j
      BY <1>1
    <3> QED BY <3>1, <2>1, <1>1 DEF NoUser
  <2>2. ASSUME NoUser(s, m + 1, n + 1), NEW j \in m..n PROVE t[j].kind # "user"
    <3>1. j + 1 \in (m + 1)..(n + 1) /\ j \in 1..(Len(s) - 1)
      BY <1>1
    <3> QED BY <3>1, <2>2, <1>1 DEF NoUser
  <2> QED BY <2>1, <2>2 DEF NoUser
<1>3. ASSUME NEW n \in 0..(Len(s) - 1)
      PROVE  NoUser(s, 1, n + 1) <=> Head(s).kind # "user" /\ NoUser(t, 1, n)
  <2>1. NoUser(t, 1, n) <=> NoUser(s, 2, n + 1)
    <3>1. 1 \in 1..(n + 1) /\ 1 + 1 = 2
      BY <1>1
    <3> QED BY <3>1, <1>2
  <2>2. \A j \in 1..(n + 1) : j = 1 \/ j \in 2..(n + 1)
    BY <1>1
  <2>3. \A j \in 2..(n + 1) : j \in 1..(n + 1)
    BY <1>1
  <2>4. 1 \in 1..(n + 1)
    BY <1>1
  <2> QED BY <2>1, <2>2, <2>3, <2>4, <1>1 DEF NoUser
<1>4. ASSUME NEW n \in 0..(Len(s) - 1), NEW u
      PROVE  LastUser(s, n + 1, u) <=>
                 \/ LastUser(t, n, u)
                 \/ NoUser(t, 1, n) /\ Head(s).kind = "user" /\ Head(s).user = u
  <2>1. ASSUME LastUser(t, n, u) PROVE LastUser(s, n + 1, u)
    <3>1. PICK i \in 1..n : t[i].kind = "user" /\ t[i].user = u /\ NoUser(t, i + 1, n)
      BY <2>1 DEF LastUser
    <3>2. i + 1 \in 1..(n + 1) /\ i \in 1..(Len(s) - 1)
      BY <1>1
    <3>3. s[i + 1] = t[i] /\ NoUser(s, (i + 1) + 1, n + 1)
      BY <3>1, <3>2, <1>1, <1>2
    <3> QED BY <3>1, <3>2, <3>3 DEF LastUser
  <2>2. ASSUME NoUser(t, 1, n), Head(s).kind = "user", Head(s).user = u PROVE LastUser(s, n + 1, u)
    <3>1. 1 \in 1..(n + 1) /\ 1 \in 1..(n + 1)
      BY <1>1
    <3>2. NoUser(s, 1 + 1, n + 1)
      BY <2>2, <3>1, <1>2
    <3> QED BY <2>2, <3>1, <3>2, <1>1 DEF LastUser
  <2>3. ASSUME LastUser(s, n + 1, u)
        PROVE  \/ LastUser(t, n, u)
               \/ NoUser(t, 1, n) /\ Head(s).kind = "user" /\ Head(s).user = u
    <3>1. PICK i \in 1..(n + 1) : s[i].kind = "user" /\ s[i].user = u /\ NoUser(s, i + 1, n + 1)
      BY <2>3 DEF LastUser
    <3>2. CASE i = 1
      <4>1. 1 \in 1..(n + 1) /\ NoUser(s, 1 + 1, n + 1)
        BY <3>1, <3>2, <1>1
      <4> QED BY <4>1, <3>1, <3>2, <1>1, <1>2
    <3>3. CASE i # 1
      <4>1. i - 1 \in 1..n /\ i - 1 \in 1..(Len(s) - 1) /\ (i - 1) + 1 = i /\ i \in 1..(n + 1)
        BY <3>3, <1>1
      <4>2. t[i - 1] = s[i]
        BY <4>1, <1>1
      <4>3. NoUser(t, (i - 1) + 1, n)
        BY <4>1, <3>1, <1>2
      <4> QED BY <4>1, <4>2, <4>3, <3>1 DEF LastUser
    <3> QED BY <3>2, <3>3
  <2> QED BY <2>1, <2>2, <2>3
<1>5. ASSUME NEW n \in 0..(Len(s) - 1), NEW u, KnownAt(s, n + 1, T, u)
      PROVE  KnownAt(t, n, R, u)
  <2>1. CASE LastUser(s, n + 1, u)
    BY <2>1, <1>4 DEF KnownAt
  <2>2. CASE NoUser(s, 1, n + 1) /\ u \in T
    BY <2>2, <1>3 DEF KnownAt
  <2> QED BY <2>1, <2>2, <1>5 DEF KnownAt
<1> QED BY <1>1, <1>3, <1>5 DEF t

-----------------------------------------------------------------------------
(* What a step does to the worker queue.                                    *)

\* The calls are as they were or saw a change of user.
KeepsCalls ==
    \A c \in Call :
        /\ \A u \in Identity : For(call, c, u) => For(call', c, u)
        /\ call[c].phase # "idle" /\ call[c].raced => call'[c].phase # "idle" /\ call'[c].raced

\* Tokens are asked for under the count of now.
KeepsFetches ==
    \A f \in fetches' : f \in fetches \/ (f.user = Unread /\ f.counter = counter')

LEMMA QueueEntries ==
  ASSUME IndInv
  PROVE  /\ worker \in Seq(WorkerTask) /\ Len(worker) \in Nat
         /\ main \in Seq(MainBlock) /\ Len(main) \in Nat
         /\ \A i \in 1..Len(worker) : /\ worker[i] \in WorkerTask
                                      /\ worker[i].kind = "write" => worker[i].call \in Call
         /\ \A i \in 1..Len(main) : /\ main[i] \in MainBlock
                                    /\ main[i].kind = "answer" => main[i].call \in Call
                                    /\ main[i].kind # "answer" => main[i].counter \in Nat
         /\ Told \subseteq Identity /\ current \in Identity /\ counter \in Nat /\ auth \in Identity
<1>1. /\ worker \in Seq(WorkerTask) /\ Len(worker) \in Nat
      /\ main \in Seq(MainBlock) /\ Len(main) \in Nat
      /\ \A i \in 1..Len(worker) : worker[i] \in WorkerTask
      /\ \A i \in 1..Len(main) : main[i] \in MainBlock
  BY ElementOfSeq, LenProperties DEF IndInv, Types
<1>2. \A e \in WorkerTask : e.kind = "write" => e.call \in Call
  BY DEF WorkerTask
<1>3. \A e \in MainBlock : /\ e.kind = "answer" => e.call \in Call
                           /\ e.kind # "answer" => e.counter \in Nat
  BY DEF MainBlock
<1>4. Told \subseteq Identity /\ current \in Identity /\ counter \in Nat /\ auth \in Identity
  BY DEF Told, IndInv, Types, TypeOK
<1> QED BY <1>1, <1>2, <1>3, <1>4

\* The tasks wait.
LEMMA WorkerKept ==
  ASSUME IndInv, worker' = worker, current' = current, KeepsCalls
  PROVE  Told' = Told /\ TokenTasksKnown' /\ WritesKnown' /\ worker' \in Seq(WorkerTask)
<1>1. Told' = Told
  BY DEF Told
<1>2. TokenTasksKnown'
  BY DEF IndInv, TokenTasksKnown
<1>3. WritesKnown'
  <2>1. ASSUME NEW i \in 1..Len(worker), worker[i].kind = "write"
        PROVE  \E u \in Identity :
                   KnownAt(worker, i - 1, {current}, u) /\ For(call', worker[i].call, u)
    <3>1. PICK u \in Identity :
            KnownAt(worker, i - 1, {current}, u) /\ For(call, worker[i].call, u)
      BY <2>1 DEF IndInv, WritesKnown
    <3> QED BY <2>1, <3>1, QueueEntries DEF KeepsCalls
  <2> QED BY <2>1 DEF WritesKnown
<1> QED BY <1>1, <1>2, <1>3, QueueEntries

\* A task is enqueued.
LEMMA WorkerGrows ==
  ASSUME IndInv, NEW e \in WorkerTask, worker' = Append(worker, e), current' = current, KeepsCalls,
         e.kind = "token" => e.user \in Told,
         e.kind = "write" => \E u \in Told : For(call, e.call, u)
  PROVE  /\ e.kind # "user" => Told \subseteq Told'
         /\ e.kind = "user" /\ e.user \in Identity => e.user \in Told'
         /\ TokenTasksKnown' /\ WritesKnown' /\ worker' \in Seq(WorkerTask)
<1> DEFINE T == {current}
<1>1. /\ worker' \in Seq(WorkerTask) /\ Len(worker') = Len(worker) + 1
      /\ worker'[Len(worker) + 1] = e
      /\ Len(worker) \in Nat /\ \A i \in 1..Len(worker) : worker'[i] = worker[i]
      /\ e.kind = "user" => KnownAt(worker', Len(worker) + 1, T, e.user)
      /\ e.kind # "user" =>
            \A u : KnownAt(worker, Len(worker), T, u) => KnownAt(worker', Len(worker) + 1, T, u)
      /\ \A n \in 0..Len(worker) : \A u : KnownAt(worker, n, T, u) => KnownAt(worker', n, T, u)
  <2>1. /\ Append(worker, e) \in Seq(WorkerTask) /\ Len(Append(worker, e)) = Len(worker) + 1
        /\ Append(worker, e)[Len(worker) + 1] = e
        /\ Len(worker) \in Nat /\ \A i \in 1..Len(worker) : Append(worker, e)[i] = worker[i]
        /\ e.kind = "user" => KnownAt(Append(worker, e), Len(worker) + 1, T, e.user)
        /\ e.kind # "user" =>
              \A u : KnownAt(worker, Len(worker), T, u)
                        => KnownAt(Append(worker, e), Len(worker) + 1, T, u)
        /\ \A n \in 0..Len(worker) : \A u :
              KnownAt(worker, n, T, u) => KnownAt(Append(worker, e), n, T, u)
    <3>1. worker \in Seq(WorkerTask)
      BY QueueEntries
    <3> HIDE DEF T
    <3> QED BY <3>1, NewPlace
  <2> QED BY <2>1
<1>2. Told = {u \in Identity : KnownAt(worker, Len(worker), T, u)}
  BY DEF Told
<1>3. Told' = {u \in Identity : KnownAt(worker', Len(worker) + 1, T, u)}
  BY <1>1 DEF Told
<1>4. e.kind # "user" => Told \subseteq Told'
  BY <1>1, <1>2, <1>3
<1>5. e.kind = "user" /\ e.user \in Identity => e.user \in Told'
  BY <1>1, <1>3
<1>6. ASSUME NEW i \in 1..Len(worker')
      PROVE  \/ i \in 1..Len(worker) /\ i - 1 \in 0..Len(worker) /\ worker'[i] = worker[i]
             \/ i - 1 = Len(worker) /\ Len(worker) \in 0..Len(worker) /\ worker'[i] = e
  BY <1>1
<1>7. TokenTasksKnown'
  <2>1. ASSUME NEW i \in 1..Len(worker'), worker'[i].kind = "token"
        PROVE  KnownAt(worker', i - 1, T, worker'[i].user)
    <3>1. CASE i \in 1..Len(worker) /\ i - 1 \in 0..Len(worker) /\ worker'[i] = worker[i]
      <4>1. KnownAt(worker, i - 1, T, worker[i].user)
        BY <2>1, <3>1 DEF IndInv, TokenTasksKnown
      <4> QED BY <3>1, <4>1, <1>1
    <3>2. CASE i - 1 = Len(worker) /\ Len(worker) \in 0..Len(worker) /\ worker'[i] = e
      <4>1. KnownAt(worker, Len(worker), T, e.user)
        BY <2>1, <3>2, <1>2
      <4>2. KnownAt(worker', Len(worker), T, e.user)
        BY <4>1, <3>2, <1>1
      <4> QED BY <3>2, <4>2
    <3> QED BY <3>1, <3>2, <1>6
  <2> QED BY <2>1 DEF TokenTasksKnown
<1>8. WritesKnown'
  <2>1. ASSUME NEW i \in 1..Len(worker'), worker'[i].kind = "write"
        PROVE  \E u \in Identity : KnownAt(worker', i - 1, T, u) /\ For(call', worker'[i].call, u)
    <3>1. CASE i \in 1..Len(worker) /\ i - 1 \in 0..Len(worker) /\ worker'[i] = worker[i]
      <4>1. PICK u \in Identity : KnownAt(worker, i - 1, T, u) /\ For(call, worker[i].call, u)
        BY <2>1, <3>1 DEF IndInv, WritesKnown
      <4>2. KnownAt(worker', i - 1, T, u) /\ worker[i].call \in Call
        BY <2>1, <3>1, <4>1, <1>1, QueueEntries
      <4> QED BY <3>1, <4>1, <4>2 DEF KeepsCalls
    <3>2. CASE i - 1 = Len(worker) /\ Len(worker) \in 0..Len(worker) /\ worker'[i] = e
      <4>1. PICK u \in Told : For(call, e.call, u)
        BY <2>1, <3>2
      <4>2. u \in Identity /\ KnownAt(worker', Len(worker), T, u) /\ e.call \in Call
        BY <2>1, <3>2, <4>1, <1>1, <1>2 DEF WorkerTask
      <4> QED BY <3>2, <4>1, <4>2 DEF KeepsCalls
    <3> QED BY <3>1, <3>2, <1>6
  <2> QED BY <2>1 DEF WritesKnown
<1> QED BY <1>1, <1>4, <1>5, <1>7, <1>8

\* The first task runs.
LEMMA WorkerRuns ==
  ASSUME IndInv, worker # <<>>, worker' = Tail(worker), KeepsCalls,
         current' = IF Head(worker).kind = "user" THEN Head(worker).user ELSE current
  PROVE  /\ Told \subseteq Told' /\ TokenTasksKnown' /\ WritesKnown' /\ worker' \in Seq(WorkerTask)
         /\ Head(worker) = worker[1] /\ Head(worker) \in WorkerTask /\ 1 \in 1..Len(worker)
<1> DEFINE T == {current}
           R == {current'}
<1>1. /\ worker' \in Seq(WorkerTask) /\ Len(worker') = Len(worker) - 1
      /\ Len(worker) \in Nat /\ Len(worker) >= 1
      /\ Head(worker) = worker[1] /\ Head(worker) \in WorkerTask
      /\ \A i \in 1..(Len(worker) - 1) : worker'[i] = worker[i + 1]
      /\ \A n \in 0..(Len(worker) - 1) : \A u :
            KnownAt(worker, n + 1, T, u) => KnownAt(worker', n, R, u)
  <2>1. /\ Tail(worker) \in Seq(WorkerTask) /\ Len(Tail(worker)) = Len(worker) - 1
        /\ Len(worker) \in Nat /\ Len(worker) >= 1
        /\ Head(worker) = worker[1] /\ Head(worker) \in WorkerTask
        /\ \A i \in 1..(Len(worker) - 1) : Tail(worker)[i] = worker[i + 1]
        /\ \A n \in 0..(Len(worker) - 1) : \A u :
              KnownAt(worker, n + 1, T, u) => KnownAt(Tail(worker), n, R, u)
    <3>1. worker \in Seq(WorkerTask)
      BY QueueEntries
    <3>2. IF Head(worker).kind = "user" THEN Head(worker).user \in R ELSE T \subseteq R
      OBVIOUS
    <3> HIDE DEF T, R
    <3> QED BY <3>1, <3>2, PlacesMoveUp
  <2> QED BY <2>1
<1>2. Told \subseteq Told'
  <2>1. Told = {u \in Identity : KnownAt(worker, Len(worker), T, u)}
    BY DEF Told
  <2>2. Told' = {u \in Identity : KnownAt(worker', Len(worker'), R, u)}
    BY DEF Told
  <2>3. Len(worker) - 1 \in 0..(Len(worker) - 1) /\ (Len(worker) - 1) + 1 = Len(worker)
        /\ Len(worker') = Len(worker) - 1
    BY <1>1
  <2> HIDE DEF T, R
  <2>4. \A u : KnownAt(worker, Len(worker), T, u) => KnownAt(worker', Len(worker'), R, u)
    BY <2>3, <1>1
  <2> QED BY <2>1, <2>2, <2>4
<1>3. ASSUME NEW i \in 1..Len(worker')
      PROVE  /\ i + 1 \in 1..Len(worker) /\ worker'[i] = worker[i + 1]
             /\ \A u : KnownAt(worker, (i + 1) - 1, T, u) => KnownAt(worker', i - 1, R, u)
  <2>1. /\ i + 1 \in 1..Len(worker) /\ i \in 1..(Len(worker) - 1)
        /\ i - 1 \in 0..(Len(worker) - 1) /\ (i + 1) - 1 = (i - 1) + 1
    BY <1>1
  <2> HIDE DEF T, R
  <2> QED BY <2>1, <1>1
<1>4. TokenTasksKnown'
  <2>1. ASSUME NEW i \in 1..Len(worker'), worker'[i].kind = "token"
        PROVE  KnownAt(worker', i - 1, R, worker'[i].user)
    <3>1. KnownAt(worker, (i + 1) - 1, T, worker[i + 1].user)
      BY <2>1, <1>3 DEF IndInv, TokenTasksKnown
    <3> HIDE DEF T, R
    <3> QED BY <3>1, <1>3
  <2> QED BY <2>1 DEF TokenTasksKnown
<1>5. WritesKnown'
  <2>1. ASSUME NEW i \in 1..Len(worker'), worker'[i].kind = "write"
        PROVE  \E u \in Identity : KnownAt(worker', i - 1, R, u) /\ For(call', worker'[i].call, u)
    <3>1. i + 1 \in 1..Len(worker) /\ worker'[i] = worker[i + 1] /\ worker[i + 1].call \in Call
      BY <2>1, <1>3, QueueEntries
    <3>2. PICK u \in Identity :
            KnownAt(worker, (i + 1) - 1, T, u) /\ For(call, worker[i + 1].call, u)
      BY <2>1, <3>1 DEF IndInv, WritesKnown
    <3> HIDE DEF T, R
    <3>3. KnownAt(worker', i - 1, R, u)
      BY <3>2, <1>3
    <3> QED BY <3>1, <3>2, <3>3 DEF KeepsCalls
  <2> QED BY <2>1 DEF WritesKnown
<1> QED BY <1>1, <1>2, <1>4, <1>5

-----------------------------------------------------------------------------
(* What a step does to the main queue.                                      *)

\* More who are told of are known at every place.
LEMMA KnownToMore ==
  ASSUME NEW s, NEW n, NEW T, NEW R, T \subseteq R, NEW u, KnownAt(s, n, T, u)
  PROVE  KnownAt(s, n, R, u)
<1> QED BY DEF KnownAt

\* The blocks wait.
LEMMA MainKept ==
  ASSUME IndInv, main' = main, counter' = counter, Told \subseteq Told', KeepsCalls
  PROVE  /\ auth' = auth => AuthKnown'
         /\ KeepsFetches => FetchesKnown'
         /\ TokenBlocksKnown' /\ AnswersKnown' /\ main' \in Seq(MainBlock)
<1>1. auth' = auth => AuthKnown'
  BY KnownToMore DEF IndInv, AuthKnown
<1>2. KeepsFetches => FetchesKnown'
  BY QueueEntries DEF IndInv, FetchesKnown, KeepsFetches
<1>3. TokenBlocksKnown'
  BY DEF IndInv, TokenBlocksKnown
<1>4. AnswersKnown'
  <2>1. ASSUME NEW i \in 1..Len(main), main[i].kind = "answer"
        PROVE  \E u \in Identity : KnownAt(main, i - 1, Told', u) /\ For(call', main[i].call, u)
    <3>1. PICK u \in Identity : KnownAt(main, i - 1, Told, u) /\ For(call, main[i].call, u)
      BY <2>1 DEF IndInv, AnswersKnown
    <3>2. KnownAt(main, i - 1, Told', u)
      BY <3>1, KnownToMore
    <3> QED BY <2>1, <3>1, <3>2, QueueEntries DEF KeepsCalls
  <2> QED BY <2>1 DEF AnswersKnown
<1> QED BY <1>1, <1>2, <1>3, <1>4, QueueEntries

\* A block is posted.
LEMMA MainGrows ==
  ASSUME IndInv, NEW e \in MainBlock, main' = Append(main, e), counter' = counter,
         Told' = Told, KeepsCalls,
         e.kind = "user" => auth' = e.user,
         e.kind # "user" => auth' = auth,
         e.kind = "token" =>
            /\ e.counter <= counter
            /\ e.counter = counter /\ NoUser(main, 1, Len(main)) => e.user \in Told,
         e.kind = "answer" =>
            \E u \in Identity : KnownAt(main, Len(main), Told, u) /\ For(call, e.call, u)
  PROVE  /\ AuthKnown'
         /\ fetches' \subseteq fetches => FetchesKnown'
         /\ TokenBlocksKnown' /\ AnswersKnown' /\ main' \in Seq(MainBlock)
<1> DEFINE T == Told
<1>1. /\ main' \in Seq(MainBlock) /\ Len(main') = Len(main) + 1 /\ main'[Len(main) + 1] = e
      /\ Len(main) \in Nat /\ \A i \in 1..Len(main) : main'[i] = main[i]
      /\ e.kind = "user" =>
            KnownAt(main', Len(main) + 1, T, e.user) /\ ~NoUser(main', 1, Len(main) + 1)
      /\ e.kind # "user" =>
            /\ \A u : KnownAt(main, Len(main), T, u) => KnownAt(main', Len(main) + 1, T, u)
            /\ NoUser(main', 1, Len(main) + 1) <=> NoUser(main, 1, Len(main))
      /\ \A n \in 0..Len(main) : \A u : KnownAt(main, n, T, u) => KnownAt(main', n, T, u)
      /\ \A n \in 0..Len(main) : NoUser(main', 1, n) <=> NoUser(main, 1, n)
  <2>1. /\ Append(main, e) \in Seq(MainBlock) /\ Len(Append(main, e)) = Len(main) + 1
        /\ Append(main, e)[Len(main) + 1] = e
        /\ Len(main) \in Nat /\ \A i \in 1..Len(main) : Append(main, e)[i] = main[i]
        /\ e.kind = "user" =>
              /\ KnownAt(Append(main, e), Len(main) + 1, T, e.user)
              /\ ~NoUser(Append(main, e), 1, Len(main) + 1)
        /\ e.kind # "user" =>
              /\ \A u : KnownAt(main, Len(main), T, u) => KnownAt(Append(main, e), Len(main) + 1, T, u)
              /\ NoUser(Append(main, e), 1, Len(main) + 1) <=> NoUser(main, 1, Len(main))
        /\ \A n \in 0..Len(main) : \A u : KnownAt(main, n, T, u) => KnownAt(Append(main, e), n, T, u)
        /\ \A n \in 0..Len(main) : NoUser(Append(main, e), 1, n) <=> NoUser(main, 1, n)
    <3>1. main \in Seq(MainBlock)
      BY QueueEntries
    <3> HIDE DEF T
    <3> QED BY <3>1, NewPlace
  <2> QED BY <2>1
<1>2. AuthKnown'
  <2>1. CASE e.kind = "user"
    BY <2>1, <1>1 DEF AuthKnown
  <2>2. CASE e.kind # "user"
    BY <2>2, <1>1 DEF IndInv, AuthKnown
  <2> QED BY <2>1, <2>2
<1>3. fetches' \subseteq fetches => FetchesKnown'
  BY <1>1 DEF IndInv, FetchesKnown
<1>4. ASSUME NEW i \in 1..Len(main')
      PROVE  \/ i \in 1..Len(main) /\ i - 1 \in 0..Len(main) /\ main'[i] = main[i]
             \/ i - 1 = Len(main) /\ Len(main) \in 0..Len(main) /\ main'[i] = e
  BY <1>1
<1>5. TokenBlocksKnown'
  <2>1. ASSUME NEW i \in 1..Len(main'), main'[i].kind = "token"
        PROVE  /\ main'[i].counter <= counter
               /\ main'[i].counter = counter /\ NoUser(main', 1, i - 1) => main'[i].user \in Told
    <3>1. CASE i \in 1..Len(main) /\ i - 1 \in 0..Len(main) /\ main'[i] = main[i]
      BY <2>1, <3>1, <1>1 DEF IndInv, TokenBlocksKnown
    <3>2. CASE i - 1 = Len(main) /\ Len(main) \in 0..Len(main) /\ main'[i] = e
      BY <2>1, <3>2, <1>1
    <3> QED BY <3>1, <3>2, <1>4
  <2> QED BY <2>1 DEF TokenBlocksKnown
<1>6. AnswersKnown'
  <2>1. ASSUME NEW i \in 1..Len(main'), main'[i].kind = "answer"
        PROVE  \E u \in Identity : KnownAt(main', i - 1, T, u) /\ For(call', main'[i].call, u)
    <3>1. CASE i \in 1..Len(main) /\ i - 1 \in 0..Len(main) /\ main'[i] = main[i]
      <4>1. PICK u \in Identity : KnownAt(main, i - 1, T, u) /\ For(call, main[i].call, u)
        BY <2>1, <3>1 DEF IndInv, AnswersKnown
      <4>2. KnownAt(main', i - 1, T, u) /\ main[i].call \in Call
        BY <2>1, <3>1, <4>1, <1>1, QueueEntries
      <4> QED BY <3>1, <4>1, <4>2 DEF KeepsCalls
    <3>2. CASE i - 1 = Len(main) /\ Len(main) \in 0..Len(main) /\ main'[i] = e
      <4>1. PICK u \in Identity : KnownAt(main, Len(main), T, u) /\ For(call, e.call, u)
        BY <2>1, <3>2
      <4>2. KnownAt(main', Len(main), T, u) /\ e.call \in Call
        BY <2>1, <3>2, <4>1, <1>1 DEF MainBlock
      <4> QED BY <3>2, <4>1, <4>2 DEF KeepsCalls
    <3> QED BY <3>1, <3>2, <1>4
  <2> QED BY <2>1 DEF AnswersKnown
<1> QED BY <1>1, <1>2, <1>3, <1>5, <1>6

\* The first block runs.  If it brings news it raises the counter, and the news is
\* told.
LEMMA MainRuns ==
  ASSUME IndInv, main # <<>>, main' = Tail(main), auth' = auth, KeepsCalls,
         IF Head(main).kind = "user"
         THEN counter' = counter + 1 /\ Head(main).user \in Told'
         ELSE counter' = counter /\ Told \subseteq Told'
  PROVE  /\ AuthKnown'
         /\ KeepsFetches => FetchesKnown'
         /\ TokenBlocksKnown' /\ AnswersKnown' /\ main' \in Seq(MainBlock)
<1> DEFINE T == Told
           R == Told'
<1>1. /\ main' \in Seq(MainBlock) /\ Len(main') = Len(main) - 1
      /\ Len(main) \in Nat /\ Len(main) >= 1
      /\ \A i \in 1..(Len(main) - 1) : main'[i] = main[i + 1]
      /\ \A n \in 0..(Len(main) - 1) : \A u : KnownAt(main, n + 1, T, u) => KnownAt(main', n, R, u)
      /\ \A n \in 0..(Len(main) - 1) :
            NoUser(main, 1, n + 1) <=> Head(main).kind # "user" /\ NoUser(main', 1, n)
  <2>1. /\ Tail(main) \in Seq(MainBlock) /\ Len(Tail(main)) = Len(main) - 1
        /\ Len(main) \in Nat /\ Len(main) >= 1
        /\ \A i \in 1..(Len(main) - 1) : Tail(main)[i] = main[i + 1]
        /\ \A n \in 0..(Len(main) - 1) : \A u :
              KnownAt(main, n + 1, T, u) => KnownAt(Tail(main), n, R, u)
        /\ \A n \in 0..(Len(main) - 1) :
              NoUser(main, 1, n + 1) <=> Head(main).kind # "user" /\ NoUser(Tail(main), 1, n)
    <3>1. main \in Seq(MainBlock)
      BY QueueEntries
    <3>2. IF Head(main).kind = "user" THEN Head(main).user \in R ELSE T \subseteq R
      OBVIOUS
    <3> HIDE DEF T, R
    <3> QED BY <3>1, <3>2, PlacesMoveUp
  <2> QED BY <2>1
<1>2. /\ Len(main) - 1 \in 0..(Len(main) - 1) /\ (Len(main) - 1) + 1 = Len(main)
      /\ Len(main') = Len(main) - 1
  BY <1>1
<1>3. AuthKnown'
  <2>1. KnownAt(main, Len(main), T, auth)
    BY DEF IndInv, AuthKnown
  <2> HIDE DEF T, R
  <2>2. KnownAt(main', Len(main'), R, auth)
    BY <2>1, <1>1, <1>2
  <2> QED BY <2>2 DEF R, AuthKnown
<1>4. counter \in Nat /\ \A f \in fetches : f.counter \in Nat
  BY DEF IndInv, Types, TypeOK, Fetch
<1>5. KeepsFetches => FetchesKnown'
  <2>0. SUFFICES ASSUME KeepsFetches PROVE FetchesKnown'
    OBVIOUS
  <2>1. CASE Head(main).kind = "user"
    <3>1. \A f \in fetches : f.counter <= counter /\ f.counter \in Nat
      BY <1>4 DEF IndInv, FetchesKnown
    <3>2. \A f \in fetches : f.counter <= counter' /\ f.counter # counter'
      BY <2>1, <3>1, <1>4
    <3>3. counter' \in Nat
      BY <2>1, <1>4
    <3> QED BY <3>2, <3>3, <2>0 DEF FetchesKnown, KeepsFetches
  <2>2. CASE Head(main).kind # "user"
    <3>1. counter' = counter /\ Told \subseteq Told'
      BY <2>2
    <3>2. NoUser(main', 1, Len(main')) => NoUser(main, 1, Len(main))
      BY <2>2, <1>1, <1>2
    <3>3. counter' \in Nat
      BY <3>1, <1>4
    <3> QED BY <3>1, <3>2, <3>3, <2>0 DEF IndInv, FetchesKnown, KeepsFetches
  <2> QED BY <2>1, <2>2
<1>6. ASSUME NEW i \in 1..Len(main')
      PROVE  /\ i + 1 \in 1..Len(main) /\ main'[i] = main[i + 1]
             /\ \A u : KnownAt(main, (i + 1) - 1, T, u) => KnownAt(main', i - 1, R, u)
             /\ Head(main).kind # "user" /\ NoUser(main', 1, i - 1) => NoUser(main, 1, (i + 1) - 1)
  <2>1. /\ i + 1 \in 1..Len(main) /\ i \in 1..(Len(main) - 1)
        /\ i - 1 \in 0..(Len(main) - 1) /\ (i + 1) - 1 = (i - 1) + 1
    BY <1>1
  <2> HIDE DEF T, R
  <2> QED BY <2>1, <1>1
<1>7. TokenBlocksKnown'
  <2>1. ASSUME NEW i \in 1..Len(main'), main'[i].kind = "token"
        PROVE  /\ main'[i].counter <= counter'
               /\ main'[i].counter = counter' /\ NoUser(main', 1, i - 1) => main'[i].user \in R
    <3>1. /\ i + 1 \in 1..Len(main) /\ main'[i] = main[i + 1] /\ main[i + 1].counter \in Nat
          /\ main[i + 1].counter <= counter
          /\ main[i + 1].counter = counter /\ NoUser(main, 1, (i + 1) - 1) => main[i + 1].user \in T
      BY <2>1, <1>6, QueueEntries DEF IndInv, TokenBlocksKnown
    <3>2. CASE Head(main).kind = "user"
      <4>1. counter' = counter + 1
        BY <3>2
      <4>2. main[i + 1].counter <= counter' /\ main[i + 1].counter # counter'
        BY <4>1, <3>1, <1>4
      <4> QED BY <3>1, <4>2
    <3>3. CASE Head(main).kind # "user"
      <4>1. counter' = counter /\ T \subseteq R
        BY <3>3
      <4>2. NoUser(main', 1, i - 1) => NoUser(main, 1, (i + 1) - 1)
        BY <3>3, <1>6
      <4> QED BY <3>1, <4>1, <4>2
    <3> QED BY <3>2, <3>3
  <2> QED BY <2>1 DEF TokenBlocksKnown
<1>8. AnswersKnown'
  <2>1. ASSUME NEW i \in 1..Len(main'), main'[i].kind = "answer"
        PROVE  \E u \in Identity : KnownAt(main', i - 1, R, u) /\ For(call', main'[i].call, u)
    <3>1. i + 1 \in 1..Len(main) /\ main'[i] = main[i + 1] /\ main[i + 1].call \in Call
      BY <2>1, <1>6, QueueEntries
    <3>2. PICK u \in Identity : KnownAt(main, (i + 1) - 1, T, u) /\ For(call, main[i + 1].call, u)
      BY <2>1, <3>1 DEF IndInv, AnswersKnown
    <3> HIDE DEF T, R
    <3>3. KnownAt(main', i - 1, R, u)
      BY <3>2, <1>6
    <3> QED BY <3>1, <3>2, <3>3 DEF KeepsCalls
  <2> QED BY <2>1 DEF AnswersKnown
<1> QED BY <1>1, <1>3, <1>5, <1>7, <1>8

-----------------------------------------------------------------------------
(* What a step does to the calls and to the queues of writes.               *)

LEMMA SameCalls ==
  ASSUME call' = call
  PROVE  KeepsCalls
<1> QED BY DEF KeepsCalls

LEMMA SameFetches ==
  ASSUME fetches' \subseteq fetches
  PROVE  KeepsFetches
<1> QED BY DEF KeepsFetches

LEMMA QueuesKept ==
  ASSUME IndInv, KeepsCalls
  PROVE  /\ queues' = queues => QueuesKnown'
         /\ refused' = refused => RefusedRaced'
         /\ call' = call /\ auth' = auth => AskedByUser'
<1>1. \A u \in Identity : \A i \in 1..Len(queues[u]) : queues[u][i] \in Call
  <2>1. \A u \in Identity : queues[u] \in Seq(Call)
    BY DEF IndInv, Types, TypeOK
  <2> QED BY <2>1, ElementOfSeq
<1>2. queues' = queues => QueuesKnown'
  BY <1>1 DEF IndInv, QueuesKnown, KeepsCalls
<1>3. refused \subseteq Call
  BY DEF IndInv, Types, TypeOK
<1>4. refused' = refused => RefusedRaced'
  BY <1>3 DEF IndInv, RefusedRaced, KeepsCalls
<1> QED BY <1>2, <1>4 DEF IndInv, AskedByUser

LEMMA KindsOfEntries ==
  ASSUME NEW m \in Seq(MainBlock), NEW w \in Seq(WorkerTask)
  PROVE  /\ \A i \in DOMAIN m : m[i].kind \in {"user", "token", "answer"}
         /\ \A i \in DOMAIN w : w[i].kind \in {"user", "token", "write"}
<1>1. DOMAIN m = 1..Len(m) /\ DOMAIN w = 1..Len(w)
  BY LenProperties
<1>2. (\A i \in 1..Len(m) : m[i] \in MainBlock) /\ (\A i \in 1..Len(w) : w[i] \in WorkerTask)
  BY ElementOfSeq
<1>3. /\ \A e \in MainBlock : e.kind \in {"user", "token", "answer"}
      /\ \A e \in WorkerTask : e.kind \in {"user", "token", "write"}
  BY DEF MainBlock, WorkerTask
<1> QED BY <1>1, <1>2, <1>3

\* The types of the variables but the two queues.
OtherTypes ==
    /\ auth \in Identity /\ current \in Identity /\ token \in Identity
    /\ counter \in Nat /\ closes \in Nat /\ fetches \subseteq Fetch
    /\ queues \in [Identity -> Seq(Call)]
    /\ stream \in {"closed", "auth", "open"}
    /\ call \in [Call -> [phase : {"idle", "asked", "posted", "written", "dropped"},
                          owner : Identity, raced : BOOLEAN]]
    /\ landed \subseteq Call /\ refused \subseteq Call
    /\ changes \in 0..MaxChanges /\ refreshes \in 0..MaxRefreshes

LEMMA TypesSplit ==
  /\ IndInv => OtherTypes
  /\ OtherTypes' /\ main' \in Seq(MainBlock) /\ worker' \in Seq(WorkerTask) => Types'
<1>1. IndInv => OtherTypes
  BY DEF IndInv, Types, TypeOK, OtherTypes
<1>2. ASSUME OtherTypes', main' \in Seq(MainBlock), worker' \in Seq(WorkerTask) PROVE Types'
  <2>1. /\ \A i \in DOMAIN main' : main'[i].kind \in {"user", "token", "answer"}
        /\ \A i \in DOMAIN worker' : worker'[i].kind \in {"user", "token", "write"}
    BY <1>2, KindsOfEntries
  <2> QED BY <1>2, <2>1 DEF Types, TypeOK, OtherTypes
<1> QED BY <1>1, <1>2

LEMMA Blocks ==
  ASSUME NEW u \in Identity, NEW n \in Nat, NEW c \in Nat
  PROVE  /\ Block("user", u, n, c) \in MainBlock /\ Block("token", u, n, c) \in MainBlock
         /\ Block("user", u, n, c) \in WorkerTask /\ Block("token", u, n, c) \in WorkerTask
         /\ Block("user", u, n, c).kind = "user" /\ Block("token", u, n, c).kind = "token"
         /\ Block("user", u, n, c).user = u /\ Block("token", u, n, c).user = u
         /\ Block("token", u, n, c).counter = n
<1> QED BY DEF Block, MainBlock, WorkerTask

-----------------------------------------------------------------------------
(* The actions, one by one.                                                 *)

LEMMA InitIndInv == Init => IndInv
<1> SUFFICES ASSUME Init PROVE IndInv
  OBVIOUS
<1> USE ChangesAssumption
<1>1. main = <<>> /\ worker = <<>> /\ Len(main) = 0 /\ Len(worker) = 0
  BY DEF Init
<1>2. main \in Seq(MainBlock) /\ worker \in Seq(WorkerTask)
  BY <1>1
<1>3. OtherTypes
  <2>1. \A u \in Identity : <<>> \in Seq(Call)
    OBVIOUS
  <2>2. queues \in [Identity -> Seq(Call)]
    BY <2>1 DEF Init
  <2>3. call \in [Call -> [phase : {"idle", "asked", "posted", "written", "dropped"},
                           owner : Identity, raced : BOOLEAN]]
    BY DEF Init, Idle, Identity
  <2> QED BY <2>2, <2>3 DEF Init, OtherTypes, Identity
<1>4. Types
  <2>1. /\ \A i \in DOMAIN main : main[i].kind \in {"user", "token", "answer"}
        /\ \A i \in DOMAIN worker : worker[i].kind \in {"user", "token", "write"}
    BY <1>2, KindsOfEntries
  <2> QED BY <1>2, <1>3, <2>1 DEF Types, TypeOK, OtherTypes
<1>5. AuthKnown
  <2>1. \A s, T : \A u \in T : KnownAt(s, 0, T, u)
    BY DEF KnownAt, NoUser
  <2>2. auth \in Told
    BY <1>1, <2>1 DEF Init, Told
  <2> QED BY <1>1, <2>1, <2>2 DEF AuthKnown
<1>6. FetchesKnown /\ TokenBlocksKnown /\ AnswersKnown /\ TokenTasksKnown /\ WritesKnown
  BY <1>1 DEF Init, FetchesKnown, TokenBlocksKnown, AnswersKnown, TokenTasksKnown, WritesKnown
<1>7. AskedByUser /\ RefusedRaced /\ StreamIsTheUsers
  BY DEF Init, Idle, AskedByUser, RefusedRaced, StreamIsTheUsers
<1>8. QueuesKnown
  <2>1. \A u \in Identity : queues[u] = <<>>
    BY DEF Init
  <2>2. \A u \in Identity : Len(queues[u]) = 0
    BY <2>1
  <2> QED BY <2>2 DEF QueuesKnown
<1> QED BY <1>4, <1>5, <1>6, <1>7, <1>8 DEF IndInv

\* The user changes: the calls under way are of the user of before.
LEMMA UpdateCurrentUserStep ==
  ASSUME IndInv, UpdateCurrentUser PROVE IndInv'
<1>1. PICK u \in Identity \ {auth} :
        /\ changes < MaxChanges /\ changes' = changes + 1 /\ auth' = u
        /\ main' = Append(main, Block("user", u, 0, 0))
        /\ call' = [c \in Call |->
                        IF call[c].phase \in {"asked", "posted"}
                        THEN [call[c] EXCEPT !.raced = TRUE] ELSE call[c]]
  BY DEF UpdateCurrentUser, Notify, PostToMain
<1>2. /\ worker' = worker /\ counter' = counter /\ fetches' = fetches /\ current' = current
      /\ queues' = queues /\ stream' = stream /\ token' = token /\ closes' = closes
      /\ landed' = landed /\ refused' = refused /\ refreshes' = refreshes
  BY DEF UpdateCurrentUser, remote, results
<1>3. OtherTypes
  BY TypesSplit
<1>4. ASSUME NEW c \in Call
      PROVE  /\ call'[c] \in [phase : {"idle", "asked", "posted", "written", "dropped"},
                              owner : Identity, raced : BOOLEAN]
             /\ call'[c].phase = call[c].phase /\ call'[c].owner = call[c].owner
             /\ call[c].raced => call'[c].raced
             /\ call[c].phase = "asked" => call'[c].raced
  <2>1. call[c] \in [phase : {"idle", "asked", "posted", "written", "dropped"},
                     owner : Identity, raced : BOOLEAN]
    BY <1>3 DEF OtherTypes
  <2>2. CASE call[c].phase \in {"asked", "posted"}
    <3>1. call'[c] = [call[c] EXCEPT !.raced = TRUE]
      BY <1>1, <2>2
    <3> QED BY <2>1, <3>1
  <2>3. CASE ~(call[c].phase \in {"asked", "posted"})
    <3>1. call'[c] = call[c]
      BY <1>1, <2>3
    <3> QED BY <2>1, <2>3, <3>1
  <2> QED BY <2>2, <2>3
<1>5. KeepsCalls
  BY <1>4 DEF KeepsCalls, For
<1>6. AskedByUser'
  BY <1>4 DEF AskedByUser, For
<1>7. Told' = Told /\ TokenTasksKnown' /\ WritesKnown' /\ worker' \in Seq(WorkerTask)
  BY <1>2, <1>5, WorkerKept
<1>8. AuthKnown' /\ FetchesKnown' /\ TokenBlocksKnown' /\ AnswersKnown' /\ main' \in Seq(MainBlock)
  <2>1. Block("user", u, 0, 0) \in MainBlock /\ Block("user", u, 0, 0).kind = "user"
        /\ Block("user", u, 0, 0).user = u
    BY Blocks
  <2> QED BY <2>1, <1>1, <1>2, <1>5, <1>7, MainGrows
<1>9. OtherTypes'
  <2>1. call' \in [Call -> [phase : {"idle", "asked", "posted", "written", "dropped"},
                            owner : Identity, raced : BOOLEAN]]
    BY <1>1, <1>4
  <2> QED BY <2>1, <1>1, <1>2, <1>3, ChangesAssumption DEF OtherTypes
<1>10. QueuesKnown' /\ RefusedRaced'
  BY <1>2, <1>5, QueuesKept
<1>11. StreamIsTheUsers'
  BY <1>2 DEF IndInv, StreamIsTheUsers
<1> QED
  BY <1>6, <1>7, <1>8, <1>9, <1>10, <1>11, TypesSplit DEF IndInv

\* The token of the user is renewed, and the news is the same user.
LEMMA RefreshStep ==
  ASSUME IndInv, Refresh PROVE IndInv'
<1>1. /\ refreshes < MaxRefreshes /\ refreshes' = refreshes + 1
      /\ main' = Append(main, Block("user", auth, 0, 0)) /\ auth' = auth
      /\ worker' = worker /\ counter' = counter /\ fetches' = fetches /\ current' = current
      /\ queues' = queues /\ stream' = stream /\ token' = token /\ closes' = closes
      /\ call' = call /\ landed' = landed /\ refused' = refused /\ changes' = changes
  BY DEF Refresh, Notify, PostToMain, remote, results
<1>2. KeepsCalls
  BY <1>1, SameCalls
<1>3. Told' = Told /\ TokenTasksKnown' /\ WritesKnown' /\ worker' \in Seq(WorkerTask)
  BY <1>1, <1>2, WorkerKept
<1>4. AuthKnown' /\ FetchesKnown' /\ TokenBlocksKnown' /\ AnswersKnown' /\ main' \in Seq(MainBlock)
  <2>1. Block("user", auth, 0, 0) \in MainBlock /\ Block("user", auth, 0, 0).kind = "user"
        /\ Block("user", auth, 0, 0).user = auth
    BY Blocks, QueueEntries
  <2> QED BY <2>1, <1>1, <1>2, <1>3, MainGrows
<1>5. OtherTypes'
  BY <1>1, ChangesAssumption, TypesSplit DEF OtherTypes
<1>6. QueuesKnown' /\ RefusedRaced' /\ AskedByUser'
  BY <1>1, <1>2, QueuesKept
<1>7. StreamIsTheUsers'
  BY <1>1 DEF IndInv, StreamIsTheUsers
<1> QED
  BY <1>3, <1>4, <1>5, <1>6, <1>7, TypesSplit DEF IndInv

\* A token is fetched for the user of the moment.
LEMMA FindUserStep ==
  ASSUME IndInv, FindUser PROVE IndInv'
<1>1. PICK f \in fetches :
        f.user = Unread /\ fetches' = (fetches \ {f}) \cup {[f EXCEPT !.user = auth]}
  BY DEF FindUser
<1>2. /\ auth' = auth /\ main' = main /\ worker' = worker /\ counter' = counter
      /\ current' = current /\ queues' = queues /\ stream' = stream /\ token' = token
      /\ closes' = closes /\ call' = call /\ landed' = landed /\ refused' = refused
      /\ changes' = changes /\ refreshes' = refreshes
  BY DEF FindUser, remote, results, bounds
<1>3. KeepsCalls
  BY <1>2, SameCalls
<1>4. Told' = Told /\ TokenTasksKnown' /\ WritesKnown' /\ worker' \in Seq(WorkerTask)
  BY <1>2, <1>3, WorkerKept
<1>5. AuthKnown' /\ TokenBlocksKnown' /\ AnswersKnown' /\ main' \in Seq(MainBlock)
  <2>1. Told \subseteq Told'
    BY <1>4
  <2> QED BY <2>1, <1>2, <1>3, MainKept
<1> DEFINE g == [f EXCEPT !.user = auth]
<1>6. g \in Fetch /\ g.counter = f.counter /\ g.user = auth
  <2>1. f \in Fetch /\ auth \in Identity
    BY QueueEntries DEF IndInv, Types, TypeOK
  <2> QED BY <2>1 DEF Fetch
<1>7. fetches' = (fetches \ {f}) \cup {g}
  BY <1>1
<1> HIDE DEF g
<1>8. FetchesKnown'
  <2>1. NoUser(main, 1, Len(main)) => auth \in Told
    <3>1. \A i \in 1..Len(main) : i \in 1..Len(main)
      OBVIOUS
    <3> QED BY DEF IndInv, AuthKnown, KnownAt, LastUser, NoUser
  <2>2. \A h \in fetches' : h \in fetches \/ h = g
    BY <1>7
  <2> QED BY <2>1, <2>2, <1>1, <1>2, <1>4, <1>6 DEF IndInv, FetchesKnown
<1>9. OtherTypes'
  <2>1. fetches' \subseteq Fetch
    BY <1>6, <1>7, TypesSplit DEF OtherTypes
  <2> QED BY <2>1, <1>2, TypesSplit DEF OtherTypes
<1>10. QueuesKnown' /\ RefusedRaced' /\ AskedByUser'
  BY <1>2, <1>3, QueuesKept
<1>11. StreamIsTheUsers'
  BY <1>2 DEF IndInv, StreamIsTheUsers
<1> QED
  BY <1>4, <1>5, <1>8, <1>9, <1>10, <1>11, TypesSplit DEF IndInv

\* A token is given to the main queue.
LEMMA PostTokenStep ==
  ASSUME IndInv, PostToken PROVE IndInv'
<1>1. PICK f \in fetches :
        /\ f.user # Unread /\ fetches' = fetches \ {f}
        /\ main' = Append(main, Block("token", f.user, f.counter, f.closes))
  BY DEF PostToken, PostToMain
<1>2. /\ auth' = auth /\ worker' = worker /\ counter' = counter
      /\ current' = current /\ queues' = queues /\ stream' = stream /\ token' = token
      /\ closes' = closes /\ call' = call /\ landed' = landed /\ refused' = refused
      /\ changes' = changes /\ refreshes' = refreshes
  BY DEF PostToken, remote, results, bounds
<1>3. KeepsCalls
  BY <1>2, SameCalls
<1>4. Told' = Told /\ TokenTasksKnown' /\ WritesKnown' /\ worker' \in Seq(WorkerTask)
  BY <1>2, <1>3, WorkerKept
<1> DEFINE e == Block("token", f.user, f.counter, f.closes)
<1>5. e \in MainBlock /\ e.kind = "token" /\ e.user = f.user /\ e.counter = f.counter
  <2>1. f.user \in Identity /\ f.counter \in Nat /\ f.closes \in Nat
    <3>1. f \in Fetch
      BY TypesSplit DEF OtherTypes
    <3> QED BY <3>1, <1>1 DEF Fetch
  <2> QED BY <2>1, Blocks
<1>6. main' = Append(main, e)
  BY <1>1
<1> HIDE DEF e
<1>7. AuthKnown' /\ FetchesKnown' /\ TokenBlocksKnown' /\ AnswersKnown' /\ main' \in Seq(MainBlock)
  <2>1. /\ e.counter <= counter
        /\ e.counter = counter /\ NoUser(main, 1, Len(main)) => e.user \in Told
    BY <1>1, <1>5 DEF IndInv, FetchesKnown
  <2>2. fetches' \subseteq fetches
    BY <1>1
  <2> QED BY <2>1, <2>2, <1>2, <1>3, <1>4, <1>5, <1>6, MainGrows
<1>8. OtherTypes'
  <2>1. fetches' \subseteq Fetch
    BY <1>1, TypesSplit DEF OtherTypes
  <2> QED BY <2>1, <1>2, TypesSplit DEF OtherTypes
<1>9. QueuesKnown' /\ RefusedRaced' /\ AskedByUser'
  BY <1>2, <1>3, QueuesKept
<1>10. StreamIsTheUsers'
  BY <1>2 DEF IndInv, StreamIsTheUsers
<1> QED
  BY <1>4, <1>7, <1>8, <1>9, <1>10, TypesSplit DEF IndInv

\* A call begins, for the user of the moment.
LEMMA AskStep ==
  ASSUME IndInv, Ask PROVE IndInv'
<1>1. PICK c \in Call :
        /\ call[c].phase = "idle"
        /\ call' = [call EXCEPT ![c] = [phase |-> "asked", owner |-> auth, raced |-> FALSE]]
  BY DEF Ask
<1>2. /\ auth' = auth /\ main' = main /\ worker' = worker /\ counter' = counter
      /\ fetches' = fetches /\ current' = current /\ queues' = queues /\ stream' = stream
      /\ token' = token /\ closes' = closes /\ landed' = landed /\ refused' = refused
      /\ changes' = changes /\ refreshes' = refreshes
  BY DEF Ask, remote, results, bounds
<1>3. OtherTypes
  BY TypesSplit
<1>4. /\ \A d \in Call : d # c => call'[d] = call[d]
      /\ call'[c] = [phase |-> "asked", owner |-> auth, raced |-> FALSE]
  BY <1>1, <1>3 DEF OtherTypes
<1>5. KeepsCalls
  BY <1>1, <1>4 DEF KeepsCalls, For
<1>6. AskedByUser'
  <2>1. ASSUME NEW d \in Call, call'[d].phase = "asked" PROVE For(call', d, auth)
    BY <2>1, <1>4 DEF IndInv, AskedByUser, For
  <2> QED BY <2>1, <1>2 DEF AskedByUser
<1>7. Told' = Told /\ TokenTasksKnown' /\ WritesKnown' /\ worker' \in Seq(WorkerTask)
  BY <1>2, <1>5, WorkerKept
<1>8. AuthKnown' /\ FetchesKnown' /\ TokenBlocksKnown' /\ AnswersKnown' /\ main' \in Seq(MainBlock)
  <2>1. Told \subseteq Told' /\ KeepsFetches
    BY <1>2, <1>7, SameFetches
  <2> QED BY <2>1, <1>2, <1>5, MainKept
<1>9. OtherTypes'
  <2>1. call' \in [Call -> [phase : {"idle", "asked", "posted", "written", "dropped"},
                            owner : Identity, raced : BOOLEAN]]
    BY <1>1, <1>3 DEF OtherTypes
  <2> QED BY <2>1, <1>2, <1>3 DEF OtherTypes
<1>10. QueuesKnown' /\ RefusedRaced'
  BY <1>2, <1>5, QueuesKept
<1>11. StreamIsTheUsers'
  BY <1>2 DEF IndInv, StreamIsTheUsers
<1> QED
  BY <1>6, <1>7, <1>8, <1>9, <1>10, <1>11, TypesSplit DEF IndInv

\* A call goes on to another phase.
LEMMA PhaseChanges ==
  ASSUME IndInv, NEW c \in Call, NEW p \in {"posted", "written", "dropped"}, auth' = auth,
         call' = [call EXCEPT ![c].phase = p]
  PROVE  /\ KeepsCalls /\ AskedByUser'
         /\ call' \in [Call -> [phase : {"idle", "asked", "posted", "written", "dropped"},
                                owner : Identity, raced : BOOLEAN]]
<1>1. call \in [Call -> [phase : {"idle", "asked", "posted", "written", "dropped"},
                         owner : Identity, raced : BOOLEAN]]
  BY TypesSplit DEF OtherTypes
<1>2. /\ \A d \in Call : d # c => call'[d] = call[d]
      /\ call'[c] = [call[c] EXCEPT !.phase = p]
  BY <1>1
<1>3. /\ call'[c].phase = p /\ call'[c].owner = call[c].owner /\ call'[c].raced = call[c].raced
      /\ call'[c] \in [phase : {"idle", "asked", "posted", "written", "dropped"},
                       owner : Identity, raced : BOOLEAN]
  BY <1>1, <1>2
<1>4. KeepsCalls
  BY <1>2, <1>3 DEF KeepsCalls, For
<1>5. AskedByUser'
  <2>1. ASSUME NEW d \in Call, call'[d].phase = "asked" PROVE For(call', d, auth)
    BY <2>1, <1>2, <1>3 DEF IndInv, AskedByUser, For
  <2> QED BY <2>1 DEF AskedByUser
<1>6. call' \in [Call -> [phase : {"idle", "asked", "posted", "written", "dropped"},
                          owner : Identity, raced : BOOLEAN]]
  BY <1>1, <1>3
<1> QED BY <1>4, <1>5, <1>6

\* The reading of a call is answered.
LEMMA AnsweredStep ==
  ASSUME IndInv, Answered PROVE IndInv'
<1>1. PICK c \in Call :
        /\ call[c].phase = "asked" /\ call' = [call EXCEPT ![c].phase = "posted"]
        /\ main' = Append(main, [kind |-> "answer", call |-> c])
  BY DEF Answered, PostToMain
<1>2. /\ auth' = auth /\ worker' = worker /\ counter' = counter
      /\ fetches' = fetches /\ current' = current /\ queues' = queues /\ stream' = stream
      /\ token' = token /\ closes' = closes /\ landed' = landed /\ refused' = refused
      /\ changes' = changes /\ refreshes' = refreshes
  BY DEF Answered, remote, results, bounds
<1>3. /\ KeepsCalls /\ AskedByUser'
      /\ call' \in [Call -> [phase : {"idle", "asked", "posted", "written", "dropped"},
                             owner : Identity, raced : BOOLEAN]]
  BY <1>1, <1>2, PhaseChanges
<1>4. Told' = Told /\ TokenTasksKnown' /\ WritesKnown' /\ worker' \in Seq(WorkerTask)
  BY <1>2, <1>3, WorkerKept
<1> DEFINE e == [kind |-> "answer", call |-> c]
<1>5. e \in MainBlock /\ e.kind = "answer" /\ e.call = c
  BY DEF MainBlock
<1>6. main' = Append(main, e)
  BY <1>1
<1> HIDE DEF e
<1>7. AuthKnown' /\ FetchesKnown' /\ TokenBlocksKnown' /\ AnswersKnown' /\ main' \in Seq(MainBlock)
  <2>1. KnownAt(main, Len(main), Told, auth) /\ For(call, e.call, auth) /\ auth \in Identity
    BY <1>1, <1>5, QueueEntries DEF IndInv, AuthKnown, AskedByUser
  <2> QED BY <2>1, <1>2, <1>3, <1>4, <1>5, <1>6, MainGrows
<1>8. OtherTypes'
  BY <1>2, <1>3, TypesSplit DEF OtherTypes
<1>9. QueuesKnown' /\ RefusedRaced'
  BY <1>2, <1>3, QueuesKept
<1>10. StreamIsTheUsers'
  BY <1>2 DEF IndInv, StreamIsTheUsers
<1> QED
  BY <1>3, <1>4, <1>7, <1>8, <1>9, <1>10, TypesSplit DEF IndInv

-----------------------------------------------------------------------------
(* What is at the head of a queue.                                          *)

\* At the first place the user known is the one before the queue.
LEMMA FirstPlace ==
  ASSUME NEW s, NEW T, NEW u
  PROVE  /\ NoUser(s, 1, 1 - 1)
         /\ KnownAt(s, 1 - 1, T, u) => u \in T
<1> QED BY DEF NoUser, KnownAt, LastUser

LEMMA HeadOfMain ==
  ASSUME IndInv, main # <<>>
  PROVE  /\ Head(main) = main[1] /\ Head(main) \in MainBlock /\ 1 \in 1..Len(main)
         /\ Head(main).kind = "token" =>
               /\ Head(main).user \in Identity /\ Head(main).counter \in Nat
               /\ Head(main).closes \in Nat
               /\ Head(main).counter = counter => Head(main).user \in Told
         /\ Head(main).kind = "user" => Head(main).user \in Identity
         /\ Head(main).kind = "answer" =>
               Head(main).call \in Call /\ \E u \in Told : For(call, Head(main).call, u)
<1>1. Head(main) = main[1] /\ Head(main) \in MainBlock
  BY QueueEntries, HeadTailProperties
<1>2. 1 \in 1..Len(main)
  <2>1. Len(main) # 0
    BY QueueEntries, EmptySeq
  <2> QED BY <2>1, QueueEntries
<1>3. \A e \in MainBlock :
        /\ e.kind # "answer" => e.user \in Identity /\ e.counter \in Nat /\ e.closes \in Nat
        /\ e.kind = "answer" => e.call \in Call
  BY DEF MainBlock
<1>4. Head(main).kind = "token" /\ Head(main).counter = counter => Head(main).user \in Told
  BY <1>1, <1>2, FirstPlace DEF IndInv, TokenBlocksKnown
<1>5. Head(main).kind = "answer" => \E u \in Told : For(call, Head(main).call, u)
  BY <1>1, <1>2, FirstPlace DEF IndInv, AnswersKnown
<1> QED BY <1>1, <1>2, <1>3, <1>4, <1>5

LEMMA HeadOfWorker ==
  ASSUME IndInv, worker # <<>>
  PROVE  /\ Head(worker).kind = "user" => Head(worker).user \in Identity
         /\ Head(worker).kind = "token" => Head(worker).user = current
         /\ Head(worker).kind = "write" =>
               Head(worker).call \in Call /\ For(call, Head(worker).call, current)
<1>1. Head(worker) = worker[1] /\ Head(worker) \in WorkerTask
  BY QueueEntries, HeadTailProperties
<1>2. 1 \in 1..Len(worker)
  <2>1. Len(worker) # 0
    BY QueueEntries, EmptySeq
  <2> QED BY <2>1, QueueEntries
<1>3. \A e \in WorkerTask :
        /\ e.kind = "user" => e.user \in Identity
        /\ e.kind = "write" => e.call \in Call
  BY DEF WorkerTask
<1>4. Head(worker).kind = "token" => Head(worker).user \in {current}
  BY <1>1, <1>2, FirstPlace DEF IndInv, TokenTasksKnown
<1>5. Head(worker).kind = "write" => \E u \in {current} : For(call, Head(worker).call, u)
  BY <1>1, <1>2, FirstPlace DEF IndInv, WritesKnown
<1> QED BY <1>1, <1>3, <1>4, <1>5

-----------------------------------------------------------------------------
(* The actions of the main queue.                                           *)

\* The provider counts the change and tells the worker queue.
LEMMA RunUserStep ==
  ASSUME IndInv, RunUser PROVE IndInv'
<1>1. /\ main # <<>> /\ Head(main).kind = "user" /\ main' = Tail(main)
      /\ counter' = counter + 1
      /\ worker' = Append(worker, Block("user", Head(main).user, 0, 0))
      /\ auth' = auth /\ fetches' = fetches /\ current' = current /\ queues' = queues
      /\ stream' = stream /\ token' = token /\ closes' = closes /\ call' = call
      /\ landed' = landed /\ refused' = refused /\ changes' = changes /\ refreshes' = refreshes
  BY DEF RunUser, RunMain, Enqueue, remote, results, bounds
<1>2. KeepsCalls
  BY <1>1, SameCalls
<1>3. Head(main).user \in Identity
  BY <1>1, HeadOfMain
<1> DEFINE e == Block("user", Head(main).user, 0, 0)
<1>4. e \in WorkerTask /\ e.kind = "user" /\ e.user = Head(main).user
  BY <1>3 DEF Block, WorkerTask
<1>5. worker' = Append(worker, e)
  BY <1>1
<1> HIDE DEF e
<1>6. Head(main).user \in Told' /\ TokenTasksKnown' /\ WritesKnown' /\ worker' \in Seq(WorkerTask)
  <2>1. e.user \in Told' /\ TokenTasksKnown' /\ WritesKnown' /\ worker' \in Seq(WorkerTask)
    BY <1>1, <1>2, <1>3, <1>4, <1>5, WorkerGrows
  <2> QED BY <2>1, <1>4
<1>7. AuthKnown' /\ FetchesKnown' /\ TokenBlocksKnown' /\ AnswersKnown' /\ main' \in Seq(MainBlock)
  <2>1. KeepsFetches
    BY <1>1, SameFetches
  <2> QED BY <2>1, <1>1, <1>2, <1>6, MainRuns
<1>8. OtherTypes'
  BY <1>1, TypesSplit DEF OtherTypes
<1>9. QueuesKnown' /\ RefusedRaced' /\ AskedByUser'
  BY <1>1, <1>2, QueuesKept
<1>10. StreamIsTheUsers'
  BY <1>1 DEF IndInv, StreamIsTheUsers
<1> QED
  BY <1>6, <1>7, <1>8, <1>9, <1>10, TypesSplit DEF IndInv

\* A token goes on to the worker queue, or is asked for again.
LEMMA RunTokenStep ==
  ASSUME IndInv, RunToken PROVE IndInv'
<1>1. /\ main # <<>> /\ Head(main).kind = "token" /\ main' = Tail(main)
      /\ auth' = auth /\ counter' = counter /\ current' = current /\ queues' = queues
      /\ stream' = stream /\ token' = token /\ closes' = closes /\ call' = call
      /\ landed' = landed /\ refused' = refused /\ changes' = changes /\ refreshes' = refreshes
  BY DEF RunToken, RunMain, remote, results, bounds
<1>2. KeepsCalls
  BY <1>1, SameCalls
<1>3. /\ Head(main).user \in Identity /\ Head(main).counter \in Nat /\ Head(main).closes \in Nat
      /\ Head(main).counter = counter => Head(main).user \in Told
  BY <1>1, HeadOfMain
<1>4. /\ Told \subseteq Told' /\ TokenTasksKnown' /\ WritesKnown' /\ worker' \in Seq(WorkerTask)
      /\ KeepsFetches /\ fetches' \subseteq Fetch
  <2>1. CASE Head(main).counter = counter
    <3> DEFINE e == Block("token", Head(main).user, 0, Head(main).closes)
    <3>1. e \in WorkerTask /\ e.kind = "token" /\ e.user = Head(main).user
      BY <1>3, Blocks
    <3>2. worker' = Append(worker, e) /\ fetches' = fetches
      BY <2>1 DEF RunToken, Enqueue
    <3> HIDE DEF e
    <3>3. Told \subseteq Told' /\ TokenTasksKnown' /\ WritesKnown' /\ worker' \in Seq(WorkerTask)
      BY <3>1, <3>2, <2>1, <1>1, <1>2, <1>3, WorkerGrows
    <3> QED BY <3>2, <3>3, SameFetches, TypesSplit DEF OtherTypes
  <2>2. CASE Head(main).counter # counter
    <3> DEFINE f == [counter |-> counter, closes |-> Head(main).closes, user |-> Unread]
    <3>1. worker' = worker /\ fetches' = fetches \cup {f}
      BY <2>2 DEF RunToken
    <3>2. f \in Fetch /\ f.user = Unread /\ f.counter = counter
      BY <1>3, QueueEntries DEF Fetch
    <3> HIDE DEF f
    <3>3. KeepsFetches /\ fetches' \subseteq Fetch
      BY <3>1, <3>2, <1>1, TypesSplit DEF KeepsFetches, OtherTypes
    <3>4. Told' = Told /\ TokenTasksKnown' /\ WritesKnown' /\ worker' \in Seq(WorkerTask)
      BY <3>1, <1>1, <1>2, WorkerKept
    <3> QED BY <3>3, <3>4
  <2> QED BY <2>1, <2>2
<1>5. AuthKnown' /\ FetchesKnown' /\ TokenBlocksKnown' /\ AnswersKnown' /\ main' \in Seq(MainBlock)
  BY <1>1, <1>2, <1>4, MainRuns
<1>6. OtherTypes'
  BY <1>1, <1>4, TypesSplit DEF OtherTypes
<1>7. QueuesKnown' /\ RefusedRaced' /\ AskedByUser'
  BY <1>1, <1>2, QueuesKept
<1>8. StreamIsTheUsers'
  BY <1>1 DEF IndInv, StreamIsTheUsers
<1> QED
  BY <1>4, <1>5, <1>6, <1>7, <1>8, TypesSplit DEF IndInv

\* A call writes, for the user known when its write will be run, or ends.
LEMMA RunAnswerStep ==
  ASSUME IndInv, RunAnswer PROVE IndInv'
<1> DEFINE c == Head(main).call
<1>1. /\ main # <<>> /\ Head(main).kind = "answer" /\ main' = Tail(main)
      /\ auth' = auth /\ counter' = counter /\ fetches' = fetches /\ current' = current
      /\ queues' = queues /\ stream' = stream /\ token' = token /\ closes' = closes
      /\ landed' = landed /\ refused' = refused /\ changes' = changes /\ refreshes' = refreshes
  BY DEF RunAnswer, RunMain, remote, results, bounds
<1>2. \/ /\ call' = [call EXCEPT ![c].phase = "written"]
         /\ worker' = Append(worker, [kind |-> "write", call |-> c])
      \/ /\ call' = [call EXCEPT ![c].phase = "dropped"]
         /\ worker' = worker
  BY DEF RunAnswer
<1>3. c \in Call /\ \E u \in Told : For(call, c, u)
  BY <1>1, HeadOfMain
<1> HIDE DEF c
<1>4. /\ KeepsCalls /\ AskedByUser'
      /\ call' \in [Call -> [phase : {"idle", "asked", "posted", "written", "dropped"},
                             owner : Identity, raced : BOOLEAN]]
  <2>1. PICK p \in {"written", "dropped"} : call' = [call EXCEPT ![c].phase = p]
    BY <1>2
  <2>2. p \in {"posted", "written", "dropped"}
    OBVIOUS
  <2> QED BY <2>1, <2>2, <1>1, <1>3, PhaseChanges
<1>5. Told \subseteq Told' /\ TokenTasksKnown' /\ WritesKnown' /\ worker' \in Seq(WorkerTask)
  <2>1. CASE worker' = Append(worker, [kind |-> "write", call |-> c])
    <3> DEFINE e == [kind |-> "write", call |-> c]
    <3>1. e \in WorkerTask /\ e.kind = "write" /\ e.call = c
      BY <1>3 DEF WorkerTask
    <3>2. worker' = Append(worker, e)
      BY <2>1
    <3> HIDE DEF e
    <3> QED BY <3>1, <3>2, <1>1, <1>3, <1>4, WorkerGrows
  <2>2. CASE worker' = worker
    BY <2>2, <1>1, <1>4, WorkerKept
  <2> QED BY <2>1, <2>2, <1>2
<1>6. AuthKnown' /\ FetchesKnown' /\ TokenBlocksKnown' /\ AnswersKnown' /\ main' \in Seq(MainBlock)
  <2>1. KeepsFetches
    BY <1>1, SameFetches
  <2> QED BY <2>1, <1>1, <1>4, <1>5, MainRuns
<1>7. OtherTypes'
  BY <1>1, <1>4, TypesSplit DEF OtherTypes
<1>8. QueuesKnown' /\ RefusedRaced'
  BY <1>1, <1>4, QueuesKept
<1>9. StreamIsTheUsers'
  BY <1>1 DEF IndInv, StreamIsTheUsers
<1> QED
  BY <1>4, <1>5, <1>6, <1>7, <1>8, <1>9, TypesSplit DEF IndInv

-----------------------------------------------------------------------------
(* The actions of the worker queue.                                         *)

\* A stream that starts asks for a token.
LEMMA StreamStarts ==
  ASSUME IndInv, NEW needed, NEW close \in Nat, StartIf(needed, close), counter' = counter
  PROVE  /\ KeepsFetches /\ fetches' \subseteq Fetch
         /\ stream' \in {"closed", "auth", "open"} /\ stream' # "open"
<1> DEFINE f == [counter |-> counter, closes |-> close, user |-> Unread]
<1>1. f \in Fetch /\ f.user = Unread /\ f.counter = counter
  BY QueueEntries DEF Fetch
<1>2. fetches' \subseteq fetches \cup {f} /\ stream' \in {"closed", "auth"}
  BY DEF StartIf
<1> HIDE DEF f
<1> QED BY <1>1, <1>2, TypesSplit DEF KeepsFetches, OtherTypes

\* The queue is swapped, and the stream has no token until it is asked for.
LEMMA HandleCredentialChangeStep ==
  ASSUME IndInv, HandleCredentialChange PROVE IndInv'
<1>1. /\ worker # <<>> /\ Head(worker).kind = "user" /\ worker' = Tail(worker)
      /\ current' = Head(worker).user /\ closes' = closes + 1 /\ token' = Nobody
      /\ StartIf(queues[current'] # <<>>, closes')
      /\ auth' = auth /\ main' = main /\ counter' = counter /\ queues' = queues
      /\ call' = call /\ landed' = landed /\ refused' = refused
      /\ changes' = changes /\ refreshes' = refreshes
  BY DEF HandleCredentialChange, RunWorker, results, bounds
<1>2. KeepsCalls
  BY <1>1, SameCalls
<1>3. Told \subseteq Told' /\ TokenTasksKnown' /\ WritesKnown' /\ worker' \in Seq(WorkerTask)
  BY <1>1, <1>2, WorkerRuns
<1>4. /\ KeepsFetches /\ fetches' \subseteq Fetch
      /\ stream' \in {"closed", "auth", "open"} /\ stream' # "open"
  <2>1. closes' \in Nat
    BY <1>1, TypesSplit DEF OtherTypes
  <2> QED BY <2>1, <1>1, StreamStarts
<1>5. AuthKnown' /\ FetchesKnown' /\ TokenBlocksKnown' /\ AnswersKnown' /\ main' \in Seq(MainBlock)
  BY <1>1, <1>2, <1>3, <1>4, MainKept
<1>6. OtherTypes'
  <2>1. current' \in Identity /\ token' \in Identity
    BY <1>1, HeadOfWorker DEF Identity
  <2> QED BY <2>1, <1>1, <1>4, TypesSplit DEF OtherTypes
<1>7. QueuesKnown' /\ RefusedRaced' /\ AskedByUser'
  BY <1>1, <1>2, QueuesKept
<1>8. StreamIsTheUsers'
  BY <1>4 DEF StreamIsTheUsers
<1> QED
  BY <1>3, <1>5, <1>6, <1>7, <1>8, TypesSplit DEF IndInv

\* A token that reaches the stream is of the user SyncEngine has.
LEMMA TakeTokenStep ==
  ASSUME IndInv, TakeToken PROVE IndInv'
<1>1. /\ worker # <<>> /\ Head(worker).kind = "token" /\ worker' = Tail(worker)
      /\ auth' = auth /\ main' = main /\ counter' = counter /\ queues' = queues
      /\ current' = current /\ closes' = closes /\ fetches' = fetches
      /\ call' = call /\ landed' = landed /\ refused' = refused
      /\ changes' = changes /\ refreshes' = refreshes
  BY DEF TakeToken, RunWorker, results, bounds
<1>2. KeepsCalls /\ KeepsFetches
  BY <1>1, SameCalls, SameFetches
<1>3. Told \subseteq Told' /\ TokenTasksKnown' /\ WritesKnown' /\ worker' \in Seq(WorkerTask)
  BY <1>1, <1>2, WorkerRuns
<1>4. AuthKnown' /\ FetchesKnown' /\ TokenBlocksKnown' /\ AnswersKnown' /\ main' \in Seq(MainBlock)
  BY <1>1, <1>2, <1>3, MainKept
<1>5. \/ stream' = "open" /\ token' = current
      \/ stream' = stream /\ token' = token
  <2>1. Head(worker).user = current
    BY <1>1, HeadOfWorker
  <2> QED BY <2>1 DEF TakeToken
<1>6. OtherTypes'
  BY <1>1, <1>5, TypesSplit DEF OtherTypes
<1>7. QueuesKnown' /\ RefusedRaced' /\ AskedByUser'
  BY <1>1, <1>2, QueuesKept
<1>8. StreamIsTheUsers'
  BY <1>1, <1>5 DEF IndInv, StreamIsTheUsers
<1> QED
  BY <1>3, <1>4, <1>6, <1>7, <1>8, TypesSplit DEF IndInv

\* A write goes to the queue of the user SyncEngine has.
LEMMA WriteMutationsStep ==
  ASSUME IndInv, WriteMutations PROVE IndInv'
<1> DEFINE c == Head(worker).call
<1>1. /\ worker # <<>> /\ Head(worker).kind = "write" /\ worker' = Tail(worker)
      /\ queues' = [queues EXCEPT ![current] = Append(queues[current], c)]
      /\ auth' = auth /\ main' = main /\ counter' = counter
      /\ current' = current /\ closes' = closes /\ token' = token
      /\ call' = call /\ landed' = landed /\ refused' = refused
      /\ changes' = changes /\ refreshes' = refreshes
  BY DEF WriteMutations, RunWorker, results, bounds
<1>2. KeepsCalls
  BY <1>1, SameCalls
<1>3. Told \subseteq Told' /\ TokenTasksKnown' /\ WritesKnown' /\ worker' \in Seq(WorkerTask)
  BY <1>1, <1>2, WorkerRuns
<1>4. c \in Call /\ For(call, c, current)
  BY <1>1, HeadOfWorker
<1> HIDE DEF c
<1>5. /\ KeepsFetches /\ fetches' \subseteq Fetch
      /\ stream' \in {"closed", "auth", "open"}
      /\ stream' # "open" \/ stream' = stream
  <2>1. CASE stream = "closed"
    <3>1. StartIf(TRUE, closes) /\ closes \in Nat
      BY <2>1, TypesSplit DEF WriteMutations, OtherTypes
    <3> QED BY <3>1, <1>1, StreamStarts
  <2>2. CASE stream # "closed"
    <3>1. stream' = stream /\ fetches' = fetches
      BY <2>2 DEF WriteMutations
    <3> QED BY <3>1, SameFetches, TypesSplit DEF OtherTypes
  <2> QED BY <2>1, <2>2
<1>6. AuthKnown' /\ FetchesKnown' /\ TokenBlocksKnown' /\ AnswersKnown' /\ main' \in Seq(MainBlock)
  BY <1>1, <1>2, <1>3, <1>5, MainKept
<1>7. queues' \in [Identity -> Seq(Call)] /\ QueuesKnown'
  <2>1. /\ queues \in [Identity -> Seq(Call)] /\ current \in Identity
        /\ \A u \in Identity : queues[u] \in Seq(Call)
    BY TypesSplit DEF OtherTypes
  <2>2. /\ \A u \in Identity : u # current => queues'[u] = queues[u]
        /\ queues'[current] = Append(queues[current], c)
    BY <2>1, <1>1
  <2> DEFINE q == queues[current]
  <2>3. /\ Append(q, c) \in Seq(Call) /\ Len(Append(q, c)) = Len(q) + 1 /\ Len(q) \in Nat
        /\ \A i \in 1..Len(q) : Append(q, c)[i] = q[i]
        /\ Append(q, c)[Len(q) + 1] = c
    BY <2>1, <1>4, AppendProperties, LenProperties
  <2>4. ASSUME NEW i \in 1..Len(queues'[current]) PROVE For(call, queues'[current][i], current)
    <3>1. \A j \in 1..Len(q) : For(call, q[j], current)
      BY <2>1 DEF IndInv, QueuesKnown
    <3>2. i \in 1..Len(q) \/ i = Len(q) + 1
      BY <2>2, <2>3
    <3> QED BY <3>1, <3>2, <2>2, <2>3, <1>4
  <2>5. ASSUME NEW u \in Identity, NEW i \in 1..Len(queues'[u]) PROVE For(call, queues'[u][i], u)
    BY <2>2, <2>4 DEF IndInv, QueuesKnown
  <2>6. queues' \in [Identity -> Seq(Call)]
    BY <2>1, <2>3, <1>1
  <2> QED BY <2>5, <2>6, <1>1 DEF QueuesKnown
<1>8. OtherTypes'
  BY <1>1, <1>5, <1>7, TypesSplit DEF OtherTypes
<1>9. RefusedRaced' /\ AskedByUser'
  BY <1>1, <1>2, QueuesKept
<1>10. StreamIsTheUsers'
  BY <1>1, <1>5 DEF IndInv, StreamIsTheUsers
<1> QED
  BY <1>3, <1>6, <1>7, <1>8, <1>9, <1>10, TypesSplit DEF IndInv

-----------------------------------------------------------------------------
(* The server and the stream.                                               *)

\* The server makes the write of the token's owner, and refuses another's.
LEMMA ServeStep ==
  ASSUME IndInv, Serve PROVE IndInv'
<1> DEFINE q == queues[current]
           c == Head(q)
<1>1. /\ stream = "open" /\ q # <<>>
      /\ queues' = [queues EXCEPT ![current] = Tail(q)]
      /\ auth' = auth /\ main' = main /\ worker' = worker /\ counter' = counter
      /\ fetches' = fetches /\ current' = current /\ stream' = stream /\ token' = token
      /\ closes' = closes /\ call' = call /\ changes' = changes /\ refreshes' = refreshes
  BY DEF Serve, remote, bounds
<1>2. \/ landed' = landed \cup {c} /\ refused' = refused
      \/ call[c].owner # token /\ refused' = refused \cup {c} /\ landed' = landed
  BY DEF Serve
<1>3. KeepsCalls /\ KeepsFetches
  BY <1>1, SameCalls, SameFetches
<1>4. Told' = Told /\ TokenTasksKnown' /\ WritesKnown' /\ worker' \in Seq(WorkerTask)
  BY <1>1, <1>3, WorkerKept
<1>5. AuthKnown' /\ FetchesKnown' /\ TokenBlocksKnown' /\ AnswersKnown' /\ main' \in Seq(MainBlock)
  BY <1>1, <1>3, <1>4, MainKept
<1>6. /\ queues \in [Identity -> Seq(Call)] /\ current \in Identity
      /\ \A u \in Identity : queues[u] \in Seq(Call)
  BY TypesSplit DEF OtherTypes
<1>7. /\ Tail(q) \in Seq(Call) /\ Len(Tail(q)) = Len(q) - 1 /\ Len(q) \in Nat
      /\ \A i \in 1..Len(Tail(q)) : Tail(q)[i] = q[i + 1]
      /\ c \in Call /\ c = q[1] /\ 1 \in 1..Len(q)
  <2>1. q \in Seq(Call)
    BY <1>6
  <2>2. Len(q) # 0 /\ Len(q) \in Nat
    BY <2>1, <1>1, EmptySeq, LenProperties
  <2>3. /\ Tail(q) \in Seq(Call) /\ Len(Tail(q)) = Len(q) - 1
        /\ \A i \in 1..Len(Tail(q)) : Tail(q)[i] = q[i + 1]
        /\ c \in Call /\ c = q[1]
    BY <2>1, <1>1, HeadTailProperties
  <2>4. 1 \in 1..Len(q)
    BY <2>2
  <2> QED BY <2>2, <2>3, <2>4
<1>8. \A i \in 1..Len(q) : For(call, q[i], current)
  BY <1>6 DEF IndInv, QueuesKnown
<1>9. queues' \in [Identity -> Seq(Call)] /\ QueuesKnown'
  <2>1. /\ \A u \in Identity : u # current => queues'[u] = queues[u]
        /\ queues'[current] = Tail(q)
    BY <1>1, <1>6
  <2>2. ASSUME NEW i \in 1..Len(queues'[current]) PROVE For(call, queues'[current][i], current)
    <3>1. i \in 1..Len(Tail(q)) /\ i + 1 \in 1..Len(q)
      BY <2>1, <1>7
    <3> QED BY <3>1, <2>1, <1>7, <1>8
  <2>3. ASSUME NEW u \in Identity, NEW i \in 1..Len(queues'[u]) PROVE For(call, queues'[u][i], u)
    BY <2>1, <2>2 DEF IndInv, QueuesKnown
  <2>4. queues' \in [Identity -> Seq(Call)]
    BY <1>1, <1>6, <1>7
  <2> QED BY <2>3, <2>4, <1>1 DEF QueuesKnown
<1>10. RefusedRaced'
  <2>1. call[c].owner # token => call[c].phase # "idle" /\ call[c].raced
    BY <1>1, <1>7, <1>8 DEF For, IndInv, StreamIsTheUsers
  <2> HIDE DEF c
  <2> QED BY <2>1, <1>1, <1>2 DEF IndInv, RefusedRaced
<1>11. OtherTypes'
  <2>1. landed' \subseteq Call /\ refused' \subseteq Call
    BY <1>2, <1>7, TypesSplit DEF OtherTypes
  <2> HIDE DEF c, q
  <2> QED BY <2>1, <1>1, <1>9, TypesSplit DEF OtherTypes
<1>12. AskedByUser'
  BY <1>1, <1>3, QueuesKept
<1>13. StreamIsTheUsers'
  BY <1>1 DEF IndInv, StreamIsTheUsers
<1> QED
  BY <1>4, <1>5, <1>9, <1>10, <1>11, <1>12, <1>13, TypesSplit DEF IndInv

LEMMA IdleStopStep ==
  ASSUME IndInv, IdleStop PROVE IndInv'
<1>1. /\ stream' = "closed" /\ token' = Nobody /\ closes' = closes + 1
      /\ auth' = auth /\ main' = main /\ worker' = worker /\ counter' = counter
      /\ fetches' = fetches /\ current' = current /\ queues' = queues /\ call' = call
      /\ landed' = landed /\ refused' = refused /\ changes' = changes /\ refreshes' = refreshes
  BY DEF IdleStop, results, bounds
<1>2. KeepsCalls /\ KeepsFetches
  BY <1>1, SameCalls, SameFetches
<1>3. Told' = Told /\ TokenTasksKnown' /\ WritesKnown' /\ worker' \in Seq(WorkerTask)
  BY <1>1, <1>2, WorkerKept
<1>4. AuthKnown' /\ FetchesKnown' /\ TokenBlocksKnown' /\ AnswersKnown' /\ main' \in Seq(MainBlock)
  BY <1>1, <1>2, <1>3, MainKept
<1>5. OtherTypes'
  BY <1>1, TypesSplit DEF OtherTypes, Identity
<1>6. QueuesKnown' /\ RefusedRaced' /\ AskedByUser'
  BY <1>1, <1>2, QueuesKept
<1>7. StreamIsTheUsers'
  BY <1>1 DEF StreamIsTheUsers
<1> QED
  BY <1>3, <1>4, <1>5, <1>6, <1>7, TypesSplit DEF IndInv

\* A step that leaves all as it is.
LEMMA StutterStep ==
  ASSUME IndInv, UNCHANGED vars PROVE IndInv'
<1>1. /\ auth' = auth /\ main' = main /\ worker' = worker /\ counter' = counter
      /\ fetches' = fetches /\ current' = current /\ queues' = queues /\ call' = call
      /\ stream' = stream /\ token' = token /\ closes' = closes
      /\ landed' = landed /\ refused' = refused /\ changes' = changes /\ refreshes' = refreshes
  BY DEF vars, remote, results, bounds
<1>2. KeepsCalls /\ KeepsFetches
  BY <1>1, SameCalls, SameFetches
<1>3. Told' = Told /\ TokenTasksKnown' /\ WritesKnown' /\ worker' \in Seq(WorkerTask)
  BY <1>1, <1>2, WorkerKept
<1>4. AuthKnown' /\ FetchesKnown' /\ TokenBlocksKnown' /\ AnswersKnown' /\ main' \in Seq(MainBlock)
  BY <1>1, <1>2, <1>3, MainKept
<1>5. OtherTypes'
  BY <1>1, TypesSplit DEF OtherTypes
<1>6. QueuesKnown' /\ RefusedRaced' /\ AskedByUser'
  BY <1>1, <1>2, QueuesKept
<1>7. StreamIsTheUsers'
  BY <1>1 DEF IndInv, StreamIsTheUsers
<1> QED
  BY <1>3, <1>4, <1>5, <1>6, <1>7, TypesSplit DEF IndInv

-----------------------------------------------------------------------------
(* The theorems.                                                            *)

LEMMA StepIndInv == IndInv /\ [Next]_vars => IndInv'
<1> SUFFICES ASSUME IndInv, [Next]_vars PROVE IndInv'
  OBVIOUS
<1>1. CASE UpdateCurrentUser
  BY <1>1, UpdateCurrentUserStep
<1>2. CASE Refresh
  BY <1>2, RefreshStep
<1>3. CASE Ask
  BY <1>3, AskStep
<1>4. CASE Answered
  BY <1>4, AnsweredStep
<1>5. CASE IdleStop
  BY <1>5, IdleStopStep
<1>6. CASE Main
  BY <1>6, RunUserStep, RunTokenStep, RunAnswerStep DEF Main
<1>7. CASE Worker
  BY <1>7, HandleCredentialChangeStep, TakeTokenStep, WriteMutationsStep DEF Worker
<1>8. CASE Tokens
  BY <1>8, FindUserStep, PostTokenStep DEF Tokens
<1>9. CASE Serve
  BY <1>9, ServeStep
<1>10. CASE UNCHANGED vars
  BY <1>10, StutterStep
<1> QED
  BY <1>1, <1>2, <1>3, <1>4, <1>5, <1>6, <1>7, <1>8, <1>9, <1>10 DEF Next

LEMMA Invariance == Spec => []IndInv
<1> QED BY InitIndInv, StepIndInv, PTL DEF Spec

\* A stream that is open holds a token of the user whose queue it sends, in whatever
\* order the main queue and the worker queue learn of users and of tokens.
THEOREM StreamOfTheUser == Spec => []StreamConsistent
<1>1. IndInv => StreamConsistent
  BY DEF IndInv, Types, StreamConsistent
<1> QED BY <1>1, Invariance, PTL

\* A write stays in the queue of the user who called add, and the server refuses none
\* but those whose user changed between the call and the answer to its reading.
THEOREM NoWriteChangesHands == Spec => []WritesKeepTheirUser
<1>1. IndInv => WritesKeepTheirUser
  <2> SUFFICES ASSUME IndInv PROVE WritesKeepTheirUser
    OBVIOUS
  <2>1. OnlyRacedRefused
    BY DEF IndInv, RefusedRaced, OnlyRacedRefused
  <2>2. \A u \in Identity : DOMAIN queues[u] = 1..Len(queues[u])
    <3>1. \A u \in Identity : queues[u] \in Seq(Call)
      BY TypesSplit DEF OtherTypes
    <3> QED BY <3>1, LenProperties
  <2>3. WritesStayWithTheirUser
    BY <2>2 DEF IndInv, QueuesKnown, For, WritesStayWithTheirUser
  <2> QED BY <2>1, <2>3 DEF WritesKeepTheirUser
<1> QED BY <1>1, Invariance, PTL
=============================================================================
