----------------------------- MODULE WriteQueue -----------------------------
(***************************************************************************)
(* What the write path of the Firestore client promises to its caller:      *)
(* writes reach the server in the order they were made, each at least once, *)
(* and leave the queue one by one, answered.  A write may reach the server  *)
(* again when the answer to it was lost.  This is what PortfolioStore       *)
(* assumes of its queues.                                                   *)
(***************************************************************************)
EXTENDS Naturals, Sequences

CONSTANTS
    MaxBatches   \* bound: writes made in a behaviour

VARIABLES
    queue,    \* the writes not answered, oldest first
    issued,   \* the writes made: 1..issued
    taken,    \* of the queue, the writes the server took and will answer
    log       \* what the server took, in order

state == <<queue, issued, taken, log>>

Init ==
    /\ queue = <<>>
    /\ issued = 0
    /\ taken = 0
    /\ log = <<>>

\* A write is made.
Issue ==
    /\ issued < MaxBatches
    /\ issued' = issued + 1
    /\ queue' = Append(queue, issued + 1)
    /\ UNCHANGED <<taken, log>>

\* The server takes the next one.
Take ==
    /\ taken < Len(queue)
    /\ log' = Append(log, queue[taken + 1])
    /\ taken' = taken + 1
    /\ UNCHANGED <<queue, issued>>

\* Its answer to the oldest one arrives.
Acknowledge ==
    /\ taken > 0
    /\ queue' = Tail(queue)
    /\ taken' = taken - 1
    /\ UNCHANGED <<issued, log>>

\* The oldest one is given up; answers under way are lost with the connection.
Refuse ==
    /\ queue # <<>>
    /\ queue' = Tail(queue)
    /\ taken' = 0
    /\ UNCHANGED <<issued, log>>

\* Answers are lost: what they were for will be sent again.
Lose ==
    /\ taken' \in 0..taken
    /\ UNCHANGED <<queue, issued, log>>

Next == Issue \/ Take \/ Acknowledge \/ Refuse \/ Lose

Spec == Init /\ [][Next]_state

=============================================================================
