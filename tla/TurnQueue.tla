------------------------------ MODULE TurnQueue ------------------------------
(***************************************************************************)
(* What the device turn promises: threads own the device one at a time, in *)
(* the order in which they asked for it.                                   *)
(***************************************************************************)
EXTENDS Sequences

CONSTANT Threads

VARIABLES queue,  \* the threads that asked and have not given the turn back
          held    \* whether the first of them owns the device

queueVars == <<queue, held>>

Queued(t) == \E k \in DOMAIN queue : queue[k] = t

Init == queue = <<>> /\ held = FALSE

Ask(t) == ~Queued(t) /\ queue' = Append(queue, t) /\ UNCHANGED held

Own(t) ==
    /\ queue # <<>> /\ Head(queue) = t
    /\ ~held /\ held' = TRUE
    /\ UNCHANGED queue

GiveBack(t) ==
    /\ queue # <<>> /\ Head(queue) = t
    /\ held /\ held' = FALSE
    /\ queue' = Tail(queue)

Next == \E t \in Threads : Ask(t) \/ Own(t) \/ GiveBack(t)

Fairness ==
    \A t \in Threads : WF_queueVars(Own(t)) /\ WF_queueVars(GiveBack(t))

SafeSpec == Init /\ [][Next]_queueVars

Spec == SafeSpec /\ Fairness
=============================================================================
