------------------------------ MODULE Turnstile ------------------------------
(***************************************************************************)
(* The device turn of the continuous-batching scheduler: the FIFO          *)
(* turnstile of scheduler.c (dev_take, dev_give).  A thread draws a ticket *)
(* from dev_next, waits until dev_serving shows it, owns the device, and   *)
(* hands the turn on by advancing dev_serving.  Both counters are C        *)
(* `unsigned` and wrap: TicketMod stands for 2^32.                         *)
(***************************************************************************)
EXTENDS Integers, FiniteSets

CONSTANTS Threads,    \* the slot threads and the decode thread
          TicketMod   \* the number of distinct ticket values

\* Fewer threads than ticket values: server_run caps --parallel at 16, and
\* 16 slots plus the decode thread are far below 2^32.
ASSUME TurnstileAssumption ==
    /\ IsFiniteSet(Threads)
    /\ TicketMod \in Nat
    /\ Cardinality(Threads) < TicketMod

VARIABLES dev_next,     \* next ticket to hand out
          dev_serving,  \* ticket whose owner has the device
          ticket,       \* ticket[t]: `mine` of thread t's last dev_take
          turn          \* turn[t]: where thread t stands

turnVars == <<dev_next, dev_serving, ticket, turn>>

Tickets == 0 .. TicketMod - 1

\* Unsigned increment.
Inc(n) == IF n = TicketMod - 1 THEN 0 ELSE n + 1

\* How many increments lead from ticket b to ticket a.
Ahead(a, b) == IF a >= b THEN a - b ELSE a - b + TicketMod

Live == {t \in Threads : turn[t] # "out"}

-----------------------------------------------------------------------------
Init ==
    /\ dev_next = 0
    /\ dev_serving = 0
    /\ ticket = [t \in Threads |-> 0]
    /\ turn = [t \in Threads |-> "out"]

\* The errors this code invites, kept for mutation: a waiter that accepts the
\* previous ticket too, a ticket drawn without advancing dev_next, a give
\* that forgets to advance dev_serving, and a barging turn (a plain mutex).
EnterEarly(t) ==
    /\ turn[t] = "waiting"
    /\ Ahead(ticket[t], dev_serving) <= 1
    /\ turn' = [turn EXCEPT ![t] = "holding"]
    /\ UNCHANGED <<dev_next, dev_serving, ticket>>

EnterBarging(t) ==
    /\ turn[t] = "waiting"
    /\ \A s \in Threads : turn[s] # "holding"
    /\ turn' = [turn EXCEPT ![t] = "holding"]
    /\ UNCHANGED <<dev_next, dev_serving, ticket>>

GiveStuck(t) ==
    /\ turn[t] = "holding"
    /\ turn' = [turn EXCEPT ![t] = "out"]
    /\ UNCHANGED <<dev_next, dev_serving, ticket>>

TakeNoAdvance(t) ==
    /\ turn[t] = "out"
    /\ ticket' = [ticket EXCEPT ![t] = dev_next]
    /\ turn' = [turn EXCEPT ![t] = "waiting"]
    /\ UNCHANGED <<dev_next, dev_serving>>

\* dev_take up to its wait: one critical section of dev_mu.
Take(t) ==
    /\ turn[t] = "out"
    /\ ticket' = [ticket EXCEPT ![t] = dev_next]
    /\ dev_next' = Inc(dev_next)
    /\ turn' = [turn EXCEPT ![t] = "waiting"]
    /\ UNCHANGED dev_serving

\* dev_take's wait loop finds its ticket on display and returns.
Enter(t) ==
    /\ turn[t] = "waiting"
    /\ ticket[t] = dev_serving
    /\ turn' = [turn EXCEPT ![t] = "holding"]
    /\ UNCHANGED <<dev_next, dev_serving, ticket>>

\* dev_give.  The broadcast wakes every waiter; each rechecks its ticket.
Give(t) ==
    /\ turn[t] = "holding"
    /\ dev_serving' = Inc(dev_serving)
    /\ turn' = [turn EXCEPT ![t] = "out"]
    /\ UNCHANGED <<dev_next, ticket>>

Next == \E t \in Threads : Take(t) \/ Enter(t) \/ Give(t)

\* The operating system keeps scheduling a thread that can proceed, and a
\* device span is a finite piece of work.
Fairness == \A t \in Threads : WF_turnVars(Enter(t)) /\ WF_turnVars(Give(t))

SafeSpec == Init /\ [][Next]_turnVars

Spec == SafeSpec /\ Fairness

-----------------------------------------------------------------------------
TypeOK ==
    /\ dev_next \in Tickets
    /\ dev_serving \in Tickets
    /\ ticket \in [Threads -> Tickets]
    /\ turn \in [Threads -> {"out", "waiting", "holding"}]

\* A microbatch captures a CUDA graph and any other launch in the context
\* breaks the capture, so at most one thread may be between dev_take and
\* dev_give (scheduler.c, the comment on `dev_mu`).
OneHolder ==
    \A s, t \in Threads : turn[s] = "holding" /\ turn[t] = "holding" => s = t

\* The outstanding tickets are exactly the ones between the two counters,
\* each owned by one thread, and the holder's is the one on display.
TicketsInOrder ==
    /\ Ahead(dev_next, dev_serving) = Cardinality(Live)
    /\ \A t \in Live : Ahead(ticket[t], dev_serving) < Ahead(dev_next, dev_serving)
    /\ \A s, t \in Live : ticket[s] = ticket[t] => s = t
    /\ \A t \in Threads : turn[t] = "holding" => ticket[t] = dev_serving

IInv == TypeOK /\ TicketsInOrder

\* A thread that has drawn a ticket gets the device: the turn is FIFO, so a
\* prefill that yields between chunks cannot barge back in front of a waiter
\* (scheduler.c, the comment on dev_take).
EveryTicketServed ==
    \A t \in Threads : turn[t] = "waiting" ~> turn[t] = "holding"

-----------------------------------------------------------------------------
(* The abstract device queue this turnstile implements: the threads that    *)
(* hold a ticket, in ticket order, and whether the first of them has        *)
(* entered.                                                                 *)
Place(t) == Ahead(ticket[t], dev_serving)

queue == [k \in 1 .. Cardinality(Live) |->
             CHOOSE t \in Live : \A s \in Live : Place(s) = k - 1 => s = t]

Queue == INSTANCE TurnQueue WITH
            held <- \E t \in Threads : turn[t] = "holding"

\* The turnstile hands the device over in arrival order.
ImplementsQueue == Queue!Spec

=============================================================================
