------------------------------ MODULE Admission ------------------------------
(***************************************************************************)
(* Admission of connections (registry.c: q_push, q_pop, queue_shutdown;    *)
(* server.c: the accept loop, slot_worker and the first part of            *)
(* server_run's shutdown).  The accept thread answers the tiny requests    *)
(* itself and pushes every other connection into a ring; the slot threads  *)
(* pop them.  A full ring sheds the client with a 503, a stop fails        *)
(* whatever is still queued with a 503, and the slots then leave one by    *)
(* one.  The mutex SV.q.mu makes each critical section one action; the     *)
(* condition variable is explicit, because q_push signals one waiter only. *)
(***************************************************************************)
EXTENDS Integers, Sequences, FiniteSets

CONSTANTS Conns,    \* connections that may arrive
          Slots,    \* the slot threads
          Ring,     \* entries of SV.q.fds (512 in the code)
          Limit,    \* SV.q.limit (RUNNER_MAX_QUEUE), at most Ring
          Retries,  \* how often q_push looks for room (10 in the code)
          None      \* SOCK_INVALID

ASSUME AdmissionAssumption ==
    /\ IsFiniteSet(Slots)
    /\ Ring \in Nat \ {0}
    /\ Limit \in 1 .. Ring
    /\ Retries \in Nat \ {0}
    /\ None \notin Conns

VARIABLES
    \* SV.q, guarded by SV.q.mu
    fds, head, tail, count, shutdown,
    \* the slots in pthread_cond_wait on SV.q.cv
    asleep,
    \* the accept thread: where it stands, the connection it holds, the looks
    \* q_push has left, and the connections queue_shutdown took out
    apc, afd, looks, pending,
    \* a slot thread: where it stands and the connection it serves
    spc, sfd,
    \* stop_requested
    stop,
    \* how often each connection was answered and closed
    closes,
    \* history: connections in the order they were queued, and in the order
    \* they left the queue
    pushed, popped

queueVars  == <<fds, head, tail, count, shutdown>>
acceptVars == <<apc, afd, looks, pending>>
slotVars   == <<spc, sfd>>
vars == <<queueVars, asleep, acceptVars, slotVars, stop, closes, pushed, popped>>

\* The connections accept() has not handed out yet.
Backlog == {c \in Conns : closes[c] = 0 /\ c # afd /\ c \notin {sfd[s] : s \in Slots}
                          /\ \A i \in 1 .. Len(pushed) : pushed[i] # c}

\* For mutation: an index that stops at the end.
Next1NoWrap(i) == IF i = Ring - 1 THEN i ELSE i + 1

Next1(i) == (i + 1) % Ring

\* What the ring holds, oldest first.
Contents == [i \in 1 .. count |-> fds[(head + i - 1) % Ring]]

Init ==
    /\ fds = [i \in 0 .. Ring - 1 |-> None]
    /\ head = 0 /\ tail = 0 /\ count = 0
    /\ shutdown = FALSE
    /\ asleep = {}
    /\ apc = "check" /\ afd = None /\ looks = 0 /\ pending = <<>>
    /\ spc = [s \in Slots |-> "pop"]
    /\ sfd = [s \in Slots |-> None]
    /\ stop = FALSE
    /\ closes = [c \in Conns |-> 0]
    /\ pushed = <<>> /\ popped = <<>>

\* An answer followed by the close of the socket.
Close(c) == closes' = [closes EXCEPT ![c] = @ + 1]

----------------------------------------------------------------------------
(* The accept thread *)

\* server_request_stop: the flag the loop checks and a closed listener.
RequestStop ==
    /\ ~stop
    /\ stop' = TRUE
    /\ UNCHANGED <<queueVars, asleep, acceptVars, slotVars, closes, pushed, popped>>

\* The check at the top of the loop; a stop leaves the loop.
Check ==
    /\ apc = "check"
    /\ apc' = IF stop THEN "close" ELSE "accept"
    /\ UNCHANGED <<queueVars, asleep, afd, looks, pending, slotVars, stop, closes, pushed, popped>>

\* accept() hands out a connection; the fast path may still answer it.
Accept(c) ==
    /\ apc = "accept"
    /\ afd' = c
    /\ apc' = "fastpath"
    /\ UNCHANGED <<queueVars, asleep, looks, pending, slotVars, stop, closes, pushed, popped>>

\* accept() fails: the stop closed the listener, or the listener broke; an
\* interrupted call is tried again.
AcceptFails ==
    /\ apc = "accept"
    /\ \/ apc' = "close"
       \/ ~stop /\ apc' = "check"
    /\ UNCHANGED <<queueVars, asleep, afd, looks, pending, slotVars, stop, closes, pushed, popped>>

\* accept_fastpath answers a tiny request, or finds the client gone.
Fastpath ==
    /\ apc = "fastpath"
    /\ Close(afd)
    /\ afd' = None
    /\ apc' = "check"
    /\ UNCHANGED <<queueVars, asleep, looks, pending, slotVars, stop, pushed, popped>>

\* accept_fastpath leaves the connection to a slot: q_push begins.
Push ==
    /\ apc = "fastpath"
    /\ apc' = "push"
    /\ looks' = Retries
    /\ UNCHANGED <<queueVars, asleep, afd, pending, slotVars, stop, closes, pushed, popped>>

\* For mutation: q_push wakes nobody.
SignalNobody == asleep' = asleep

\* pthread_cond_signal: one waiter, if there is any, stops waiting.
Signal == IF asleep = {} THEN asleep' = asleep
                         ELSE \E s \in asleep : asleep' = asleep \ {s}

HasRoom == count < Limit

\* q_push finds room: the connection is queued and one slot is woken.
Enqueue ==
    /\ apc = "push" /\ looks > 0 /\ HasRoom
    /\ fds' = [fds EXCEPT ![tail] = afd]
    /\ tail' = Next1(tail)
    /\ count' = count + 1
    /\ Signal
    /\ pushed' = Append(pushed, afd)
    /\ afd' = None
    /\ apc' = "check"
    /\ UNCHANGED <<head, shutdown, looks, pending, slotVars, stop, closes, popped>>

\* q_push finds the queue full and sleeps a tick before it looks again.
LookFull ==
    /\ apc = "push" /\ looks > 0 /\ ~HasRoom
    /\ looks' = looks - 1
    /\ UNCHANGED <<queueVars, asleep, apc, afd, pending, slotVars, stop, closes, pushed, popped>>

\* q_push has looked often enough: 503 "server queue full".
Shed ==
    /\ apc = "push" /\ looks = 0
    /\ Close(afd)
    /\ afd' = None
    /\ apc' = "check"
    /\ UNCHANGED <<queueVars, asleep, looks, pending, slotVars, stop, pushed, popped>>

\* For mutation: the flag is set and the waiters are left asleep.
QueueShutdownSilent ==
    /\ apc = "close"
    /\ shutdown' = TRUE
    /\ pending' = Contents
    /\ popped' = popped \o Contents
    /\ head' = (head + count) % Ring
    /\ count' = 0
    /\ asleep' = asleep
    /\ apc' = "refuse"
    /\ UNCHANGED <<fds, tail, afd, looks, slotVars, stop, closes, pushed>>

\* For mutation: the queued clients are answered and left in the ring.
QueueShutdownKeeps ==
    /\ apc = "close"
    /\ shutdown' = TRUE
    /\ pending' = Contents
    /\ asleep' = {}
    /\ apc' = "refuse"
    /\ UNCHANGED <<fds, head, tail, count, afd, looks, slotVars, stop, closes, pushed, popped>>

\* After the loop: the listener is closed and queue_shutdown empties the ring
\* into its own array and wakes every waiter, in one critical section.
QueueShutdown ==
    /\ apc = "close"
    /\ shutdown' = TRUE
    /\ pending' = Contents
    /\ popped' = popped \o Contents
    /\ head' = (head + count) % Ring
    /\ count' = 0
    /\ asleep' = {}
    /\ apc' = "refuse"
    /\ UNCHANGED <<fds, tail, afd, looks, slotVars, stop, closes, pushed>>

\* One 503 "server shutting down" after the other, outside the lock.
Refuse ==
    /\ apc = "refuse" /\ pending # <<>>
    /\ Close(Head(pending))
    /\ pending' = Tail(pending)
    /\ UNCHANGED <<queueVars, asleep, apc, afd, looks, slotVars, stop, pushed, popped>>

\* The slots are joined; what follows destroys the queue.
Join ==
    /\ apc = "refuse" /\ pending = <<>>
    /\ \A s \in Slots : spc[s] = "exited"
    /\ apc' = "joined"
    /\ UNCHANGED <<queueVars, asleep, afd, looks, pending, slotVars, stop, closes, pushed, popped>>

----------------------------------------------------------------------------
(* A slot thread *)

\* q_pop waits: the queue is empty and nobody stopped the server.
Wait(s) ==
    /\ spc[s] = "pop" /\ s \notin asleep
    /\ count = 0 /\ ~shutdown
    /\ asleep' = asleep \cup {s}
    /\ UNCHANGED <<queueVars, acceptVars, slotVars, stop, closes, pushed, popped>>

\* A wait may end without a signal.
Spurious(s) ==
    /\ s \in asleep
    /\ asleep' = asleep \ {s}
    /\ UNCHANGED <<queueVars, acceptVars, slotVars, stop, closes, pushed, popped>>

\* q_pop takes the oldest connection.
Pop(s) ==
    /\ spc[s] = "pop" /\ s \notin asleep
    /\ count > 0
    /\ sfd' = [sfd EXCEPT ![s] = fds[head]]
    /\ head' = Next1(head)
    /\ count' = count - 1
    /\ popped' = Append(popped, fds[head])
    /\ spc' = [spc EXCEPT ![s] = "serve"]
    /\ UNCHANGED <<fds, tail, shutdown, asleep, acceptVars, stop, closes, pushed>>

\* q_pop finds the queue empty and shut down: the slot thread leaves.
PopShutdown(s) ==
    /\ spc[s] = "pop" /\ s \notin asleep
    /\ count = 0 /\ shutdown
    /\ spc' = [spc EXCEPT ![s] = "exited"]
    /\ UNCHANGED <<queueVars, asleep, acceptVars, sfd, stop, closes, pushed, popped>>

\* handle_conn answers and the worker closes the connection.
Serve(s) ==
    /\ spc[s] = "serve"
    /\ Close(sfd[s])
    /\ sfd' = [sfd EXCEPT ![s] = None]
    /\ spc' = [spc EXCEPT ![s] = "pop"]
    /\ UNCHANGED <<queueVars, asleep, acceptVars, stop, pushed, popped>>

----------------------------------------------------------------------------
AcceptThread ==
    \/ Check \/ Fastpath \/ Push \/ Enqueue \/ LookFull \/ Shed
    \/ QueueShutdown \/ Refuse \/ Join

Slot(s) == Wait(s) \/ Pop(s) \/ PopShutdown(s) \/ Serve(s)

\* After the joins nothing of this component moves.
Done ==
    /\ apc = "joined"
    /\ UNCHANGED vars

Next ==
    \/ RequestStop
    \/ \E c \in Backlog : Accept(c)
    \/ AcceptFails
    \/ AcceptThread
    \/ \E s \in Slots : Slot(s) \/ Spurious(s)
    \/ Done

\* The threads run, and accept() returns once a stop has closed the listener.
\* Neither an arrival nor a stop nor a broken listener nor a spurious wake-up
\* is assumed.
Fairness ==
    /\ WF_vars(AcceptThread)
    /\ WF_vars(stop /\ AcceptFails)
    /\ \A s \in Slots : WF_vars(Slot(s))

SafeSpec == Init /\ [][Next]_vars
Spec == SafeSpec /\ Fairness

----------------------------------------------------------------------------
TypeOK ==
    /\ fds \in [0 .. Ring - 1 -> Conns \cup {None}]
    /\ head \in 0 .. Ring - 1 /\ tail \in 0 .. Ring - 1
    /\ count \in 0 .. Limit
    /\ shutdown \in BOOLEAN /\ stop \in BOOLEAN
    /\ asleep \subseteq Slots
    /\ apc \in {"check", "accept", "fastpath", "push", "close", "refuse", "joined"}
    /\ afd \in Conns \cup {None}
    /\ looks \in 0 .. Retries
    /\ pending \in Seq(Conns)
    /\ spc \in [Slots -> {"pop", "serve", "exited"}]
    /\ sfd \in [Slots -> Conns \cup {None}]
    /\ closes \in [Conns -> Nat]
    /\ pushed \in Seq(Conns) /\ popped \in Seq(Conns)

\* Every connection the server accepted is answered and closed once: by the
\* fast path, the shed, the shutdown or a slot, never by two of them, and when
\* the slots are joined none is left over.  (q_push, queue_shutdown and
\* slot_worker each close on their own.)
OneEnding ==
    /\ \A c \in Conns : closes[c] <= 1
    /\ apc = "joined" =>
        /\ afd = None /\ count = 0
        /\ \A i \in 1 .. Len(pushed) : closes[pushed[i]] = 1

\* Connections leave the ring in the order they entered it and none is
\* skipped, also where head and tail wrap and where the ring is full to its
\* last entry, so that head and tail meet (the arithmetic of q_push, q_pop and
\* queue_shutdown).
QueueOrder == pushed = popped \o Contents

\* A queued connection is not left in the ring while slots sleep: q_push's one
\* signal is enough (no lost wake-up between q_push and q_pop).
QueuedIsTaken ==
    \A c \in Conns : (\E i \in 1 .. count : Contents[i] = c) ~> (closes[c] = 1)

\* A stop ends admission: the accept loop leaves accept(), the queued clients
\* are refused, and every slot, asleep or serving, reaches its join.
StopReachesJoin == stop ~> (apc = "joined")
=============================================================================
