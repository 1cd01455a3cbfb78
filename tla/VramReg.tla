------------------------------- MODULE VramReg -------------------------------
(***************************************************************************)
(* The cross-process VRAM ledger (vramreg.c): one file per GPU, edited by  *)
(* every runner under a file lock (compat.c: plat_file_rmw), so each       *)
(* read-modify-write is one action.  A claim is one (pid, seq); a process  *)
(* may hold several, may be killed at any point, and its pid may come back *)
(* as another process, told apart by its start time (here: incarnation).   *)
(*                                                                         *)
(* The driver's free figure is Total minus what is really allocated; the   *)
(* ledger adds what it cannot know, the claims not allocated yet.  A load  *)
(* whose claim is refused with nobody to blame claims what was available   *)
(* instead (model.c: model_vram_claim).  A claim binds nobody: the backend *)
(* is not told it and sizes the upload from the driver's free figure.      *)
(*                                                                         *)
(* Every entry carries a start time (procstart # 0), and the start time of *)
(* a live pid can be read, as on the systems whose devices are accounted:  *)
(* without it a reused pid would go unnoticed, and reap drops a claim or a *)
(* marker that is an hour old instead.  Total is what programs outside the *)
(* ledger leave of the device.                                             *)
(***************************************************************************)
EXTENDS Integers, FiniteSets, FiniteSetsExt, Functions

CONSTANTS Procs,     \* process ids
          Claims,    \* (pid, seq) pairs
          Owner,     \* Owner[c]: the pid of claim c
          Need,      \* Need[c]: the estimate of the load's footprint
          Priority,  \* Priority[c]
          Total,     \* device memory
          Capacities, \* values of REG_MAX_ENTRIES
          MaxInc     \* bound: pids that come back

ASSUME VramRegAssumption ==
    /\ IsFiniteSet(Procs) /\ IsFiniteSet(Claims)
    /\ Owner \in [Claims -> Procs]
    /\ Need \in [Claims -> Nat]
    /\ Priority \in [Claims -> Int]
    /\ Total \in Nat /\ Capacities \subseteq Nat /\ MaxInc \in Nat

VARIABLES ledger,  \* the entries of the registry file
          used,    \* used[c]: bytes the driver has handed out under claim c
          pc,      \* pc[c]: where vram_claim's caller stands
          queues,  \* queues[c]: the call waits (--wait-for-vram)
          ask,     \* ask[c]: the bytes of this call; from the commit on (as
                   \* history) those of them that the load still holds
          spare,   \* spare[c]: vram_status.available of the last poll, or
                   \* Blame if it found other runners, or Second during the
                   \* second call, whose refusal is ignored
          alive, inc,
          capacity  \* REG_MAX_ENTRIES

callVars == <<queues, ask, spare>>
vars == <<ledger, used, pc, callVars, alive, inc, capacity>>

Blame  == -1
Second == -2

Entries ==
    [claim : Claims, inc : 0 .. MaxInc, state : {"P", "C", "W"}, bytes : Nat]

Entry(c, st, b) == [claim |-> c, inc |-> inc[Owner[c]], state |-> st, bytes |-> b]

Init ==
    /\ ledger = {}
    /\ used = [c \in Claims |-> 0]
    /\ pc = [c \in Claims |-> "idle"]
    /\ queues = [c \in Claims |-> FALSE]
    /\ ask = [c \in Claims |-> 0]
    /\ spare = [c \in Claims |-> Blame]
    /\ alive = [p \in Procs |-> TRUE]
    /\ inc = [p \in Procs |-> 0]
    /\ capacity \in Capacities

\* The loads of S are over and their call variables forgotten.
Over(S) ==
    /\ pc' = [c \in Claims |-> IF c \in S THEN "idle" ELSE pc[c]]
    /\ queues' = [c \in Claims |-> IF c \in S THEN FALSE ELSE queues[c]]
    /\ ask' = [c \in Claims |-> IF c \in S THEN 0 ELSE ask[c]]
    /\ spare' = [c \in Claims |-> IF c \in S THEN Blame ELSE spare[c]]

\* For mutation: no pid-reuse guard.
ReapByPid(L) == {e \in L : alive[Owner[e.claim]]}

\* reap: entries of the dead go, and so do those whose pid was recycled.
Reap(L) == {e \in L : alive[Owner[e.claim]] /\ e.inc = inc[Owner[e.claim]]}

FreeNow == Total - SumFunctionOnSet(used, Claims)

\* For mutation: trusting the driver's figure alone.
AvailableUnclaimed(L) == FreeNow

PendingBytes(S) == SumFunctionOnSet([e \in S |-> e.bytes], S)

\* Free memory less what is claimed but not allocated yet.
Available(L) ==
    LET pending == PendingBytes({e \in L : e.state = "P"})
    IN IF FreeNow > pending THEN FreeNow - pending ELSE 0

\* For mutation: ignoring the other waiters.
NotOutranked(c, L) == FALSE

\* A live waiter of higher priority whose request fits as well.
Outranked(c, L) ==
    queues[c] /\ \E e \in L :
        /\ e.state = "W"
        /\ Priority[e.claim] > Priority[c]
        /\ e.bytes <= Available(L)

-----------------------------------------------------------------------------
(* vram_claim and claim_rmw.                                                 *)

\* A load asks for memory, queueing or not.
Ask(c) ==
    /\ pc[c] = "idle" /\ alive[Owner[c]]
    /\ \E w \in BOOLEAN : queues' = [queues EXCEPT ![c] = w]
    /\ ask' = [ask EXCEPT ![c] = Need[c]]
    /\ pc' = [pc EXCEPT ![c] = "poll"]
    /\ UNCHANGED <<ledger, used, spare, alive, inc, capacity>>

\* The ledger a poll decides on: reaped, without its own old marker.
Seen(c) ==
    Reap(ledger) \ (IF queues[c] THEN {e \in ledger : e.state = "W" /\ e.claim = c} ELSE {})

Fits(c, seen) == ask[c] <= Available(seen) /\ ~Outranked(c, seen)

\* The status a poll reports: what is left, unless another runner holds some.
Status(c, seen) ==
    spare' = [spare EXCEPT ![c] =
        IF @ = Second THEN Second
        ELSE IF \E e \in seen : e.state # "W" /\ Owner[e.claim] # Owner[c]
             THEN Blame ELSE Available(seen)]

\* For mutation: an admission without room to record it.
AdmitUnrecorded(c) ==
    /\ pc[c] = "poll"
    /\ LET seen == Seen(c) IN
         /\ Fits(c, seen)
         /\ ledger' = IF Cardinality(seen) < capacity
                      THEN seen \cup {Entry(c, "P", ask[c])} ELSE seen
         /\ Status(c, seen)
    /\ pc' = [pc EXCEPT ![c] = "claimed"]
    /\ UNCHANGED <<used, queues, ask, alive, inc, capacity>>

\* The claim fits, nobody outranks it, and there is room to record it.
Admit(c) ==
    /\ pc[c] = "poll"
    /\ LET seen == Seen(c) IN
         /\ Fits(c, seen)
         /\ Cardinality(seen) < capacity
         /\ ledger' = seen \cup {Entry(c, "P", ask[c])}
         /\ Status(c, seen)
    /\ pc' = [pc EXCEPT ![c] = "claimed"]
    /\ UNCHANGED <<used, queues, ask, alive, inc, capacity>>

\* Nobody is registered who could ever free the shortfall.
NobodyRegistered(c, seen) ==
    /\ \A e \in seen : e.state = "W"
    /\ ask[c] > Available(seen)

\* Not admitted: a queueing call leaves its marker, if there is room, and
\* sleeps or gives up; any other call is refused.
Defer(c) ==
    /\ pc[c] = "poll"
    /\ LET seen == Seen(c)
           room == Cardinality(seen) < capacity
       IN /\ ~(Fits(c, seen) /\ room)
          /\ ledger' = IF queues[c] /\ room
                       THEN seen \cup {Entry(c, "W", ask[c])} ELSE seen
          /\ Status(c, seen)
          /\ pc' = [pc EXCEPT ![c] = IF ~queues[c] THEN "refused"
                                     ELSE IF NobodyRegistered(c, seen) THEN "giveUp" ELSE "queued"]
    /\ UNCHANGED <<used, queues, ask, alive, inc, capacity>>

\* The next poll, which reports its own status.
Repoll(c) ==
    /\ pc[c] = "queued"
    /\ pc' = [pc EXCEPT ![c] = "poll"]
    /\ spare' = [spare EXCEPT ![c] = Blame]
    /\ UNCHANGED <<ledger, used, queues, ask, alive, inc, capacity>>

\* For mutation: a wait that ends without dropping its marker.
StopWaitingSilently(c) ==
    /\ pc[c] = "queued"
    /\ pc' = [pc EXCEPT ![c] = "idle"]
    /\ UNCHANGED <<ledger, used, callVars, alive, inc, capacity>>

\* The deadline passes, or the load is cancelled.
StopWaiting(c) ==
    /\ pc[c] = "queued"
    /\ pc' = [pc EXCEPT ![c] = "giveUp"]
    /\ UNCHANGED <<ledger, used, callVars, alive, inc, capacity>>

-----------------------------------------------------------------------------
(* edit_rmw: registry_rollback, vram_commit, vram_release.                   *)

\* For mutation: the process's entries are all taken for its own.
WithoutPid(c) == {e \in Reap(ledger) : Owner[e.claim] # Owner[c]}

\* The ledger without claim c's own entry.
Without(c) == {e \in Reap(ledger) : e.claim # c}

Rollback(c) ==
    /\ pc[c] = "giveUp"
    /\ ledger' = Without(c)
    /\ pc' = [pc EXCEPT ![c] = "refused"]
    /\ UNCHANGED <<used, callVars, alive, inc, capacity>>

\* The lease handle cannot be allocated: the entry is rolled back.
LeaseFail(c) ==
    /\ pc[c] = "claimed"
    /\ pc' = [pc EXCEPT ![c] = "giveUp"]
    /\ UNCHANGED <<ledger, used, callVars, alive, inc, capacity>>

\* model_vram_claim has returned: what it kept on its stack is gone.
Returned(c) ==
    /\ queues' = [queues EXCEPT ![c] = FALSE]
    /\ spare' = [spare EXCEPT ![c] = Blame]

\* The load allocates what the device still has, or part of it: the backend
\* fits its layers into the driver's figure, not into the claim.
Allocate(c) ==
    /\ pc[c] = "claimed"
    /\ \E b \in 0 .. FreeNow : used' = [used EXCEPT ![c] = b]
    /\ pc' = [pc EXCEPT ![c] = "allocated"]
    /\ Returned(c)
    /\ UNCHANGED <<ledger, ask, alive, inc, capacity>>

\* The entry of an allocated load.  Its figure, what the device lost since the
\* load began, whoever took it, is left out: reports show it, no decision reads it.
Committed(c) == Entry(c, "C", 0)

\* model_vram_commit, vram_commit.
Commit(c) ==
    /\ pc[c] = "allocated"
    /\ ledger' = {IF e.claim = c THEN Committed(c) ELSE e : e \in Reap(ledger)}
    /\ ask' = [ask EXCEPT ![c] = Min({@, used[c]})]
    /\ pc' = [pc EXCEPT ![c] = "committed"]
    /\ UNCHANGED <<used, queues, spare, alive, inc, capacity>>

\* A loaded model allocates more, or returns some: adapters, batch buffers and
\* speculation checkpoints come and go, and no entry is touched.
Resize(c) ==
    /\ pc[c] \in {"committed", "bareUp"}
    /\ \E b \in 0 .. used[c] + FreeNow :
         /\ used' = [used EXCEPT ![c] = b]
         /\ ask' = [ask EXCEPT ![c] = Min({@, b})]
    /\ UNCHANGED <<ledger, pc, queues, spare, alive, inc, capacity>>

\* model_free returns the device memory first ...
FreeMemory(c) ==
    /\ pc[c] = "committed"
    /\ used' = [used EXCEPT ![c] = 0]
    /\ pc' = [pc EXCEPT ![c] = "freed"]
    /\ UNCHANGED <<ledger, callVars, alive, inc, capacity>>

\* ... and vram_release takes the entry out.
Release(c) ==
    /\ pc[c] = "freed"
    /\ ledger' = Without(c)
    /\ Over({c})
    /\ UNCHANGED <<used, alive, inc, capacity>>

-----------------------------------------------------------------------------
(* model_vram_claim after a refusal.                                         *)

\* The wait was cancelled, or there are runners to blame: no load.
LoadRefused(c) ==
    /\ pc[c] = "refused" /\ spare[c] # Second
    /\ Over({c})
    /\ UNCHANGED <<ledger, used, alive, inc, capacity>>

\* Nobody to blame: claim what the poll saw available, without queueing.
ClaimSpare(c) ==
    /\ pc[c] = "refused" /\ spare[c] >= 0
    /\ ask' = [ask EXCEPT ![c] = spare[c]]
    /\ queues' = [queues EXCEPT ![c] = FALSE]
    /\ spare' = [spare EXCEPT ![c] = Second]
    /\ pc' = [pc EXCEPT ![c] = "poll"]
    /\ UNCHANGED <<ledger, used, alive, inc, capacity>>

\* The second call was refused too: the load goes on without a lease.
LoadBare(c) ==
    /\ pc[c] = "refused" /\ spare[c] = Second
    /\ ask' = [ask EXCEPT ![c] = 0]
    /\ pc' = [pc EXCEPT ![c] = "bare"]
    /\ UNCHANGED <<ledger, used, queues, spare, alive, inc, capacity>>

\* It takes what the driver says is free; there is no lease to commit.
AllocateBare(c) ==
    /\ pc[c] = "bare"
    /\ \E b \in 0 .. FreeNow : used' = [used EXCEPT ![c] = b]
    /\ pc' = [pc EXCEPT ![c] = "bareUp"]
    /\ Returned(c)
    /\ UNCHANGED <<ledger, ask, alive, inc, capacity>>

FreeBare(c) ==
    /\ pc[c] = "bareUp"
    /\ used' = [used EXCEPT ![c] = 0]
    /\ Over({c})
    /\ UNCHANGED <<ledger, alive, inc, capacity>>

-----------------------------------------------------------------------------
\* A runner is killed: the driver takes its memory back, its entries stay.
Kill(p) ==
    /\ alive[p]
    /\ alive' = [alive EXCEPT ![p] = FALSE]
    /\ used' = [c \in Claims |-> IF Owner[c] = p THEN 0 ELSE used[c]]
    /\ Over({c \in Claims : Owner[c] = p})
    /\ UNCHANGED <<ledger, inc, capacity>>

\* How often a pid came back (bounds the model).
Reuses == SumFunctionOnSet(inc, Procs)

\* The pid comes back as a new runner, which numbers its claims afresh.
Reuse(p) ==
    /\ ~alive[p] /\ Reuses < MaxInc
    /\ alive' = [alive EXCEPT ![p] = TRUE]
    /\ inc' = [inc EXCEPT ![p] = inc[p] + 1]
    /\ UNCHANGED <<ledger, used, pc, callVars, capacity>>

Next ==
    \/ \E c \in Claims :
         \/ Ask(c) \/ Admit(c) \/ Defer(c) \/ Repoll(c) \/ StopWaiting(c)
         \/ Rollback(c) \/ LeaseFail(c) \/ Allocate(c) \/ Commit(c)
         \/ Resize(c) \/ FreeMemory(c) \/ Release(c)
         \/ LoadRefused(c) \/ ClaimSpare(c) \/ LoadBare(c) \/ AllocateBare(c) \/ FreeBare(c)
    \/ \E p \in Procs : Kill(p) \/ Reuse(p)

Spec == Init /\ [][Next]_vars

-----------------------------------------------------------------------------
TypeOK ==
    /\ ledger \subseteq Entries
    /\ used \in [Claims -> 0 .. Total]
    /\ pc \in [Claims -> {"idle", "poll", "queued", "giveUp", "refused", "claimed",
                          "allocated", "committed", "freed", "bare", "bareUp"}]
    /\ queues \in [Claims -> BOOLEAN]
    /\ ask \in [Claims -> Nat]
    /\ spare \in [Claims -> {Blame, Second} \cup 0 .. Total]
    /\ alive \in [Procs -> BOOLEAN]
    /\ inc \in [Procs -> 0 .. MaxInc]
    /\ capacity \in Capacities

\* What admitted loads may still count on.
Pledged == [c \in Claims |-> IF pc[c] = "claimed" THEN ask[c] ELSE 0]

\* What a load holds beyond its claim, or without one.
Overdrawn == [c \in Claims |-> IF used[c] > ask[c] THEN used[c] - ask[c] ELSE 0]

\* All that is in use, whoever took it, and all that is pledged to admitted
\* loads exceed the device at most by what loads hold beyond their claims: the
\* ledger itself never promises a byte twice, however claims, commits, kills
\* and pid reuse interleave, and no shortfall outlives the overdraft behind it.
PledgesCovered ==
    SumFunctionOnSet(used, Claims) + SumFunctionOnSet(Pledged, Claims)
        <= Total + SumFunctionOnSet(Overdrawn, Claims)

\* A claim of a byte or more is admitted only when it fits beside all that is
\* in use, by loads with and without a lease, overdrawn or not, and all that is
\* pledged to others, recorded by whichever process.
AdmittedFits ==
    [][\A c \in Claims :
         pc[c] = "poll" /\ pc'[c] = "claimed" /\ ask[c] > 0
         => SumFunctionOnSet(used, Claims) + SumFunctionOnSet(Pledged, Claims) + ask[c]
              <= Total]_vars

\* A lease is in the ledger for as long as it is held: no other process's
\* reap, commit, release or rollback loses it, and nothing of a live process
\* stays there once its claim is over.
LedgerTells ==
    \A c \in Claims :
        LET mine == {e \in Reap(ledger) : e.claim = c /\ e.state # "W"}
        IN IF pc[c] \in {"claimed", "allocated", "committed"}
           THEN mine = {IF pc[c] = "committed" THEN Committed(c) ELSE Entry(c, "P", ask[c])}
           ELSE mine # {} => pc[c] \in {"giveUp", "freed"}

\* A waiter marker never outlives its wait: a live runner that is no longer
\* queueing cannot hold others back with it.
MarkersCurrent ==
    \A e \in Reap(ledger) :
        e.state = "W" => queues[e.claim] /\ pc[e.claim] \in {"poll", "queued", "giveUp"}

\* A queued claim whose marker found room in the table is never overtaken by a
\* queueing one of lower priority that is admitted while the higher one fits as
\* well.
PriorityRespected ==
    [][\A c, d \in Claims :
         /\ pc[c] = "poll" /\ pc'[c] = "claimed" /\ queues[c]
         /\ pc[d] = "queued" /\ Priority[d] > Priority[c]
         /\ \E e \in ledger : e.claim = d /\ e.state = "W"
         => ~(ask[d] <= Available(Reap(ledger)))]_vars
=============================================================================
