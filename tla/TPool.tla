-------------------------------- MODULE TPool --------------------------------
(***************************************************************************)
(* The CPU thread pool (quants.c: tp_worker, tpool_run, tpool_retain,      *)
(* tpool_destroy).  A run publishes a job by advancing the generation      *)
(* counter; the workers spin on it, then park on cv_work; the caller       *)
(* computes its own slice, spins on n_done, then parks on cv_done.  Both   *)
(* parkings are handshakes of two atomics, so that a hot pool never takes  *)
(* the mutex.  Several slots share a pool: run_mu lets in one run at a     *)
(* time, and the last holder to let go destroys it.                        *)
(*                                                                         *)
(* Every atomic access that another thread can see is a step; accesses are *)
(* sequentially consistent (the relaxed stores of tpool_run_locked are     *)
(* published by its seq_cst increment of gen).  A spin may end in a park   *)
(* at any time.                                                            *)
(***************************************************************************)
EXTENDS Integers, FiniteSets

CONSTANTS Callers,   \* holders of the pool, each a thread that runs jobs
          NThreads,  \* n_threads: the calling thread and NThreads - 1 workers
          Sizes,     \* n_items of the jobs
          GenMod,    \* values of gen (2^64)
          Nobody

ASSUME TPoolAssumption ==
    /\ IsFiniteSet(Callers) /\ Nobody \notin Callers
    /\ NThreads \in Nat /\ NThreads >= 2
    /\ Sizes \subseteq Nat \ {0, 1}
    /\ GenMod \in Nat /\ GenMod >= 2

Workers == 1 .. NThreads - 1

VARIABLES
    gen, n_done, n_sleeping, caller_parked, stop, refs,  \* the pool's atomics
    job,        \* tp->fn, ctx, n_items: whose job, and its size
    run_mu,     \* who is inside tpool_run
    mu,         \* who holds tp->mu
    workWait,   \* workers in pthread_cond_wait(cv_work)
    doneWait,   \* callers in pthread_cond_wait(cv_done)
    wpc, seen, wjob,   \* a worker: where it stands, seen, the job it read
    cpc,        \* where a caller stands
    computed,   \* history: how often each item of the job was computed
    freed       \* the pool is destroyed and freed

poolVars == <<gen, n_done, n_sleeping, caller_parked, stop, refs, job, run_mu>>
lockVars == <<mu, workWait, doneWait>>
workerVars == <<wpc, seen, wjob>>
vars == <<poolVars, lockVars, workerVars, cpc, computed, freed>>

NoJob == [of |-> Nobody, n |-> 0]

Init ==
    /\ gen = 0 /\ n_done = 0 /\ n_sleeping = 0
    /\ caller_parked = FALSE /\ stop = FALSE
    /\ refs = Cardinality(Callers)
    /\ job = NoJob /\ run_mu = Nobody
    /\ mu = Nobody /\ workWait = {} /\ doneWait = {}
    /\ wpc = [w \in Workers |-> "spin"]
    /\ seen = [w \in Workers |-> 0]
    /\ wjob = [w \in Workers |-> NoJob]
    /\ cpc = [c \in Callers |-> "idle"]
    /\ computed = [i \in {} |-> 0]
    /\ freed = FALSE

\* tp_slice: the items of thread idx.
Slice(idx, n) ==
    LET per  == (n + NThreads - 1) \div NThreads
        i0   == IF idx * per > n THEN n ELSE idx * per
        i1   == IF idx * per + per > n THEN n ELSE idx * per + per
    IN  i0 .. i1 - 1

Compute(idx, n) ==
    computed' = [i \in DOMAIN computed |-> computed[i] + (IF i \in Slice(idx, n) THEN 1 ELSE 0)]

WGoto(w, p) == wpc' = [wpc EXCEPT ![w] = p]
CGoto(c, p) == cpc' = [cpc EXCEPT ![c] = p]

----------------------------------------------------------------------------
(* A worker *)

\* The spin sees a new generation, or a stop.
SpinSees(w) ==
    /\ wpc[w] = "spin"
    /\ \/ gen # seen[w] /\ WGoto(w, "check")
       \/ gen = seen[w] /\ stop /\ WGoto(w, "exited")
    /\ UNCHANGED <<poolVars, lockVars, seen, wjob, cpc, computed, freed>>

\* The spin budget is used up: the worker takes the mutex to park and counts
\* itself as sleeping before it looks again.
Park(w) ==
    /\ wpc[w] = "spin" /\ gen = seen[w] /\ ~stop
    /\ WGoto(w, "lock")
    /\ UNCHANGED <<poolVars, lockVars, seen, wjob, cpc, computed, freed>>

ParkLock(w) ==
    /\ wpc[w] = "lock" /\ mu = Nobody
    /\ mu' = w
    /\ n_sleeping' = n_sleeping + 1
    /\ WGoto(w, "look")
    /\ UNCHANGED <<gen, n_done, caller_parked, stop, refs, job, run_mu, workWait, doneWait,
                   seen, wjob, cpc, computed, freed>>

\* For mutation: the worker waits without a look.
ParkLookBlind(w) ==
    /\ wpc[w] = "look"
    /\ mu' = Nobody
    /\ workWait' = workWait \cup {w}
    /\ WGoto(w, "wait")
    /\ UNCHANGED <<n_sleeping, gen, n_done, caller_parked, stop, refs, job, run_mu, doneWait,
                   seen, wjob, cpc, computed, freed>>

\* The look under the mutex: wait (which lets the mutex go), or leave.
ParkLook(w) ==
    /\ wpc[w] = "look"
    /\ mu' = Nobody
    /\ IF gen = seen[w] /\ ~stop
       THEN /\ workWait' = workWait \cup {w}
            /\ WGoto(w, "wait")
            /\ UNCHANGED n_sleeping
       ELSE /\ n_sleeping' = n_sleeping - 1
            /\ WGoto(w, "check")
            /\ UNCHANGED workWait
    /\ UNCHANGED <<gen, n_done, caller_parked, stop, refs, job, run_mu, doneWait,
                   seen, wjob, cpc, computed, freed>>

\* Woken: the wait takes the mutex again.
ParkWake(w) ==
    /\ wpc[w] = "wait" /\ w \notin workWait /\ mu = Nobody
    /\ mu' = w
    /\ WGoto(w, "look")
    /\ UNCHANGED <<poolVars, workWait, doneWait, seen, wjob, cpc, computed, freed>>

\* For mutation: the worker counts itself before it computes.
TakeJobCounted(w) ==
    /\ wpc[w] = "check"
    /\ IF stop
       THEN WGoto(w, "exited") /\ UNCHANGED <<seen, wjob, n_done>>
       ELSE /\ seen' = [seen EXCEPT ![w] = gen]
            /\ wjob' = [wjob EXCEPT ![w] = job]
            /\ n_done' = n_done + 1
            /\ WGoto(w, "work")
    /\ UNCHANGED <<gen, n_sleeping, caller_parked, stop, refs, job, run_mu,
                   lockVars, cpc, computed, freed>>

\* A stop, or the job as tpool_run published it.
TakeJob(w) ==
    /\ wpc[w] = "check"
    /\ IF stop
       THEN WGoto(w, "exited") /\ UNCHANGED <<seen, wjob>>
       ELSE /\ seen' = [seen EXCEPT ![w] = gen]
            /\ wjob' = [wjob EXCEPT ![w] = job]
            /\ WGoto(w, "work")
    /\ UNCHANGED <<poolVars, lockVars, cpc, computed, freed>>

\* fn over this worker's slice, then the count.
Work(w) ==
    /\ wpc[w] = "work"
    /\ Compute(w, wjob[w].n)
    /\ WGoto(w, "count")
    /\ UNCHANGED <<poolVars, lockVars, seen, wjob, cpc, freed>>

Count(w) ==
    /\ wpc[w] = "count"
    /\ n_done' = n_done + 1
    /\ WGoto(w, IF n_done + 1 = NThreads - 1 THEN "last" ELSE "spin")
    /\ UNCHANGED <<gen, n_sleeping, caller_parked, stop, refs, job, run_mu, lockVars,
                   seen, wjob, cpc, computed, freed>>

\* The last worker looks for a parked caller; it wakes one under the mutex.
LastLooks(w) ==
    /\ wpc[w] = "last"
    /\ WGoto(w, IF caller_parked THEN "signal" ELSE "spin")
    /\ UNCHANGED <<poolVars, lockVars, seen, wjob, cpc, computed, freed>>

LastSignals(w) ==
    /\ wpc[w] = "signal" /\ mu = Nobody
    /\ doneWait' = {}
    /\ WGoto(w, "spin")
    /\ UNCHANGED <<poolVars, mu, workWait, seen, wjob, cpc, computed, freed>>

----------------------------------------------------------------------------
(* A caller *)

RunLock(c) ==
    /\ cpc[c] = "idle" /\ run_mu = Nobody
    /\ run_mu' = c
    /\ CGoto(c, "set")
    /\ UNCHANGED <<gen, n_done, n_sleeping, caller_parked, stop, refs, job, lockVars,
                   workerVars, computed, freed>>

\* The job and the two counters, all published by the increment of gen.
Publish(c) ==
    /\ cpc[c] = "set"
    /\ \E n \in Sizes : /\ job' = [of |-> c, n |-> n]
                        /\ computed' = [i \in 0 .. n - 1 |-> 0]
    /\ n_done' = 0
    /\ caller_parked' = FALSE
    /\ gen' = (gen + 1) % GenMod
    /\ CGoto(c, "wake")
    /\ UNCHANGED <<n_sleeping, stop, refs, run_mu, lockVars, workerVars, freed>>

\* The broadcast is skipped while nobody sleeps.
WakeLook(c) ==
    /\ cpc[c] = "wake"
    /\ CGoto(c, IF n_sleeping > 0 THEN "broadcast" ELSE "own")
    /\ UNCHANGED <<poolVars, lockVars, workerVars, computed, freed>>

Broadcast(c) ==
    /\ cpc[c] = "broadcast" /\ mu = Nobody
    /\ workWait' = {}
    /\ CGoto(c, "own")
    /\ UNCHANGED <<poolVars, mu, doneWait, workerVars, computed, freed>>

OwnSlice(c) ==
    /\ cpc[c] = "own"
    /\ Compute(0, job.n)
    /\ CGoto(c, "await")
    /\ UNCHANGED <<poolVars, lockVars, workerVars, freed>>

AllDone == n_done >= NThreads - 1

\* The spin finds all workers done.
AwaitDone(c) ==
    /\ cpc[c] = "await" /\ AllDone
    /\ CGoto(c, "unlock")
    /\ UNCHANGED <<poolVars, lockVars, workerVars, computed, freed>>

\* The spin budget is used up: the caller announces that it parks ...
AwaitPark(c) ==
    /\ cpc[c] = "await" /\ ~AllDone
    /\ CGoto(c, "park")
    /\ UNCHANGED <<poolVars, lockVars, workerVars, computed, freed>>

AwaitLock(c) ==
    /\ cpc[c] = "park" /\ mu = Nobody
    /\ mu' = c
    /\ caller_parked' = TRUE
    /\ CGoto(c, "look")
    /\ UNCHANGED <<gen, n_done, n_sleeping, stop, refs, job, run_mu, workWait, doneWait,
                   workerVars, computed, freed>>

\* ... before it looks under the mutex.
AwaitLook(c) ==
    /\ cpc[c] = "look"
    /\ mu' = Nobody
    /\ IF AllDone
       THEN /\ caller_parked' = FALSE
            /\ CGoto(c, "unlock")
            /\ UNCHANGED doneWait
       ELSE /\ doneWait' = doneWait \cup {c}
            /\ CGoto(c, "wait")
            /\ UNCHANGED caller_parked
    /\ UNCHANGED <<gen, n_done, n_sleeping, stop, refs, job, run_mu, workWait,
                   workerVars, computed, freed>>

AwaitWake(c) ==
    /\ cpc[c] = "wait" /\ c \notin doneWait /\ mu = Nobody
    /\ mu' = c
    /\ CGoto(c, "look")
    /\ UNCHANGED <<poolVars, workWait, doneWait, workerVars, computed, freed>>

\* tpool_run returns.
RunUnlock(c) ==
    /\ cpc[c] = "unlock"
    /\ run_mu' = Nobody
    /\ CGoto(c, "idle")
    /\ UNCHANGED <<gen, n_done, n_sleeping, caller_parked, stop, refs, job, lockVars,
                   workerVars, computed, freed>>

\* For mutation: whoever lets go destroys the pool.
LetGoUncounted(c) ==
    /\ cpc[c] = "idle"
    /\ refs' = refs - 1
    /\ CGoto(c, "stop")
    /\ UNCHANGED <<gen, n_done, n_sleeping, caller_parked, stop, job, run_mu, lockVars,
                   workerVars, computed, freed>>

\* tpool_destroy: all but the last holder only let go.
LetGo(c) ==
    /\ cpc[c] = "idle"
    /\ refs' = refs - 1
    /\ CGoto(c, IF refs > 1 THEN "gone" ELSE "stop")
    /\ UNCHANGED <<gen, n_done, n_sleeping, caller_parked, stop, job, run_mu, lockVars,
                   workerVars, computed, freed>>

StopPool(c) ==
    /\ cpc[c] = "stop" /\ mu = Nobody
    /\ stop' = TRUE
    /\ workWait' = {}
    /\ CGoto(c, "join")
    /\ UNCHANGED <<gen, n_done, n_sleeping, caller_parked, refs, job, run_mu, mu, doneWait,
                   workerVars, computed, freed>>

JoinAndFree(c) ==
    /\ cpc[c] = "join"
    /\ \A w \in Workers : wpc[w] = "exited"
    /\ freed' = TRUE
    /\ CGoto(c, "gone")
    /\ UNCHANGED <<poolVars, lockVars, workerVars, computed>>

----------------------------------------------------------------------------
Worker(w) ==
    \/ SpinSees(w) \/ ParkLock(w) \/ ParkLook(w) \/ ParkWake(w)
    \/ TakeJob(w) \/ Work(w) \/ Count(w) \/ LastLooks(w) \/ LastSignals(w)

InRun(c) ==
    \/ Publish(c) \/ WakeLook(c) \/ Broadcast(c) \/ OwnSlice(c)
    \/ AwaitDone(c) \/ AwaitLock(c) \/ AwaitLook(c) \/ AwaitWake(c) \/ RunUnlock(c)
    \/ StopPool(c) \/ JoinAndFree(c)

\* POSIX lets a wait end without a signal.
SpuriousWork(w) ==
    /\ w \in workWait
    /\ workWait' = workWait \ {w}
    /\ UNCHANGED <<poolVars, mu, doneWait, workerVars, cpc, computed, freed>>

Finished ==
    /\ \A c \in Callers : cpc[c] = "gone"
    /\ UNCHANGED vars

Next ==
    \/ \E w \in Workers : Worker(w) \/ Park(w) \/ SpuriousWork(w)
    \/ \E c \in Callers : InRun(c) \/ RunLock(c) \/ AwaitPark(c) \/ LetGo(c)
    \/ Finished

\* Threads run and a contended mutex is granted in the end: strong fairness, since
\* a thread at a lock can go on only while nobody holds it.  Whether a caller runs
\* another job, a spin ends in a park, or a holder lets go is its own affair.
Fairness ==
    /\ \A w \in Workers : SF_vars(Worker(w))
    /\ \A c \in Callers : SF_vars(InRun(c))

SafeSpec == Init /\ [][Next]_vars
Spec == SafeSpec /\ Fairness

----------------------------------------------------------------------------
TypeOK ==
    /\ gen \in 0 .. GenMod - 1
    /\ n_done \in 0 .. NThreads - 1 /\ n_sleeping \in 0 .. NThreads - 1
    /\ caller_parked \in BOOLEAN /\ stop \in BOOLEAN /\ freed \in BOOLEAN
    /\ refs \in 0 .. Cardinality(Callers)
    /\ job = NoJob \/ (job.of \in Callers /\ job.n \in Sizes)
    /\ run_mu \in Callers \cup {Nobody} /\ mu \in Callers \cup Workers \cup {Nobody}
    /\ workWait \subseteq Workers /\ doneWait \subseteq Callers
    /\ wpc \in [Workers -> {"spin", "lock", "look", "wait", "check", "work", "count",
                            "last", "signal", "exited"}]
    /\ seen \in [Workers -> 0 .. GenMod - 1]
    /\ cpc \in [Callers -> {"idle", "set", "wake", "broadcast", "own", "await", "park",
                            "look", "wait", "unlock", "stop", "join", "gone"}]

\* When tpool_run returns, every item of its job was computed exactly once, and
\* no worker is still inside fn or about to enter it with this job's (by then
\* dead) context; no worker computes on behalf of another run's caller.
JobWhole ==
    /\ \A c \in Callers : cpc[c] = "unlock" =>
          /\ \A i \in DOMAIN computed : computed[i] = 1
          /\ \A w \in Workers : wpc[w] \notin {"work", "count"} /\ seen[w] = gen
    /\ \A w \in Workers : wpc[w] = "work" => wjob[w] = job /\ run_mu = job.of

\* The pool is freed once and nobody uses it afterwards: no holder is in a run
\* or still holds it, no worker runs, no one owns or waits for a lock.
FreedUnused ==
    (stop \/ freed) => /\ run_mu = Nobody
                       /\ \A c \in Callers : cpc[c] \in {"gone", "join"}
                       /\ freed => \A w \in Workers : wpc[w] = "exited"

\* A run ends: no wake-up of a worker or of the caller is lost, though a hot
\* pool neither locks nor signals, and the last holder's destroy ends too.
RunReturns ==
    \A c \in Callers : /\ (cpc[c] = "set") ~> (cpc[c] = "unlock")
                       /\ (cpc[c] = "stop") ~> (cpc[c] = "gone")
=============================================================================
