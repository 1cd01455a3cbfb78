-------------------------------- MODULE Drain --------------------------------
(***************************************************************************)
(* How a server stops (server.c: server_request_stop, drain_watchdog, the  *)
(* start, the accept loop and the end of server_run), over several         *)
(* server_runs of one process.  A stop is requested by a signal handler or *)
(* by another thread; the watchdog that each run arms bounds its whole     *)
(* shutdown and exits the process when the bound passes.  The watchdog and *)
(* the end of server_run settle who goes first by a compare-and-swap on    *)
(* drain_owner.                                                            *)
(*                                                                         *)
(* Every atomic access is a step of its own, except that a run draws its   *)
(* number, stores it as the owner and starts its watchdog in one (Arm):    *)
(* nobody else reads drain_runs, no other run's number equals the new one, *)
(* and the watchdog starts after the store.  Time is not modelled: a bound *)
(* may pass at any moment after stop_at_us is set, and the work of a run   *)
(* (its start, its requests, its joins, its unload) may take for ever.     *)
(***************************************************************************)
EXTENDS Integers, FiniteSets

CONSTANTS NRuns,     \* server_runs the process makes, one after the other
          Callers,   \* calls of server_request_stop
          RunMod     \* values of an unsigned (2^32)

ASSUME DrainAssumption ==
    /\ NRuns \in Nat \ {0}
    /\ IsFiniteSet(Callers)
    /\ RunMod \in Nat
    /\ RunMod > NRuns + 3

Runs == 1 .. NRuns
Unsigned == 0 .. RunMod - 1
FIRING == RunMod - 1    \* DRAIN_FIRING, UINT_MAX

VARIABLES
    stop_requested, listener_fd,   \* the run whose listener is published, or 0
    stop_at_us,                    \* whether a stop time is set
    drain_owner, drain_runs,
    mpc,      \* where the thread in server_run stands
    run,      \* the run it is in, or was last in
    number,   \* drain_run of each run, 0 before it is armed
    wpc,      \* each run's watchdog
    cpc,      \* each call of server_request_stop
    exit      \* how the process ended, if it did

drainVars == <<stop_requested, listener_fd, stop_at_us, drain_owner, drain_runs,
          mpc, run, number, wpc, cpc, exit>>

\* drain_runs starts at 0 and is anything after enough earlier runs, whose
\* watchdogs are gone.
DrainInit ==
    /\ stop_requested = FALSE
    /\ listener_fd = 0
    /\ stop_at_us = FALSE
    /\ drain_owner = 0
    /\ drain_runs \in Unsigned
    /\ mpc = "idle" /\ run = 0
    /\ number = [r \in Runs |-> 0]
    /\ wpc = [r \in Runs |-> "none"]
    /\ cpc = [c \in Callers |-> "idle"]
    /\ exit = "no"

Alive == exit = "no"

----------------------------------------------------------------------------
(* server_request_stop, on any thread *)

\* The exchange of the flag: a second request is the operator overruling the
\* drain and exits at once.  The handlers are installed by the first run and
\* stay.
Request(c) ==
    /\ Alive /\ cpc[c] = "idle" /\ run > 0
    /\ IF stop_requested
       THEN /\ exit' = "overruled"
            /\ UNCHANGED <<stop_requested, cpc>>
       ELSE /\ stop_requested' = TRUE
            /\ cpc' = [cpc EXCEPT ![c] = "stamp"]
            /\ UNCHANGED exit
    /\ UNCHANGED <<listener_fd, stop_at_us, drain_owner, drain_runs, mpc, run, number, wpc>>

Stamp(c) ==
    /\ Alive /\ cpc[c] = "stamp"
    /\ stop_at_us' = TRUE
    /\ cpc' = [cpc EXCEPT ![c] = "close"]
    /\ UNCHANGED <<stop_requested, listener_fd, drain_owner, drain_runs, mpc, run, number, wpc, exit>>

\* The exchange of the listener; whoever takes it shuts it down and closes it.
CloseListener(c) ==
    /\ Alive /\ cpc[c] = "close"
    /\ listener_fd' = 0
    /\ cpc' = [cpc EXCEPT ![c] = "done"]
    /\ UNCHANGED <<stop_requested, stop_at_us, drain_owner, drain_runs, mpc, run, number, wpc, exit>>

----------------------------------------------------------------------------
(* server_run *)

\* The next run begins: the flag is reset ...
Begin ==
    /\ Alive /\ mpc = "idle" /\ run < NRuns
    /\ run' = run + 1
    /\ stop_requested' = FALSE
    /\ mpc' = "listener"
    /\ UNCHANGED <<listener_fd, stop_at_us, drain_owner, drain_runs, number, wpc, cpc, exit>>

\* ... and so is the listener, which an abandoned run may have left published.
ResetListener ==
    /\ Alive /\ mpc = "listener"
    /\ listener_fd' = 0
    /\ mpc' = "bounds"
    /\ UNCHANGED <<stop_requested, stop_at_us, drain_owner, drain_runs, run, number, wpc, cpc, exit>>

\* drain_bounds_init.
BoundsInit ==
    /\ Alive /\ mpc = "bounds"
    /\ stop_at_us' = FALSE
    /\ mpc' = "start"
    /\ UNCHANGED <<stop_requested, listener_fd, drain_owner, drain_runs, run, number, wpc, cpc, exit>>

\* The launch is given up and server_run returns: a stop was seen at one of the
\* polls of the start, or something failed, up to the start of the slot threads.
Abandon ==
    /\ Alive /\ mpc \in {"start", "arm"}
    /\ mpc' = "idle"
    /\ UNCHANGED <<stop_requested, listener_fd, stop_at_us, drain_owner, drain_runs, run, number, wpc, cpc, exit>>

\* The listener is bound and published.
Listen ==
    /\ Alive /\ mpc = "start"
    /\ listener_fd' = run
    /\ mpc' = "arm"
    /\ UNCHANGED <<stop_requested, stop_at_us, drain_owner, drain_runs, run, number, wpc, cpc, exit>>

\* The next run number, which is neither "released" nor "firing".
NextNumber ==
    LET n == (drain_runs + 1) % RunMod
    IN  IF n \in {0, FIRING} THEN (n + 2) % RunMod ELSE n

\* The run draws its number, owns the bound and starts its watchdog.
Arm ==
    /\ Alive /\ mpc = "arm"
    /\ drain_runs' = NextNumber
    /\ number' = [number EXCEPT ![run] = NextNumber]
    /\ drain_owner' = NextNumber
    /\ wpc' = [wpc EXCEPT ![run] = "wait"]
    /\ mpc' = "check"
    /\ UNCHANGED <<stop_requested, listener_fd, stop_at_us, run, cpc, exit>>

\* For mutation: the loop goes straight to accept().
CheckStopSkipped ==
    /\ Alive /\ mpc = "check"
    /\ mpc' = "accept"
    /\ UNCHANGED <<stop_requested, listener_fd, stop_at_us, drain_owner, drain_runs, run, number, wpc, cpc, exit>>

\* The check ahead of accept().
CheckStop ==
    /\ Alive /\ mpc = "check"
    /\ mpc' = IF stop_requested THEN "unlisten" ELSE "accept"
    /\ UNCHANGED <<stop_requested, listener_fd, stop_at_us, drain_owner, drain_runs, run, number, wpc, cpc, exit>>

\* accept() hands out a connection, which is dealt with.
Accepted ==
    /\ Alive /\ mpc = "accept" /\ listener_fd = run
    /\ mpc' = "check"
    /\ UNCHANGED <<stop_requested, listener_fd, stop_at_us, drain_owner, drain_runs, run, number, wpc, cpc, exit>>

\* accept() fails because a stop shut the listener down.
AcceptWoken ==
    /\ Alive /\ mpc = "accept" /\ listener_fd # run
    /\ mpc' = "unlisten"
    /\ UNCHANGED <<stop_requested, listener_fd, stop_at_us, drain_owner, drain_runs, run, number, wpc, cpc, exit>>

\* accept() fails without a stop: the loop ends all the same.
AcceptBroken ==
    /\ Alive /\ mpc = "accept" /\ listener_fd = run /\ ~stop_requested
    /\ mpc' = "unlisten"
    /\ UNCHANGED <<stop_requested, listener_fd, stop_at_us, drain_owner, drain_runs, run, number, wpc, cpc, exit>>

Unlisten ==
    /\ Alive /\ mpc = "unlisten"
    /\ listener_fd' = 0
    /\ mpc' = "stamp"
    /\ UNCHANGED <<stop_requested, stop_at_us, drain_owner, drain_runs, run, number, wpc, cpc, exit>>

\* For mutation: only a requested stop has a time.
StampOwnForgotten ==
    /\ Alive /\ mpc = "stamp"
    /\ mpc' = "teardown"
    /\ UNCHANGED <<stop_requested, listener_fd, stop_at_us, drain_owner, drain_runs, run, number, wpc, cpc, exit>>

\* A loop that ended without a request drains by the same bounds.
StampOwn ==
    /\ Alive /\ mpc = "stamp"
    /\ stop_at_us' = TRUE
    /\ mpc' = "teardown"
    /\ UNCHANGED <<stop_requested, listener_fd, drain_owner, drain_runs, run, number, wpc, cpc, exit>>

\* queue_shutdown, the joins, the unload and the cleanup.
TearDown ==
    /\ Alive /\ mpc = "teardown"
    /\ mpc' = "release"
    /\ UNCHANGED <<stop_requested, listener_fd, stop_at_us, drain_owner, drain_runs, run, number, wpc, cpc, exit>>

\* The last act: release the bound and return, or, if the watchdog claimed
\* the exit, wait for it for ever.
Release ==
    /\ Alive /\ mpc = "release"
    /\ IF drain_owner = number[run]
       THEN drain_owner' = 0 /\ mpc' = "idle"
       ELSE mpc' = "parked" /\ UNCHANGED drain_owner
    /\ UNCHANGED <<stop_requested, listener_fd, stop_at_us, drain_runs, run, number, wpc, cpc, exit>>

----------------------------------------------------------------------------
(* drain_watchdog of run r *)

\* For mutation: the first loop waits for a stop, whoever's it is.
WaitForStopOnly(r) ==
    /\ Alive /\ wpc[r] = "wait"
    /\ stop_at_us /\ wpc' = [wpc EXCEPT ![r] = "count"]
    /\ UNCHANGED <<stop_requested, listener_fd, stop_at_us, drain_owner, drain_runs, mpc, run, number, cpc, exit>>

\* The first loop: no stop yet; leave if the run is over.
WaitForStop(r) ==
    /\ Alive /\ wpc[r] = "wait"
    /\ \/ stop_at_us /\ wpc' = [wpc EXCEPT ![r] = "count"]
       \/ ~stop_at_us /\ drain_owner # number[r] /\ wpc' = [wpc EXCEPT ![r] = "gone"]
    /\ UNCHANGED <<stop_requested, listener_fd, stop_at_us, drain_owner, drain_runs, mpc, run, number, cpc, exit>>

\* The second loop ends when the run is over, or at the bound.
Countdown(r) ==
    /\ Alive /\ wpc[r] = "count"
    /\ \/ drain_owner # number[r] /\ wpc' = [wpc EXCEPT ![r] = "gone"]
       \/ drain_owner = number[r] /\ wpc' = [wpc EXCEPT ![r] = "claim"]
    /\ UNCHANGED <<stop_requested, listener_fd, stop_at_us, drain_owner, drain_runs, mpc, run, number, cpc, exit>>

\* For mutation: the claim does not look.
ClaimBlind(r) ==
    /\ Alive /\ wpc[r] = "claim"
    /\ drain_owner' = FIRING /\ wpc' = [wpc EXCEPT ![r] = "fire"]
    /\ UNCHANGED <<stop_requested, listener_fd, stop_at_us, drain_runs, mpc, run, number, cpc, exit>>

\* The claim of the exit.
Claim(r) ==
    /\ Alive /\ wpc[r] = "claim"
    /\ IF drain_owner = number[r]
       THEN drain_owner' = FIRING /\ wpc' = [wpc EXCEPT ![r] = "fire"]
       ELSE wpc' = [wpc EXCEPT ![r] = "gone"] /\ UNCHANGED drain_owner
    /\ UNCHANGED <<stop_requested, listener_fd, stop_at_us, drain_runs, mpc, run, number, cpc, exit>>

\* The note, written by a thread of its own, and the exit.
Fire(r) ==
    /\ Alive /\ wpc[r] = "fire"
    /\ exit' = "bound"
    /\ UNCHANGED <<stop_requested, listener_fd, stop_at_us, drain_owner, drain_runs, mpc, run, number, wpc, cpc>>

----------------------------------------------------------------------------
Call(c) == Stamp(c) \/ CloseListener(c)

AcceptLoop == CheckStop \/ AcceptWoken \/ Unlisten

Watchdog(r) == WaitForStop(r) \/ Countdown(r) \/ Claim(r) \/ Fire(r)

\* The process has exited, or has made its runs and waits for nothing.
Finished ==
    /\ \/ ~Alive
       \/ mpc = "idle" /\ run = NRuns
    /\ UNCHANGED drainVars

DrainNext ==
    \/ \E c \in Callers : Request(c) \/ Call(c)
    \/ Begin \/ ResetListener \/ BoundsInit \/ Abandon \/ Listen \/ Arm
    \/ AcceptLoop \/ Accepted \/ AcceptBroken
    \/ StampOwn \/ TearDown \/ Release
    \/ \E r \in Runs : Watchdog(r)
    \/ Finished

DrainSafeSpec == DrainInit /\ [][DrainNext]_drainVars

\* A request once made is carried through.  Nothing else is assumed to run: each
\* property names the thread its promise rests on.
DrainSpec == DrainSafeSpec /\ \A c \in Callers : WF_drainVars(Call(c))

\* The watchdogs run, and the thread that left the loop records the stop.
WatchdogsRun ==
    /\ WF_drainVars(Unlisten) /\ WF_drainVars(StampOwn)
    /\ \A r \in Runs : WF_drainVars(Watchdog(r))

\* The thread in the accept loop runs.
LoopRuns == WF_drainVars(AcceptLoop)

----------------------------------------------------------------------------
DrainTypeOK ==
    /\ stop_requested \in BOOLEAN
    /\ listener_fd \in 0 .. NRuns
    /\ stop_at_us \in BOOLEAN
    /\ drain_owner \in Unsigned /\ drain_runs \in Unsigned
    /\ mpc \in {"idle", "listener", "bounds", "start", "arm", "check", "accept",
                "unlisten", "stamp", "teardown", "release", "parked"}
    /\ run \in 0 .. NRuns
    /\ number \in [Runs -> Unsigned]
    /\ wpc \in [Runs -> {"none", "wait", "count", "claim", "fire", "gone"}]
    /\ cpc \in [Callers -> {"idle", "stamp", "close", "done"}]
    /\ exit \in {"no", "overruled", "bound"}

\* Run r is between arming its watchdog and its last act.
Armed(r) == run = r /\ mpc \in {"check", "accept", "unlisten", "stamp", "teardown", "release"}

\* A watchdog that goes on to exit the process does so for the run in progress:
\* never after server_run returned to its caller, and never in the life of the
\* next run, however the claim and the release fall.
ExitForOwnRun ==
    \A r \in Runs : wpc[r] = "fire" => run = r /\ (Armed(r) \/ mpc = "parked")

\* A stop of an armed run has an end: once a stop time is recorded or the run
\* tears itself down, the run ends or the watchdog ends the process, whatever
\* blocks the rest of the server, a loop that broke without a request included.
StopEnds == WatchdogsRun =>
    \A r \in Runs : (Armed(r) /\ (stop_at_us \/ mpc = "teardown")) ~> (~Alive \/ ~Armed(r))

\* A run's watchdog does not outlive the run: it returns, even when the next
\* run has reset the stop time before it looked.
WatchdogLeaves == WatchdogsRun =>
    \A r \in Runs : (wpc[r] # "none" /\ ~Armed(r)) ~> (~Alive \/ wpc[r] = "gone")

\* A stop that arrives while the server listens, at whatever point of its
\* start or of the accept loop, ends the loop without the watchdog's help: no
\* window is left between the check and accept().
StopLeavesLoop == LoopRuns =>
    (stop_requested /\ mpc \in {"check", "accept"}) ~> (~Alive \/ mpc \notin {"check", "accept"})
=============================================================================
