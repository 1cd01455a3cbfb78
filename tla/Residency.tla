------------------------------ MODULE Residency ------------------------------
(***************************************************************************)
(* Model residency in swap mode (registry.c), with the request lifecycle   *)
(* that drives it (server.c: handle_conn) and the server's shutdown.       *)
(* Three threads meet on SV.swap_mu: the one slot worker, which loads and  *)
(* serves; the accept thread, which answers POST /unload and later shuts   *)
(* the server down; and the TTL reaper.  A load runs WITHOUT the lock.     *)
(*                                                                         *)
(* Each swap_mu section is one action.  A model is its registry entry; its *)
(* memory is the container in slot 0: main()'s stack, or the heap.         *)
(***************************************************************************)
EXTENDS Integers

CONSTANTS Models,       \* registry entries
          NoModel,      \* resident == -1
          CommandLines, \* the ways the server is started
          MaxRequests   \* bound: requests the worker pops

ASSUME ResidencyAssumption ==
    /\ NoModel \notin Models
    /\ CommandLines \subseteq [registry : SUBSET Models, preloaded : Models \cup {NoModel},
                                draft : BOOLEAN, yield : BOOLEAN]
    /\ \A o \in CommandLines : /\ o.preloaded # NoModel => o.registry = {o.preloaded}
                               /\ o.draft => o.preloaded # NoModel
    /\ MaxRequests \in Nat

VARIABLES
    opts,            \* the command line: the registry, the model of a single-model
                     \* server, whether it has a draft, --yield-on-request
    resident,        \* SV.resident
    container,       \* what slot 0's model and tokenizer live in
    borrowed,        \* SV.borrowed
    draft,           \* SV.draft is loaded
    generation,      \* provenance load generation
    loading, pending_unload, load_cancel,
    active,          \* SV.active_requests
    ttl,             \* SV.ttl > 0
    prefixes,        \* the prefix cache holds snapshots
    wpc, req,        \* the slot worker and its request
    apc,             \* the accept thread
    rpc,             \* the reaper
    q_shutdown,      \* SV.q.shutdown
    served           \* requests popped so far (bounds the model)

slotVars == <<resident, container, borrowed, draft, generation>>
flagVars == <<loading, pending_unload, load_cancel>>
pcVars   == <<wpc, apc, rpc>>
vars == <<slotVars, flagVars, pcVars, active, ttl, opts, prefixes, req, q_shutdown, served>>

Unknown == "no such model"

\* What a request says: the model it names, the load generation it expects
\* (0: none), its keep_alive, and whether it is a POST /unload that reached
\* the slot path.
Requests ==
    [want : Models \cup {Unknown}, expect : 0 .. MaxRequests + 1,
     keep : {"absent", "zero", "pin", "idle"}, unload : BOOLEAN]

NoRequest == [want |-> Unknown, expect |-> 0, keep |-> "absent", unload |-> FALSE]

Init ==
    /\ opts \in CommandLines
    /\ resident = opts.preloaded
    /\ container = IF resident = NoModel THEN "none" ELSE "stack"
    /\ borrowed = (resident # NoModel)
    /\ draft = opts.draft
    /\ generation = IF resident = NoModel THEN 0 ELSE 1
    /\ loading = FALSE /\ pending_unload = FALSE /\ load_cancel = FALSE
    /\ active = 0
    /\ ttl \in BOOLEAN
    /\ prefixes = FALSE
    /\ wpc = "idle" /\ req = NoRequest
    /\ apc = "accept"
    /\ rpc = "sleep"
    /\ q_shutdown = FALSE
    /\ served = 0

\* unload_resident: drops slot 0's model; a no-op when nothing is resident.
UnloadResident ==
    /\ resident' = NoModel
    /\ container' = IF resident = NoModel THEN container ELSE "none"
    /\ borrowed' = IF resident = NoModel THEN borrowed ELSE FALSE

\* unload_draft, then unload_resident.
UnloadBoth == UnloadResident /\ draft' = FALSE /\ UNCHANGED generation

-----------------------------------------------------------------------------
(* The slot worker: slot_worker, handle_conn.                                *)

\* q_pop hands the worker a connection, whose request it reads.  A client can
\* only expect a generation it has seen.
Pop ==
    /\ wpc = "idle" /\ ~q_shutdown /\ served < MaxRequests
    /\ served' = served + 1
    /\ \E r \in Requests :
         /\ r.want \in opts.registry \cup {Unknown}
         /\ r.expect <= generation
         /\ r.unload => r.want = Unknown /\ r.expect = 0 /\ r.keep = "absent"
         /\ req' = r
         /\ wpc' = IF r.unload THEN "unloadTail" ELSE "read"
    /\ UNCHANGED <<slotVars, flagVars, apc, rpc, active, ttl, opts, prefixes, q_shutdown>>

\* Refused before admission: malformed, a bad keep_alive or expect_resident,
\* a client that stalled, or a stop that arrived while it was being read.
ReadRefuse ==
    /\ wpc = "read"
    /\ wpc' = "idle" /\ req' = NoRequest
    /\ UNCHANGED <<slotVars, flagVars, apc, rpc, active, ttl, opts, prefixes, q_shutdown, served>>

\* The request is counted active before it looks at the resident model.
Admit ==
    /\ wpc = "read"
    /\ active' = active + 1
    /\ wpc' = "swap"
    /\ UNCHANGED <<slotVars, flagVars, apc, rpc, ttl, opts, prefixes, req, q_shutdown, served>>

\* swap_to_expect refuses: no such entry, or not the resident expected (a
\* digest can refuse too).  Nothing of the lifecycle changes.
SwapRefuse ==
    /\ wpc = "swap"
    /\ req.want = Unknown \/ req.expect # 0
    /\ wpc' = "finish"
    /\ UNCHANGED <<slotVars, flagVars, apc, rpc, active, ttl, opts, prefixes, req,
                   q_shutdown, served>>

\* For mutation: no comparison with the resident's generation.
ExpectedUnchecked == req.want # Unknown

\* The request names an entry and its expectation, if any, holds.
Expected ==
    /\ req.want # Unknown
    /\ req.expect # 0 =>
         resident = req.want /\ ~loading /\ generation = req.expect

\* The model is already resident; the request supersedes a pending unload.
SwapResident ==
    /\ wpc = "swap" /\ Expected /\ resident = req.want
    /\ pending_unload' = FALSE
    /\ wpc' = "serving"
    /\ UNCHANGED <<slotVars, loading, load_cancel, apc, rpc, active, ttl, opts, prefixes,
                   req, q_shutdown, served>>

\* For mutation: a load that starts over the resident it replaces.
SwapLoadOver ==
    /\ wpc = "swap" /\ Expected /\ resident # req.want
    /\ pending_unload' = FALSE /\ loading' = TRUE /\ load_cancel' = FALSE
    /\ wpc' = "loading"
    /\ UNCHANGED <<slotVars, apc, rpc, active, ttl, opts, prefixes, req, q_shutdown, served>>

\* Another model is resident, or none: unload it and start the load, which
\* runs outside the lock.
SwapLoad ==
    /\ wpc = "swap" /\ Expected /\ resident # req.want
    /\ pending_unload' = FALSE
    /\ UnloadResident
    /\ loading' = TRUE
    /\ load_cancel' = FALSE
    /\ wpc' = "loading"
    /\ UNCHANGED <<draft, generation, apc, rpc, active, ttl, opts, prefixes, req,
                   q_shutdown, served>>

\* load_should_stop, polled while the load waits for VRAM: the client has
\* gone and nobody is queued behind it.
LoadOwnerGone ==
    /\ wpc = "loading" /\ ~load_cancel
    /\ load_cancel' = TRUE
    /\ UNCHANGED <<slotVars, loading, pending_unload, pcVars, active, ttl, opts, prefixes,
                   req, q_shutdown, served>>

\* Back under the lock with a load that failed, was refused, or was unloaded
\* or cancelled meanwhile (or whose engine cannot be initialised): the slot
\* stays empty.
LoadFail ==
    /\ wpc = "loading"
    /\ loading' = FALSE /\ pending_unload' = FALSE
    /\ wpc' = "finish"
    /\ UNCHANGED <<slotVars, load_cancel, apc, rpc, active, ttl, opts, prefixes, req,
                   q_shutdown, served>>

\* The load is installed; a configured draft comes back with it, or fails to.
LoadInstall ==
    /\ wpc = "loading" /\ ~pending_unload /\ ~load_cancel
    /\ loading' = FALSE
    /\ resident' = req.want /\ container' = "heap"
    /\ draft' \in {draft, opts.draft}
    /\ generation' = generation + 1
    /\ wpc' = "serving"
    /\ UNCHANGED <<borrowed, pending_unload, load_cancel, apc, rpc, active, ttl, opts,
                   prefixes, req, q_shutdown, served>>

\* The handler runs on the resident model and may publish a prefix snapshot.
Serve ==
    /\ wpc = "serving"
    /\ prefixes' \in {prefixes, TRUE}
    /\ wpc' = "served"
    /\ UNCHANGED <<slotVars, flagVars, apc, rpc, active, ttl, opts, req, q_shutdown, served>>

\* The requested adapter cannot be installed: no handler, no keep_alive.
ServeRefuse ==
    /\ wpc = "serving"
    /\ wpc' = "finish"
    /\ UNCHANGED <<slotVars, flagVars, apc, rpc, active, ttl, opts, prefixes, req,
                   q_shutdown, served>>

\* keep_alive: 0 asks for an unload at the safe point, otherwise it sets ttl.
KeepAlive ==
    /\ wpc = "served"
    /\ pending_unload' = IF req.keep = "zero" THEN TRUE ELSE pending_unload
    /\ ttl' = IF req.keep \in {"pin", "idle"} THEN req.keep = "idle" ELSE ttl
    /\ wpc' = "finish"
    /\ UNCHANGED <<slotVars, loading, load_cancel, apc, rpc, active, opts, prefixes, req,
                   q_shutdown, served>>

\* The request stops counting before the bookkeeping takes the lock.
Finish ==
    /\ wpc = "finish"
    /\ active' = active - 1
    /\ wpc' = "tail"
    /\ UNCHANGED <<slotVars, flagVars, apc, rpc, ttl, opts, prefixes, req, q_shutdown, served>>

\* For mutation: a safe point that forgets the deferred unload.
TailForgets ==
    /\ wpc = "tail"
    /\ wpc' = "idle" /\ req' = NoRequest
    /\ UNCHANGED <<slotVars, flagVars, apc, rpc, active, ttl, opts, prefixes, q_shutdown, served>>

\* The safe point: honour an unload deferred by /unload or keep_alive 0.
Tail ==
    /\ wpc = "tail"
    /\ IF pending_unload /\ ~loading /\ active = 0
       THEN UnloadBoth /\ pending_unload' = FALSE /\ wpc' = "unloadClear"
       ELSE UNCHANGED <<slotVars, pending_unload>> /\ wpc' = "idle"
    /\ req' = NoRequest
    /\ UNCHANGED <<loading, load_cancel, apc, rpc, active, ttl, opts, prefixes,
                   q_shutdown, served>>

\* q_pop returns no connection once the queue is shut down.
WorkerExit ==
    /\ wpc = "idle" /\ q_shutdown
    /\ wpc' = "exited"
    /\ UNCHANGED <<slotVars, flagVars, apc, rpc, active, ttl, opts, prefixes, req,
                   q_shutdown, served>>

-----------------------------------------------------------------------------
(* POST /unload: handle_unload, on the accept thread or on the worker.       *)

At(t) == IF t = "worker" THEN wpc ELSE apc

Goto(t, l) == IF t = "worker" THEN wpc' = l /\ UNCHANGED apc
                              ELSE apc' = l /\ UNCHANGED wpc

\* The accept thread's fast path recognises the request.
UnloadBegin ==
    /\ apc = "accept"
    /\ apc' = "unloadTail"
    /\ UNCHANGED <<slotVars, flagVars, wpc, rpc, active, ttl, opts, prefixes, req,
                   q_shutdown, served>>

\* A load is running: cancel it and leave the unload to it.
UnloadLoading(t) ==
    /\ At(t) = "unloadTail" /\ loading
    /\ pending_unload' = TRUE /\ load_cancel' = TRUE
    /\ Goto(t, "unloadClear")
    /\ UNCHANGED <<slotVars, loading, rpc, active, ttl, opts, prefixes, req, q_shutdown, served>>

\* A request is active and outlasts the bounded wait for its tail: defer.
UnloadDefer(t) ==
    /\ At(t) = "unloadTail" /\ ~loading /\ active > 0
    /\ pending_unload' = TRUE
    /\ Goto(t, "unloadClear")
    /\ UNCHANGED <<slotVars, loading, load_cancel, rpc, active, ttl, opts, prefixes, req,
                   q_shutdown, served>>

\* For mutation: an unload that does not look at the active requests.
UnloadEager(t) ==
    /\ At(t) = "unloadTail" /\ ~loading
    /\ UnloadBoth
    /\ Goto(t, "unloadClear")
    /\ UNCHANGED <<flagVars, rpc, active, ttl, opts, prefixes, req, q_shutdown, served>>

\* Nothing is using the model: free it now.
UnloadNow(t) ==
    /\ At(t) = "unloadTail" /\ ~loading /\ active = 0
    /\ UnloadBoth
    /\ Goto(t, "unloadClear")
    /\ UNCHANGED <<flagVars, rpc, active, ttl, opts, prefixes, req, q_shutdown, served>>

\* prefix_cache_clear, after the lock is released, then the answer.
UnloadClear(t) ==
    /\ At(t) = "unloadClear"
    /\ prefixes' = FALSE
    /\ Goto(t, IF t = "worker" THEN "idle" ELSE "accept")
    /\ UNCHANGED <<slotVars, flagVars, rpc, active, ttl, opts, req, q_shutdown, served>>

-----------------------------------------------------------------------------
(* The reaper: ttl_reaper.                                                   *)

\* The unlocked look, which may be stale by the time the lock is taken.
ReaperLook ==
    /\ rpc = "sleep" /\ apc # "joinReaper"
    /\ resident # NoModel /\ active = 0
    /\ rpc' = "look"
    /\ UNCHANGED <<slotVars, flagVars, wpc, apc, active, ttl, opts, prefixes, req,
                   q_shutdown, served>>

\* For mutation: the reaper that left the draft mapped.
ReapKeepsDraft ==
    /\ rpc = "look" /\ active = 0 /\ (ttl \/ opts.yield)
    /\ UnloadResident
    /\ rpc' = "sleep"
    /\ UNCHANGED <<draft, generation, flagVars, wpc, apc, active, ttl, opts, prefixes, req,
                   q_shutdown, served>>

\* Under the lock: the model idled past --ttl, or another runner asked for
\* its VRAM.
Reap ==
    /\ rpc = "look" /\ active = 0 /\ (ttl \/ opts.yield)
    /\ resident # NoModel
    /\ UnloadBoth
    /\ rpc' = "sleep"
    /\ UNCHANGED <<flagVars, wpc, apc, active, ttl, opts, prefixes, req, q_shutdown, served>>

\* Not due, no longer idle, or the lock was busy.
ReaperSkip ==
    /\ rpc = "look"
    /\ rpc' = "sleep"
    /\ UNCHANGED <<slotVars, flagVars, wpc, apc, active, ttl, opts, prefixes, req,
                   q_shutdown, served>>

ReaperExit ==
    /\ rpc = "sleep" /\ apc = "joinReaper"
    /\ rpc' = "exited"
    /\ UNCHANGED <<slotVars, flagVars, wpc, apc, active, ttl, opts, prefixes, req,
                   q_shutdown, served>>

-----------------------------------------------------------------------------
(* Shutdown: the end of server_run, on the accept thread.                    *)

\* For mutation: a shutdown that leaves the queue open.
QueueShutdownOpen ==
    /\ apc = "accept"
    /\ apc' = "cancel"
    /\ UNCHANGED <<slotVars, flagVars, wpc, rpc, active, ttl, opts, prefixes, req,
                   q_shutdown, served>>

\* The accept loop ends; queue_shutdown fails what has not started.
QueueShutdown ==
    /\ apc = "accept"
    /\ q_shutdown' = TRUE
    /\ apc' = "cancel"
    /\ UNCHANGED <<slotVars, flagVars, wpc, rpc, active, ttl, opts, prefixes, req, served>>

CancelLoad ==
    /\ apc = "cancel"
    /\ load_cancel' = TRUE
    /\ apc' = "joinSlot"
    /\ UNCHANGED <<slotVars, loading, pending_unload, wpc, rpc, active, ttl, opts, prefixes,
                   req, q_shutdown, served>>

\* The slot worker is joined; SV.shutdown tells the reaper to leave.
JoinSlot ==
    /\ apc = "joinSlot" /\ wpc = "exited"
    /\ apc' = "joinReaper"
    /\ UNCHANGED <<slotVars, flagVars, wpc, rpc, active, ttl, opts, prefixes, req,
                   q_shutdown, served>>

\* The reaper is joined; what is still resident is freed with the snapshots.
FinalUnload ==
    /\ apc = "joinReaper" /\ rpc = "exited"
    /\ UnloadBoth
    /\ prefixes' = FALSE
    /\ apc' = "done"
    /\ UNCHANGED <<flagVars, wpc, rpc, active, ttl, opts, req, q_shutdown, served>>

Terminated == apc = "done" /\ UNCHANGED vars

-----------------------------------------------------------------------------
WorkerStep ==
    \/ ReadRefuse \/ Admit \/ SwapRefuse \/ SwapResident \/ SwapLoad \/ LoadFail \/ LoadInstall
    \/ Serve \/ ServeRefuse \/ KeepAlive \/ Finish \/ Tail \/ WorkerExit

UnloadStep(t) ==
    UnloadLoading(t) \/ UnloadDefer(t) \/ UnloadNow(t) \/ UnloadClear(t)

ShutdownStep == CancelLoad \/ JoinSlot \/ FinalUnload

Next ==
    \/ Pop \/ WorkerStep \/ LoadOwnerGone
    \/ UnloadBegin \/ \E t \in {"worker", "accept"} : UnloadStep(t)
    \/ ReaperLook \/ Reap \/ ReaperSkip \/ ReaperExit
    \/ QueueShutdown \/ ShutdownStep \/ Terminated

\* Threads keep running: a load ends (its VRAM wait is bounded), a request
\* ends, an /unload is answered, a begun shutdown is carried through and the
\* reaper wakes to see it.
Fairness ==
    /\ WF_vars(WorkerStep)
    /\ \A t \in {"worker", "accept"} : WF_vars(UnloadStep(t))
    /\ WF_vars(ShutdownStep)
    /\ WF_vars(ReaperSkip \/ ReaperExit)

SafeSpec == Init /\ [][Next]_vars

Spec == SafeSpec /\ Fairness

-----------------------------------------------------------------------------
TypeOK ==
    /\ opts \in CommandLines
    /\ resident \in Models \cup {NoModel}
    /\ container \in {"none", "stack", "heap"}
    /\ borrowed \in BOOLEAN /\ draft \in BOOLEAN
    /\ generation \in 0 .. MaxRequests + 1
    /\ loading \in BOOLEAN /\ pending_unload \in BOOLEAN /\ load_cancel \in BOOLEAN
    /\ active \in 0 .. 1
    /\ ttl \in BOOLEAN /\ prefixes \in BOOLEAN
    /\ wpc \in {"idle", "read", "swap", "loading", "serving", "served", "finish",
                "tail", "unloadTail", "unloadClear", "exited"}
    /\ req \in Requests
    /\ apc \in {"accept", "unloadTail", "unloadClear", "cancel", "joinSlot",
                "joinReaper", "done"}
    /\ rpc \in {"sleep", "look", "exited"}
    /\ q_shutdown \in BOOLEAN
    /\ served \in 0 .. MaxRequests

\* A request runs on the model it was routed to, from the swap to its safe
\* point: neither /unload, nor the reaper, nor a keep_alive frees or replaces
\* it underneath.
ModelInUse ==
    wpc \in {"serving", "served"} => resident = req.want /\ container # "none"

\* While a load runs without the lock nothing is resident, slot 0 is empty and
\* no draft is left behind (the comment in swap_to_expect).
LoadingAlone ==
    loading => /\ wpc = "loading" /\ resident = NoModel /\ container = "none"
               /\ ~draft

\* Who owns what slot 0 uses stays right through unloads and reloads: `borrowed`
\* says exactly when the containers are main()'s, so unload_resident neither frees
\* stack memory nor leaks a reload, and the draft never outlives its target.
OwnersAgree ==
    /\ borrowed <=> container = "stack"
    /\ container = "none" <=> resident = NoModel
    /\ draft => resident # NoModel

\* A request that named the generation it expects is served by that load.
ExpectHonoured ==
    wpc \in {"serving", "served"} /\ req.expect # 0 => generation = req.expect

\* A deferred unload comes to pass, or a later request supersedes it.
DeferredUnloadEnds == pending_unload ~> ~pending_unload

\* A shutdown ends with every model's memory given back.
ShutdownReleases ==
    apc = "cancel" ~> (apc = "done" /\ resident = NoModel /\ ~draft /\ ~prefixes)

\* The shutdown's cancel reaches the load a worker is parked in (server.c, the
\* comment on load_cancel in server_run): once it is stored, no load runs
\* uncancelled.
ShutdownCancelsLoad == apc = "joinSlot" /\ loading => load_cancel
=============================================================================
