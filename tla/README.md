# A TLA+ verification of xyntetik-runner's serving core

xyntetik-runner is a local inference server for GGUF language models, written in
C. This directory holds TLA+ models of the parts of it in which several threads or
several processes share state, TLC configurations that check them, and proofs
checked by TLAPS. Every model is written from the code under `src/src/`;
`PROJECT.json` maps each definition to the lines it stands for.

## 1. The system

### Components, state, operations

| Component | Files | State | Operations |
|---|---|---|---|
| Device turnstile | scheduler.c | `dev_next`, `dev_serving` | `dev_take`, `dev_give` |
| Batching scheduler | scheduler.c, completion.c, engine.c | one `seq_t` per slot, `n_wait`, `n_active`, the microbatch scratch | `sched_prefill_begin/end`, `sched_generate`, `sched_forward`, `decode_worker`, `sched_shutdown` |
| Batched decode | model.c | the backend's logit buffer, `hold`, each sequence's own buffer | `model_batch_decode` |
| Model residency | registry.c, server.c | resident index, slot 0's containers, draft, `loading`, `pending_unload`, `load_cancel`, `active_requests`, `ttl` | `swap_to_expect`, `handle_unload`, `ttl_reaper`, the tail of `handle_conn`, the end of `server_run` |
| VRAM ledger | vramreg.c, model.c | one file per GPU, shared by all runners of the machine | `vram_claim`, `vram_commit`, `vram_release`, reaping |
| Admission queue | registry.c, server.c | ring of sockets, `shutdown`, the slots asleep on it | `q_push`, `q_pop`, `queue_shutdown`, `slot_worker` |
| Stop and drain watchdog | server.c | stop flag and time, published listener, owner of the exit | `server_request_stop`, `drain_watchdog`, the start and end of `server_run` |
| Prefix cache, named contexts | engine.c, completion.c, server.c | list of KV snapshots, its byte count, pins, readers; each slot's history, rows and turn mark | `engine_prefix_reuse`, `engine_prefix_publish`, `engine_rewind`, `prefix_context_*`, `prefix_cache_clear` |
| Thread pool | quants.c | generation, done and sleeper counts, the job, references | `tp_worker`, `tpool_run`, `tpool_destroy` |
| Response store, sessions, KV snapshots | respstore.c, session.c, kvsnap.c | earlier turns, in memory or on disk | put, get, evict; save, restore |
| Provenance, receipts | provenance.c, receipts.c | load record, background digest | note load or unload, digest |
| Everything else | tokenizer, templates, schema automata, sampler, GGUF, kernels, signatures, API translation, tray, download, command line | none shared, or device-side | pure or I/O |

### How they interact

The accept thread answers small requests itself (`/unload` among them) and queues
the rest; slot threads pop them. With one slot, or with a registry of models, a
request first makes its model resident. With several slots of one model, each slot
thread prefills its own prompt holding the *device turn*, gives the turn back
between chunks, and then generates token by token: `sched_forward` queues one row
and sleeps, the decode thread cuts a microbatch out of whoever waits, takes the
turn, runs `model_batch_decode`, copies the logits home and wakes the slots. A
reaper thread frees an idle model. Each load registers its footprint in the
machine-wide VRAM ledger, which other runner processes read and edit under a file
lock. A stop closes the queue, cancels a load, joins the slots, then the decode
thread, then the reaper, and frees what is left; a watchdog bounds all of it.
Before a prefill, a slot keeps what its own cache shares with the prompt or forks a
longer snapshot that another slot published; every CPU forward of every slot runs its
loops on one thread pool.

### What is hard, and what has to be right

* **Turnstile**: FIFO hand-over with counters that wrap. One owner, arrival order,
  nobody forgotten.
* **Scheduler**: slots and decode thread exchange a buffer under a mutex that is
  *not* held while the buffer is written. A deadline, a failed microbatch or the
  shutdown may strike at each point. Each slot must sample from its own row, counts
  must be paid by whoever leaves, and the KV cache must not contain rows that no
  forward filled.
* **Batched decode**: three kinds of buffer, one reused by each microbatch; it
  once handed one request another one's logits.
* **Residency**: unload, reap, load and shutdown on three threads; unlocked looks
  and an unlocked load. No model freed in use, no deferred unload forgotten.
* **VRAM ledger**: several processes, kills, recycled pids, a full table, waiters
  with priorities. No overcommitment, no lost or left-over entry.
* **Admission**: one condition variable, one signal per push, four places that close a
  connection. Each client is answered once and in order, none waits while slots sleep.
* **Drain**: a stop may come from a signal handler or any thread, at any point of the
  start, of the accept loop or of the shutdown, and a process may serve again
  afterwards. A stop always has an end, and a watchdog never ends a run that is not
  its own.
* **Prefix cache**: a snapshot that does not match the prompt gives a plausible wrong
  answer; a recurrent fold cannot be cut as attention rows can; exports read without
  the lock; pins, TTL, budget and entry limit compete.
* **Thread pool**: two lock-free handshakes stand between a hot pool and a hang, and the
  next run reuses the counters of the last.

## 2. Modules

| Module | Models | Composes |
|---|---|---|
| `TurnQueue` | the promise of the device turn: a queue, and whether its head is inside | |
| `Turnstile` | `dev_take`, `dev_give` over tickets modulo `TicketMod` (2^32 in C) | implements `TurnQueue` |
| `Scheduler` | slot threads, decode thread, drain | `TurnQueue` (INSTANCE) as the device turn |
| `BatchDecode` | one `model_batch_decode` step after another | |
| `Residency` | slot worker, accept thread, reaper | |
| `VramReg` | several runner processes and the ledger file | |
| `Admission` | accept thread, slot threads, the ring | |
| `Drain` | stop requests, watchdogs, several `server_run`s of a process | |
| `PrefixStore` | the shared cache and the slots' own caches | |
| `TPool` | pool workers and the threads that run jobs | |
| `MC*` | model values and functions for TLC | |
| `SchedulerProofs`, `ResidencyProofs`, `VramRegProofs`, `PrefixStoreProofs`, `TPoolProofs` | theorems about the module of that name | extends it |
| `DeviceProofs` | theorems about the device turn and the batch it runs | extends `Turnstile`, `BatchDecode` |
| `ServerProofs` | theorems about the way in and out of the server | extends `Admission`, `Drain` |
| `SetLemmas` | sums, greatest elements and images of finite sets | used by `VramRegProofs`, `PrefixStoreProofs` |

`Scheduler` uses the abstract `TurnQueue`, not the tickets: `TurnstileRefinesQueue`
proves that the tickets implement it, so the scheduler's runs need not carry them.

### Turnstile
`dev_next`, `dev_serving` are the C fields; `ticket[t]` is `mine` of the thread's
last `dev_take`; `turn[t]` is its position. `Take` is `dev_take` up to its wait,
`Enter` the wait loop finding its ticket, `Give` is `dev_give`. The condition
variable needs no state: every give broadcasts, and each waiter rechecks.

### Scheduler
One action per critical section of `SCH.mu` or of the device turn. `state` is
`seq[s].state` with `READY` split by `seq[s].ok`; `logits[s]` is the pair
*(slot, row)* of the forward that filled the buffer the slot samples from, which is
all a property can tell apart; `work` is the decode thread's microbatch; `epos`,
`pending`, `kv` are the engine's position, its row handed out but not forwarded, and
the rows that really are filled. A prefill chunk and a solo generation are one
action each; a chunk is one row. The decode thread's wait on `dec_cv` is explicit
(`dpc = "asleep"`), because a lost signal there would hang a request; slots wait
with a timeout, so their wait is a guard. The gather timeout may fire at any time.
`device_turn` is what `sched_start` settles from the model: whether forwards take turns
at all (a GPU) or not (the CPU); both are initial states.

### BatchDecode
A step over `n` ready sequences. `out[i]` says in which buffer the caller will find
row *i*; `buf`, `hold`, `own` hold the row numbers that were written. A backend
failure is a choice at each microbatch.

### Residency
`wpc`, `apc`, `rpc` are the slot worker, the accept thread (with the shutdown it ends
in) and the reaper. Each section of `swap_mu` is an action; what the code does
outside it (the load, the reaper's first look, clearing the prefix cache, the drop
of `active_requests`) is an action of its own. `container` and `borrowed` track who
owns slot 0's containers: main's stack for the model given on the command line, the
heap for every later one. `generation` counts installs; a request may expect one.
Digest expectations are abstracted to a refusal that may always happen. `opts` is the
command line, fixed from the start: the registry, a model preloaded by `main`, its
draft, `--yield-on-request`.

### VramReg
Each `plat_file_rmw` is one action, as the file lock makes it. A claim `c` stands for a
`(pid, seq)`; `inc` for a process's start time. `FreeNow` is the driver's figure,
`used` what was really allocated. `model_vram_claim` is followed through: the
refusal, the second claim of what was available, and the load without a lease.
A claim binds nobody: `gpu_init` is not told it and fits its layers into the driver's
figure, so `Allocate` and `AllocateBare` take any part of `FreeNow`, more than was claimed
or less, and `Resize` lets a loaded model grow and shrink (adapters, batch buffers,
checkpoints) without an entry. From the commit on `ask` is history: how much of its claim
the load still holds.
The figure a commit records is left out: reports show it, no decision reads it.
`capacity` is `REG_MAX_ENTRIES`, which an initial state picks from `Capacities`.
Assumed: the registry file can be written (if not, the code admits every claim
unrecorded, by design); every entry has a start time and that of a live pid can be
read, as on Linux, macOS and Windows (vramreg.c:197-208: without it a recycled pid goes
unnoticed, and claims and markers are dropped when an hour old instead); it differs for
two processes of one pid, which it does not if they start within one second; `Total` is what
programs outside the ledger leave of the device.

### Admission
`fds`, `head`, `tail`, `count`, `shutdown` are `SV.q`; `asleep` is the set of slots inside
`pthread_cond_wait`, because `q_push` signals only one of them. `Enqueue`, `LookFull` and
`Shed` are the outcomes of `q_push`'s looks, `Pop`, `Wait` and `PopShutdown` those of
`q_pop`, `QueueShutdown` is its critical section and `Refuse` each 503 it then sends.
What happens to a connection is reduced to who closes it: `closes` counts. `pushed` and
`popped` are history. A wait may end without a signal (`Spurious`).

### Drain
Each atomic access is an action, as a signal handler or thread may come between any two
(`Arm` alone is several: only the serving thread touches `drain_runs`, and to the watchdogs
of earlier runs the owner is a stranger before and after):
`Request`, `Stamp`, `CloseListener` are `server_request_stop`; `Begin` to `Release` the
thread in `server_run`; `WaitForStop`, `Countdown`, `Claim`, `Fire` the watchdog of a run.
`listener_fd` holds the run whose listener is published. `drain_runs` starts at any
value, so that a run number may be the first after the wrap, and skips 0 and
`DRAIN_FIRING` as the code does. `Abandon` stands for each early return of the start.
Time is left out: after the stop is stamped the bound may pass at once or late. `DrainSpec`
assumes only that a request once begun is carried through; each liveness property
names what else it rests on, `WatchdogsRun` or `LoopRuns`. The
model assumes that a watchdog thread was created (otherwise the code does not serve).

### PrefixStore
A critical section of `PFX.mu` is one action over the store as a record (`Drop`, `Expire`,
`Trim`, `Insert` are `pfx_drop`, `pfx_expire`, `pfx_trim` and the link at the head; how many
entries a trim evicts is the least number after which the new one fits). An
entry's KV and a slot's rows are the token sequence they were computed from, so a wrong
copy shows as a difference between `state` and `hist`. The linked list is a set of entries
with ranks in the place of clocks and links: `used` orders them by use, `born` by insertion,
and a scan from the head is a choice of the greatest `born` (`Newest`). The TTL is a choice of how many of the oldest entries have passed it. `fold` is the size of the
model's recurrent state, 0 for an attention model. `gone` is history: the slots whose
named context was released, replaced or cleared since the check at admission. `Fork` is the
reuse in the device turn with the 409 of a named context, `FeedAndPublish` the prefill with `engine_mark_turn` and `engine_prefix_publish`, `PinBegin`
and `PinEnd` (with `Pin`) the creation of a context, `ExportBegin` and `ExportEnd` the unlocked read.
Bytes are counted in tokens. Assumed: one model, no KV ring, no tied-V layout, an
imported file is what an export wrote (the code checks its digest), no drafting, so that
`engine_rewind` has no speculation snapshot to restore (engine.c:291), and a turn mark that
can always be taken and restored (the code recomputes where it cannot).

### TPool
The atomics, `run_mu`, `mu` and the two wait sets are variables. A spin may end in a park
at any moment. `TakeJob` reads the job after the generation, `Count`, `LastLooks` and
`LastSignals` are the end of a worker's turn, `AwaitPark` to `AwaitWake` the caller's wait.
`computed` counts how often each item was run. Memory is sequentially consistent: the
relaxed stores of a run are published by its seq_cst increment of `gen`. A job that needs
no pool (fewer than two items) never touches this state and is left out.

## 3. Runs

| Run | Instance | Checks | Distinct states |
|---|---|---|---|
| `turnstile` | 4 threads, 5 ticket values, fair | `OneHolder`, `TicketsInOrder`, `EveryTicketServed`, `ImplementsQueue` (refinement of `TurnQueue`) | 11,286 |
| `scheduler` | 3 slots, batches of 2, with and without device turns | `CountsMatch`, `InflightOwned`, `OwnRow`, `RowsFilled`, `DeviceExclusive` | 459,874 |
| `scheduler_live` | 2 slots, fair | `ForwardReturns`, `TurnComes`, `DrainCompletes` | 42,342 |
| `residency` | two registry models, or one preloaded with a draft and yield on request; 3 requests, fair | `ModelInUse`, `LoadingAlone`, `OwnersAgree`, `ExpectHonoured`, `DeferredUnloadEnds`, `ShutdownReleases` | 193,750 |
| `residency_cancel` | two registry models, 1 request | `ShutdownCancelsLoad`: **violated** | |
| `vram_ledger` | 2 processes, 3 claims, one pid that comes back, device of 2, tables of 2 and of 4 entries | `PledgesCovered`, `LedgerTells`, `MarkersCurrent`, `AdmittedFits`, `PriorityRespected` | 1,282,998 |
| `batch_decode` | up to 9 sequences, batches of 2 | `RowsHome` | 4,891 |
| `admission` | 4 connections, 2 slots, ring of 2, fair | `OneEnding`, `QueueOrder`, `QueuedIsTaken`, `StopReachesJoin` | 89,368 |
| `drain` | 2 runs, 2 stop requests, 6 run numbers | `ExitForOwnRun`, `StopEnds`, `WatchdogLeaves`, `StopLeavesLoop` | 30,144 |
| `prefix_store` | 2 slots, attention model, budget of 6 tokens, 2 entries | `ReadersSafe`, `RefusedOnlyIfGone` | 108,553 |
| `prefix_models` | 1 slot, 2 names, attention and recurrent model, all request modes, budget of 8 | `RowsAreTokens`, `BytesExact` | 60,177 |
| `thread_pool` | 2 callers, 2 workers, any number of runs, jobs of 2 and 4 items, generations modulo 2, fair | `JobWhole`, `FreedUnused`, `RunReturns` | 86,407 |

`turnstile` shows that tickets are handed on in the order taken, each holder alone and each
ticket served, although they wrap. `scheduler` shows that a slot samples from its own
row or fails, whatever deadline, failure or shutdown strikes, that whoever leaves pays the
counts, that the KV cache has no unfilled row below the position, and that no two forwards
use the device at once; `scheduler_live` that none of it hangs. `residency` shows that
no model is freed in use or by the wrong owner, that a request with an expectation is
served by that load or refused, and that deferred unloads and shutdowns end.
`vram_ledger` shows that a claim is admitted only if it fits beside all that is in use and
pledged, whoever took it and with or without a lease; that use and pledges together exceed
the device only by what loads hold beyond their claims, so that the ledger itself promises
no byte twice, kills and recycled pids included; that a lease is in the ledger exactly as
long as it is held, that a waiter's marker ends with its wait, and that no lower priority is
admitted past a waiter that fits. It does not show that an admitted load finds its memory:
another load may have taken it (section 5).
`batch_decode` shows that each sequence finds its own row.
`admission` shows that each connection is closed once and served in order, and that
neither a queued client nor a stop is left waiting for a signal that went elsewhere.
`drain` shows that a stop ends the run, that the loop needs no watchdog to end, and that
a watchdog never exits another run's process. `prefix_store` shows that an
export reads no freed snapshot and that 409 is given only for a context that is gone;
`prefix_models` that rows and fold are those of the slot's tokens and that the byte count
is exact. `thread_pool` shows that a job is computed once and whole before its run
returns, that a destroy meets no run, and that no wake-up is lost.

Each module also defines `TypeOK` (`BatchTypeOK` and `DrainTypeOK` in those modules, which
share a proof module with another), the types of its variables; it holds in each
instance and is part of the inductive invariants of section 4, but asks nothing of the
code, so no run is about it.

**Why the bounds suffice.** Five ticket values for four threads are the tightest legal
modulus and wrap on nearly every path. Three slots over batches of two give a full
batch, a partial one and a slot left behind at once; `NCtx` rows let a slot prefill,
generate and run out of context. Two requests on one slot are enough for each
unload to fall between any two steps of one request and for a second to supersede
it; the run has three. Three claims on two processes give two claims of one process, a waiter and a
rival of another priority; needs of 1 and 2 on a device of 2 give fits, does not fit,
and never fits; a table of two entries fills up with the third. Nine sequences over batches of two give first, middle and last
microbatches and an odd remainder. A ring of two used to its last entry makes head and
tail meet with one in flight at each slot, one held by the accept thread and one shed.
Two server runs are enough for state to leak from one into the next, two stop requests
for the overruling second one, and six run numbers for every start value to reach a
skipped one. The prompts of the prefix runs extend, cover, and diverge from each other
and from the contexts; each budget holds some pairs of entries and not others. Two pool
workers give a first and a last to count, jobs of two and four items on three threads an
idle worker and an uneven split; with generations modulo 2 a worker that
missed one generation would take the next for old.

**Deadlock** is checked except for the ledger run, where every process may have been
killed with no restart left. Where a system comes to rest (joined, exited, pool freed)
the model has an explicit final step.

**Fairness.** Weak fairness of each thread's own steps: the operating system schedules a
runnable thread, a forward and a load return, the gather wait and the slots' waits
are timed. Arrivals, client behaviour, deadlines, failures, stops and the
reaper's choice to act are never assumed. A VRAM wait ends because `vram_claim`
bounds it by its deadline. `Admission` assumes that `accept()` returns once the stop has
closed the listener. `Drain` states the fairness with each property: for the bound only the
watchdogs run, a request once begun is carried through and the thread that left the
accept loop stamps the stop, and everything else may block for ever; for the accept loop
only that loop runs, so that leaving it does not rest on the watchdog. `TPool` needs
strong fairness, since a thread at a mutex is only enabled while nobody holds it; spins,
parks, new jobs and letting go are not assumed. `PrefixStore` states no liveness.

## 4. Proofs

Each proof module extends the modules it is about and follows one plan: an inductive
invariant (`IInv`, `BytesInv`, `PrefixInv`), shown to hold initially and to be preserved by
every step, with one lemma per action or group of actions, and theorems `Spec => []Inv`
that follow from it. Every such invariant was model-checked on the run's instance before it
was proved. The assumptions on the constants are the `ASSUME`s of the modules; TLC
evaluates them in each run.

**`DeviceProofs`, the turnstile**, for any finite set of threads smaller than the number of ticket
values (the server caps the slots at 16; tickets are 32 bits):

* `TurnstileCorrect`: `SafeSpec => [](TypeOK /\ TicketsInOrder)`;
* `TurnstileExclusive`: `SafeSpec => []OneHolder`;
* `TurnstileRefinesQueue`: `SafeSpec => Queue!SafeSpec`.

`OneHolder` is not inductive: that only the thread on display may enter says nothing
unless no two live threads have the same ticket, which after a wrap holds only
because the live tickets lie strictly between the counters and number
`Ahead(dev_next, dev_serving)`. `TicketsInOrder` says exactly that, and is
inductive with the types. `Take` needs the pigeonhole (fewer threads than values,
so the distance never reaches `TicketMod`), `Give` the fact that only the giver has
the displayed ticket; lemmas on `Inc` and `Ahead` carry the modular arithmetic, so that
no leaf has to reason about `%`. For the refinement a thread's place in the queue is the
distance of its ticket from the displayed one. `NoGap` (every place up to the number of
live threads is taken) makes the mapped `queue` a sequence that lists each live thread
once; then `Take` appends, `Enter` is the head's, `Give` is the tail, and everything else
leaves the queue alone. Only the safety part is proved; `ImplementsQueue` adds fairness
and is checked by TLC.

**`SchedulerProofs`**, for any finite set of slots, batch size and context length:
`SchedulerTypes` (`TypeOK`), `SchedulerCountsMatch`, `SchedulerInflightOwned`,
`SchedulerOwnRow`, `SchedulerRowsFilled`, `SchedulerDeviceExclusive`. The invariant ties
three threads' views together: `Parked` (a sequence takes part in the batching exactly
while its slot thread is in `sched_forward`, and is in the microbatch exactly while in
flight), `RowAt` (how far the cache is filled and whose logits the slot will read, at
every point of a request), `RowQueued` (the same while the row is with the decode thread)
and `DevInv` (whoever is on the device is the head of the turn's queue and has it).
`OwnRow` alone fails to be inductive because the logits a slot samples are written by
another thread several steps earlier.

**`DeviceProofs`, batched decoding**, for every `MaxReady` and `BatchMax`:
`BatchDecodeCorrect` (`BatchSpec => [](BatchTypeOK /\ RowsHome /\ BufferIsLast)`).
The invariant is strengthened by what holds in the middle of a step: rows up to
`done` are already right in the buffer `out` names, rows beyond are unset, and the
backend's buffer is named only by rows of the last microbatch, the only one whose
rows nothing overwrites.

**`ResidencyProofs`**, for any models, command lines and number of requests:
`ResidencyModelInUse`, `ResidencyLoadingAlone`, `ResidencyOwnersAgree`,
`ResidencyExpectHonoured`. The four support each other and need `WorkerCounted`
(`active_requests` is 1 exactly from admission to the drop ahead of the safe point, and
`loading` is set exactly during the load: what every unloader tests), `RequestFits` (a load
answers a request without an expected resident) and `JoinedFirst` (the shutdown frees slot
0 after the worker has gone). `OwnersAgree` with a draft rests on the assumption that a
server with a draft has a single model, as the command line enforces.

**`VramRegProofs`**, for any processes, claims, sizes, priorities and table capacities,
with crashes and pid reuse: `VramLedgerTells`, `VramMarkersCurrent`, `VramPledgesCovered`,
`VramTypeOK` and the action properties `VramAdmittedFits` and `VramPriorityRespected`. The invariant says which
entries a ledger may hold for each stage of each claim (`EntriesCurrent`), that a held lease is recorded (`LeasesRecorded`),
that no entry carries an incarnation its pid has not had yet (`Incarnations`: otherwise a
dead runner's entry could come to life when the pid is reused), and that a poll which left a
claim queueing has reaped what earlier incarnations left (`QueuedFresh`).

`PledgesCovered` needs a second invariant over the first, `BytesInv`: what is allocated fits
the device (`HeldFits`), only claims at the right stage hold any of it, and a load that is up
holds at least what `ask` remembers (`UsedPhases`), and the part of each allocation that its
claim covers fits beside the pledges (`CoveredFits`). Use and pledges together are what is
covered plus what is overdrawn (`Accounts`), so the last gives `PledgesCovered`; it is the
form to prove, as every step but an admission leaves or lowers each claim's term. The step that matters is the admission: it compares the request with what
`FreeNow` and the pending entries leave, so the proof maps each claim already admitted to its
pending entry, injectively, and shows that their sum is part of what was subtracted
(`PledgesPending`, `AdmissionFits`); that is also `AdmittedFits`. An allocation turns at most
its own pledge into covered use, a crash or a release takes terms away; the lemmas on sums
carry each of these.

**`PrefixStoreProofs`**, for any slots, names, prompts, contexts, tokens, fold sizes, budget,
entry limit and minimum length: `PrefixBytesExact`, `PrefixRowsAreTokens`,
`PrefixReadersSafe`, `PrefixTypeOK` and the action property `PrefixRefusedOnlyIfGone`. The
proof has three layers.

* The store: `GoodStore` (every entry has a place of its own, `born` is a rank, the bytes are
  the sum of the sizes, rows are those of the tokens, what was unlinked has a reader) is
  preserved by `Drop`, `Touch` and `Insert`, and so by expiry, trim, publication and pin;
  `Carries` says in addition that no entry that is read is lost, and no pinned entry of a
  name other than those the step takes. It composes, so that a critical section made of
  several operations needs no argument of its own.
* The slot: `RewindFits` and `ReuseFits` show that what `engine_rewind` or
  `engine_prefix_reuse` keeps are the rows of a beginning of the prompt, short of its last
  token, with a turn mark inside it, and that a context of sufficient length that the prompt
  extends is kept as a whole unless a fold is in the way.
* The steps: `PrefixInv` adds to `GoodStore` the budget, `SlotRows` (rows are the history,
  the mark a prefix), `FedRight` (between fork and feed a slot holds a beginning of its own
  prompt: without it a stopped feed would glue rows of two prompts together),
  `ContextHeld` (a waiting request's context is pinned or the request is in `gone`) and
  `Reading` (an export's entry is there). `SlotStepInv` reduces each action to what it does to
  one slot and to the store.

None of the four properties is inductive: `BytesExact` is lost if two entries could share a
place, `ReadersSafe` if a re-ranked entry lost its readers, `RowsAreTokens` if a feed started
from another prompt's rows, and `RefusedOnlyIfGone` speaks of a check made any number of steps
earlier.

**`SetLemmas`** supports the two. The library's induction theorems take a predicate, which the
provers cannot instantiate; here induction is over a *set* of good subsets, and proved from
well-foundedness: a non-empty set of finite sets has one minimal under inclusion. From it
follow that the recursion behind `SumFunctionOnSet` has a solution (`IterExists`), that any
element may be taken out of a sum first (`SumApart`), and how a sum changes with its set and
its function (`SumUnion`, `SumImage`, `SumExcept`, `SumMono`, `SumNat`), and facts on `Max`,
`Min` and images. These are about the community modules' definitions, not about assumptions.

**`ServerProofs`, admission**, for any slots, connections, ring size, limit and number of retries:
`AdmissionTypes`, `AdmissionQueueOrder`, `AdmissionOneEnding`. `RingInv` describes the ring
entry by entry relative to the histories `pushed` and `popped`, which is inductive where
the concatenation `QueueOrder` states is not; `PlacesInv` says that every connection is in
exactly one place: with the accept thread, in the ring, in the shutdown's hands, with one
slot, or closed.

**`ServerProofs`, stopping**, for any number of runs and any counter width that exceeds it by more
than three, and any starting value of the counter: `DrainExitForOwnRun`, `DrainTypes`.
`NumbersApart` bounds how far the counter has moved since each run was armed, so that a
number cannot come round to a second run; `OwnerOfRun` and `OwnerOfExit` say who may own
`drain_owner`, seen from the serving thread and from the watchdogs.

**`TPoolProofs`**, for every number of threads, any callers and job sizes, and a generation
counter of any width: `TPoolTypes`, `TPoolJobWhole`, `TPoolFreedUnused`. `DoneCounted`
relates `n_done` to the workers that have left the present generation, and says that
between two runs all of them have; that is what makes reuse of the job and of the wrapping
generation safe (two values suffice). Lemmas on `tp_slice` show that the slices are
disjoint and cover the job, whatever it leaves for the last thread.

**Model-checked only**: the liveness properties, the fairness part of `ImplementsQueue`
among them; fairness and `ENABLED` are out of the prover's reach. Every invariant and
every safety action property of the passing runs is also a theorem.

## 5. Findings

One disagreement between the code and its comments has a run:

* **`ShutdownCancelsLoad`** (registry.c:283, server.c:3983). The shutdown's one store
  `load_cancel = 1` is undone by a worker that was past reading its request and only
  then begins its load. Its `--wait-for-vram` wait is then not cancelled, and pins
  the join until the wait ends or the drain watchdog exits the process.

Met while modelling, and in the models as the code has them, without a run of their own:

* model.c:1274: the second claim of a load refused with nobody to blame may itself be
  refused, when another runner was admitted in between. The result is ignored: the load
  runs without a lease and is sized by the driver's figure.
* model.c:5812: `gpu_init` is not told the claim either. A load that claimed the spare part
  of its need may find more free than that and take it, and with it what another load was
  pledged but has not allocated; that one then splits its layers or falls back to the CPU.
  `PledgesCovered` bounds such a shortfall by the overdraft, and `AdmittedFits` says that no
  later admission overlooks it; that pledges are kept does not hold and is not claimed.
* model.c:1293: the committed figure is the fall of the device's free memory across
  `gpu_init`, which other processes' loads and frees change too. Only reports are
  affected; admission does not read committed bytes.
* server.c:3123: `server_request_stop` sets the flag, then the time. A caller held up in
  between, in a process that serves again, stamps the next run.
* engine.c:887: publishing drops the entries a prompt extends as the scan meets them, and
  may then find that the prompt diverges from another entry and store nothing.
* engine.c:792: a context of 2 to 15 tokens can be created but is never forked; requests
  that name it on another slot get 409.
* engine.c:791: on a recurrent model the longest match is chosen before it is asked whether
  it matches whole; an entry that agrees further, but in part, hides a pinned context.
  `RefusedOnlyIfGone` excepts this case and the one before: apart from them a context is
  refused only when it is really gone.

## 6. Not modelled

Arithmetic (kernels, sampling, quantisation, cryptography) and pure text
transformations (tokenizer, templates, schema automata, API translation) have no
interleaving to explore and large data; they are left to the repository's tests.
GPU backends appear by their effect, and their kernels, generated PTX for the most part,
are most of the repository's lines. `sched_start`'s and `tpool_create`'s failure paths leave
no scheduler and no pool. The response store is one mutex around one table, with copies
in and out. `prefix_cache_save` and `prefix_cache_load` are called by a test only. Offline
commands, the tray and downloads are I/O.

## 7. Plan

1. *Engine*: speculative and lookup drafting, whose rejected rows are given back, and the
   context shift.
2. *Sessions, KV snapshots, provenance's digest job.*
3. *Stream output*: stop strings across token boundaries, against a reference definition.
4. *Proofs*: that `Scheduler` with the tickets of `Turnstile` implements `Scheduler` with the
   queue, which now rests on `TurnstileRefinesQueue` for the turn alone.
