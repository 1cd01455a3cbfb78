------------------------------ MODULE Scheduler ------------------------------
(***************************************************************************)
(* The continuous-batching scheduler (scheduler.c) with the slot threads   *)
(* that use it (completion.c: prefill and generation of one request) and   *)
(* the server's shutdown order (server.c: queue_shutdown, join the slots,  *)
(* sched_shutdown).  Every slot thread prefills its own prompt under the   *)
(* device turn and then hands one token at a time to the single decode     *)
(* thread, which cuts microbatches out of whoever is waiting.              *)
(*                                                                         *)
(* The mutex SCH.mu makes each critical section one action.  Tokens and    *)
(* logits are abstracted to the cache row they belong to: logits[s] is the *)
(* <<slot, row>> whose forward filled the buffer slot s samples from.      *)
(***************************************************************************)
EXTENDS Integers, Sequences, FiniteSets

CONSTANTS Slots,       \* the slot threads
          Decoder,     \* the decode thread
          BatchMax,    \* model_batch_max()
          NCtx         \* cache rows per sequence (n_ctx)

ASSUME SchedulerAssumption ==
    /\ IsFiniteSet(Slots)
    /\ Decoder \notin Slots
    /\ BatchMax \in Nat \ {0}
    /\ NCtx \in Nat \ {0}

VARIABLES
    \* the device turn, as TurnQueue promises it and Turnstile implements it
    queue, held,
    device_turn,  \* a GPU model, so forwards take turns; fixed by sched_start
    \* SCH, guarded by SCH.mu
    state,     \* seq[s].state; READY splits by seq[s].ok into READY and FAILED
    logits,    \* <<slot, row>> in the buffer slot s samples from next
    n_wait, n_active,
    \* the decode thread
    dpc,       \* where decode_worker stands
    work,      \* its microbatch: work[s] is the row it forwards for s
    \* the slot threads and their engines
    pc,        \* where the slot's request stands
    epos,      \* e->pos
    pending,   \* e->pending_pos, -1 when no row is outstanding
    kv,        \* leading cache rows of s that this sequence's forwards filled
    \* the server
    phase

\* No logits: the pointer is NULL.
NoRow == <<Decoder, -1>>

Threads == Slots \cup {Decoder}

Dev == INSTANCE TurnQueue

devVars    == <<queue, held, device_turn>>
seqVars    == <<state, n_wait, n_active>>
engineVars == <<epos, pending, kv>>
vars == <<devVars, seqVars, logits, dpc, work, pc, engineVars, phase>>

Batch == DOMAIN work

stop == phase = "stopping"

\* For mutation: a forgotten signal.
SignalNobody == UNCHANGED dpc

\* A signal on dec_cv reaches the decode thread only while it waits there.
SignalDecoder == dpc' = IF dpc = "asleep" THEN "awake" ELSE dpc

\* The device span a thread is about to enter or leave, when turns are taken.
WithTurn(step) ==
    /\ IF device_turn THEN step ELSE UNCHANGED <<queue, held>>
    /\ UNCHANGED device_turn

DevTake(t)  == WithTurn(Dev!Ask(t))
DevEnter(t) == WithTurn(Dev!Own(t))
DevGive(t)  == WithTurn(Dev!GiveBack(t))

Init ==
    /\ Dev!Init
    /\ device_turn \in BOOLEAN
    /\ state = [s \in Slots |-> "OFF"]
    /\ logits = [s \in Slots |-> NoRow]
    /\ n_wait = 0 /\ n_active = 0
    /\ dpc = "awake"
    /\ work = [s \in {} |-> 0]
    /\ pc = [s \in Slots |-> "idle"]
    /\ epos = [s \in Slots |-> 0]
    /\ pending = [s \in Slots |-> -1]
    /\ kv = [s \in Slots |-> 0]
    /\ phase = "serving"

-----------------------------------------------------------------------------
(* Prefill: completion.c under the device turn, engine_feed's chunks.        *)

\* A request arrives at the slot and asks for the device.
PrefillBegin(s) ==
    /\ phase = "serving"
    /\ pc[s] = "idle"
    /\ DevTake(s)
    /\ pc' = [pc EXCEPT ![s] = "prefillWait"]
    /\ UNCHANGED <<seqVars, logits, dpc, work, engineVars, phase>>

\* The turn arrives; the cache is rewound or forked to `keep` rows.
PrefillEnter(s) ==
    /\ pc[s] = "prefillWait"
    /\ DevEnter(s)
    /\ \E keep \in 0 .. NCtx - 1 :
         /\ epos' = [epos EXCEPT ![s] = keep]
         /\ kv' = [kv EXCEPT ![s] = keep]
    /\ pc' = [pc EXCEPT ![s] = "prefill"]
    /\ UNCHANGED <<seqVars, logits, dpc, work, pending, phase>>

\* The forward of one chunk: its row exists once it returns.
Fed(s) ==
    /\ epos[s] < NCtx
    /\ kv' = [kv EXCEPT ![s] = epos[s] + 1]
    /\ epos' = [epos EXCEPT ![s] = epos[s] + 1]

\* A chunk that is not the last: the turn goes back between chunks ...
ChunkYield(s) ==
    /\ pc[s] = "prefill"
    /\ Fed(s)
    /\ DevGive(s)
    /\ pc' = [pc EXCEPT ![s] = "yielded"]
    /\ UNCHANGED <<seqVars, logits, dpc, work, pending, phase>>

\* ... and this prefill queues for it again, behind whoever came meanwhile.
ChunkRetake(s) ==
    /\ pc[s] = "yielded"
    /\ DevTake(s)
    /\ pc' = [pc EXCEPT ![s] = "chunkWait"]
    /\ UNCHANGED <<seqVars, logits, dpc, work, engineVars, phase>>

ChunkEnter(s) ==
    /\ pc[s] = "chunkWait"
    /\ DevEnter(s)
    /\ pc' = [pc EXCEPT ![s] = "prefill"]
    /\ UNCHANGED <<seqVars, logits, dpc, work, engineVars, phase>>

\* The last chunk leaves the prompt's last logits and returns the turn.
ChunkLast(s) ==
    /\ pc[s] = "prefill"
    /\ Fed(s)
    /\ logits' = [logits EXCEPT ![s] = <<s, epos[s]>>]
    /\ DevGive(s)
    /\ pc' = [pc EXCEPT ![s] = "prefilled"]
    /\ UNCHANGED <<seqVars, dpc, work, pending, phase>>

\* For mutation: an early exit that keeps the turn.
PrefillFailKeepsTurn(s) ==
    /\ pc[s] = "prefill"
    /\ pc' = [pc EXCEPT ![s] = "idle"]
    /\ UNCHANGED <<devVars, seqVars, logits, dpc, work, engineVars, phase>>

\* A prefill that ends without logits (stopped after a chunk by the client, a
\* deadline or the shutdown; out of context; a named context that could not
\* be forked): the turn goes back before the error is written.
PrefillFail(s) ==
    /\ pc[s] = "prefill"
    /\ Fed(s) \/ UNCHANGED <<epos, kv>>
    /\ DevGive(s)
    /\ pc' = [pc EXCEPT ![s] = "idle"]
    /\ UNCHANGED <<seqVars, logits, dpc, work, pending, phase>>

-----------------------------------------------------------------------------
(* Generation: sched_generate, with sched_forward and the engine's step.     *)

\* A speculative request generates alone and keeps the turn throughout.
SoloTake(s) ==
    /\ pc[s] = "prefilled"
    /\ DevTake(s)
    /\ pc' = [pc EXCEPT ![s] = "soloWait"]
    /\ UNCHANGED <<seqVars, logits, dpc, work, engineVars, phase>>

SoloEnter(s) ==
    /\ pc[s] = "soloWait"
    /\ DevEnter(s)
    /\ pc' = [pc EXCEPT ![s] = "solo"]
    /\ UNCHANGED <<seqVars, logits, dpc, work, engineVars, phase>>

SoloGenerate(s) ==
    /\ pc[s] = "solo"
    /\ \E len \in epos[s] .. NCtx :
         /\ epos' = [epos EXCEPT ![s] = len]
         /\ kv' = [kv EXCEPT ![s] = len]
    /\ DevGive(s)
    /\ logits' = [logits EXCEPT ![s] = NoRow]
    /\ pc' = [pc EXCEPT ![s] = "idle"]
    /\ UNCHANGED <<seqVars, dpc, work, pending, phase>>

\* A request joins the batching: n_active counts it from here.
GenerateBegin(s) ==
    /\ pc[s] = "prefilled"
    /\ n_active' = n_active + 1
    /\ pending' = [pending EXCEPT ![s] = -1]
    /\ pc' = [pc EXCEPT ![s] = "step"]
    /\ UNCHANGED <<devVars, state, n_wait, logits, dpc, work,
                   epos, kv, phase>>

\* engine_gen_step chooses a token and hands out its row, which no forward
\* has filled yet.
StepMore(s) ==
    /\ pc[s] = "step"
    /\ epos[s] < NCtx
    /\ pending' = [pending EXCEPT ![s] = epos[s]]
    /\ epos' = [epos EXCEPT ![s] = epos[s] + 1]
    /\ pc' = [pc EXCEPT ![s] = "forward"]
    /\ UNCHANGED <<devVars, seqVars, logits, dpc, work, kv, phase>>

\* engine_gen_step ends the generation: a stop token, the budget, the
\* context, a client gone.
StepDone(s) ==
    /\ pc[s] = "step"
    /\ pending' = [pending EXCEPT ![s] = -1]
    /\ pc' = [pc EXCEPT ![s] = "end"]
    /\ UNCHANGED <<devVars, seqVars, logits, dpc, work, epos, kv, phase>>

\* The deadline or the stop callback cuts in before the forward is queued.
StepBreak(s) ==
    /\ pc[s] = "forward"
    /\ pc' = [pc EXCEPT ![s] = "end"]
    /\ UNCHANGED <<devVars, seqVars, logits, dpc, work, engineVars, phase>>

\* sched_forward queues the row (q->pos is pending[s] until it returns) and
\* wakes the decode thread.
Submit(s) ==
    /\ pc[s] = "forward"
    /\ state' = [state EXCEPT ![s] = "WAIT"]
    /\ n_wait' = n_wait + 1
    /\ SignalDecoder
    /\ pc' = [pc EXCEPT ![s] = "await"]
    /\ UNCHANGED <<devVars, n_active, logits, work, engineVars, phase>>

\* For mutation: a drop that forgets the pending count, a drop of a sequence
\* already in flight.
DropUncounted(s) ==
    /\ pc[s] = "await"
    /\ state[s] = "WAIT"
    /\ state' = [state EXCEPT ![s] = "OFF"]
    /\ pc' = [pc EXCEPT ![s] = "end"]
    /\ UNCHANGED <<devVars, n_wait, n_active, logits, dpc, work,
                   engineVars, phase>>

DropInflight(s) ==
    /\ pc[s] = "await"
    /\ state[s] \in {"WAIT", "INFLIGHT"}
    /\ state' = [state EXCEPT ![s] = "OFF"]
    /\ n_wait' = n_wait - (IF state[s] = "WAIT" THEN 1 ELSE 0)
    /\ pc' = [pc EXCEPT ![s] = "end"]
    /\ UNCHANGED <<devVars, n_active, logits, dpc, work,
                   engineVars, phase>>

\* The deadline passes while the row is only queued: it is dropped.
Drop(s) ==
    /\ pc[s] = "await"
    /\ state[s] = "WAIT"
    /\ state' = [state EXCEPT ![s] = "OFF"]
    /\ n_wait' = n_wait - 1
    /\ pc' = [pc EXCEPT ![s] = "end"]
    /\ UNCHANGED <<devVars, n_active, logits, dpc, work,
                   engineVars, phase>>

\* sched_forward returns: the logits of a good step, or NULL.
Return(s) ==
    /\ pc[s] = "await"
    /\ state[s] \in {"READY", "FAILED"} \/ stop
    /\ n_wait' = n_wait - (IF state[s] = "WAIT" THEN 1 ELSE 0)
    /\ state' = [state EXCEPT ![s] = "OFF"]
    /\ pc' = [pc EXCEPT ![s] =
                 IF state[s] = "READY" THEN "step" ELSE "end"]
    /\ UNCHANGED <<devVars, n_active, logits, dpc, work,
                   engineVars, phase>>

\* For mutation: an end that keeps the abandoned row.
GenerateEndKeepsRow(s) ==
    /\ pc[s] = "end"
    /\ pending' = [pending EXCEPT ![s] = -1]
    /\ n_active' = n_active - 1
    /\ SignalDecoder
    /\ logits' = [logits EXCEPT ![s] = NoRow]
    /\ pc' = [pc EXCEPT ![s] = "idle"]
    /\ UNCHANGED <<devVars, state, n_wait, work,
                   epos, kv, phase>>

\* engine_gen_end gives back a row whose forward never happened; one fewer
\* sequence for the decode thread to wait for.
GenerateEnd(s) ==
    /\ pc[s] = "end"
    /\ epos' = [epos EXCEPT ![s] = IF pending[s] >= 0 THEN pending[s] ELSE @]
    /\ pending' = [pending EXCEPT ![s] = -1]
    /\ n_active' = n_active - 1
    /\ SignalDecoder
    /\ logits' = [logits EXCEPT ![s] = NoRow]
    /\ pc' = [pc EXCEPT ![s] = "idle"]
    /\ UNCHANGED <<devVars, state, n_wait, work,
                   kv, phase>>

-----------------------------------------------------------------------------
(* The decode thread: decode_worker.                                         *)

Waiting == {s \in Slots : state[s] = "WAIT"}

\* How many sequences the gather loop holds out for.
Want == IF n_active < BatchMax THEN n_active ELSE BatchMax

\* Nothing to do: wait on dec_cv.
DecoderSleep ==
    /\ dpc = "awake" /\ ~stop /\ n_wait = 0
    /\ dpc' = "asleep"
    /\ UNCHANGED <<devVars, seqVars, logits, work, pc, engineVars, phase>>

\* Some active sequence is not here yet: the timed wait for it.
DecoderGather ==
    /\ dpc = "awake" /\ ~stop /\ n_wait > 0 /\ n_wait < Want
    /\ dpc' = "gather"
    /\ UNCHANGED <<devVars, seqVars, logits, work, pc, engineVars, phase>>

\* Cut the microbatch: everyone waiting, after the gather loop let go (full,
\* stopped, or timed out after SCHED_GATHER_S, which may happen at any time).
Cut ==
    /\ \/ dpc = "awake" /\ ~stop /\ n_wait > 0 /\ n_wait >= Want
       \/ dpc = "gather"
    /\ work' = [s \in Waiting |-> pending[s]]
    /\ state' = [s \in Slots |-> IF s \in Waiting THEN "INFLIGHT" ELSE state[s]]
    /\ n_wait' = n_wait - Cardinality(Waiting)
    /\ dpc' = IF Waiting = {} THEN "awake" ELSE "wantTurn"
    /\ UNCHANGED <<devVars, n_active, logits, pc, engineVars, phase>>

DecoderTake ==
    /\ dpc = "wantTurn"
    /\ DevTake(Decoder)
    /\ dpc' = "turnWait"
    /\ UNCHANGED <<seqVars, logits, work, pc, engineVars, phase>>

\* For mutation: a decode that does not wait for its turn.
DecoderBarge ==
    /\ dpc = "turnWait"
    /\ dpc' = "decode"
    /\ UNCHANGED <<devVars, seqVars, logits, work, pc,
                   engineVars, phase>>

DecoderEnter ==
    /\ dpc = "turnWait"
    /\ DevEnter(Decoder)
    /\ dpc' = "decode"
    /\ UNCHANGED <<seqVars, logits, work, pc, engineVars, phase>>

\* model_batch_decode forwards every sequence of the microbatch and each row
\* of logits is copied home before the turn goes back.
DecodeOk ==
    /\ dpc = "decode"
    /\ kv' = [s \in Slots |-> IF s \in Batch THEN work[s] + 1 ELSE kv[s]]
    /\ logits' = [s \in Slots |-> IF s \in Batch THEN <<s, work[s]>> ELSE logits[s]]
    /\ DevGive(Decoder)
    /\ dpc' = "decoded"
    /\ UNCHANGED <<seqVars, work, pc, epos, pending, phase>>

\* The microbatch fails: some of its sequences were forwarded, none of the
\* logits is copied.
DecodeFail ==
    /\ dpc = "decode"
    /\ \E done \in SUBSET Batch :
         kv' = [s \in Slots |-> IF s \in done THEN work[s] + 1 ELSE kv[s]]
    /\ DevGive(Decoder)
    /\ dpc' = "failed"
    /\ UNCHANGED <<seqVars, logits, work, pc, epos, pending, phase>>

\* For mutation: a failed microbatch reported as a good one.
PublishAlwaysOk ==
    /\ dpc \in {"decoded", "failed"}
    /\ state' = [s \in Slots |-> IF s \in Batch THEN "READY" ELSE state[s]]
    /\ work' = [s \in {} |-> 0]
    /\ dpc' = "awake"
    /\ UNCHANGED <<devVars, n_wait, n_active, logits, pc, engineVars, phase>>

\* Back under SCH.mu: the microbatch's slots get their result.
Publish ==
    /\ dpc \in {"decoded", "failed"}
    /\ state' = [s \in Slots |-> IF s \notin Batch THEN state[s]
                                 ELSE IF dpc = "decoded" THEN "READY" ELSE "FAILED"]
    /\ work' = [s \in {} |-> 0]
    /\ dpc' = "awake"
    /\ UNCHANGED <<devVars, n_wait, n_active, logits, pc, engineVars, phase>>

DecoderExit ==
    /\ dpc = "awake" /\ stop
    /\ dpc' = "exited"
    /\ UNCHANGED <<devVars, seqVars, logits, work, pc, engineVars, phase>>

-----------------------------------------------------------------------------
(* Shutdown: server_run and sched_shutdown.                                  *)

\* queue_shutdown: no slot starts another request.
Drain ==
    /\ phase = "serving"
    /\ phase' = "draining"
    /\ UNCHANGED <<devVars, seqVars, logits, dpc, work, pc, engineVars>>

\* q_pop tells an idle slot thread to leave.
SlotExit(s) ==
    /\ phase = "draining"
    /\ pc[s] = "idle"
    /\ pc' = [pc EXCEPT ![s] = "exited"]
    /\ UNCHANGED <<devVars, seqVars, logits, dpc, work, engineVars, phase>>

\* For mutation: a stop that wakes nobody.
ShutdownSilent ==
    /\ phase = "draining"
    /\ \A s \in Slots : pc[s] = "exited"
    /\ phase' = "stopping"
    /\ UNCHANGED <<devVars, seqVars, logits, dpc, work, pc, engineVars>>

\* sched_shutdown, once every slot thread has been joined.
Shutdown ==
    /\ phase = "draining"
    /\ \A s \in Slots : pc[s] = "exited"
    /\ phase' = "stopping"
    /\ SignalDecoder
    /\ UNCHANGED <<devVars, seqVars, logits, work, pc, engineVars>>

\* The decode thread is joined and the scheduler's memory released.
Free ==
    /\ phase = "stopping"
    /\ dpc = "exited"
    /\ phase' = "freed"
    /\ UNCHANGED <<devVars, seqVars, logits, dpc, work, pc, engineVars>>

\* The server has shut down; nothing more happens.
Terminated == phase = "freed" /\ UNCHANGED vars

-----------------------------------------------------------------------------
\* What a slot thread does on its own once it has a request.
SlotStep(s) ==
    \/ PrefillEnter(s) \/ ChunkRetake(s) \/ ChunkEnter(s)
    \/ ChunkYield(s) \/ ChunkLast(s) \/ PrefillFail(s)
    \/ SoloTake(s) \/ SoloEnter(s) \/ SoloGenerate(s)
    \/ GenerateBegin(s) \/ StepMore(s) \/ StepDone(s) \/ StepBreak(s)
    \/ Submit(s) \/ Return(s) \/ GenerateEnd(s) \/ SlotExit(s)

DecoderStep ==
    \/ DecoderSleep \/ DecoderGather \/ Cut \/ DecoderTake \/ DecoderEnter
    \/ DecodeOk \/ DecodeFail \/ Publish \/ DecoderExit

Next ==
    \/ \E s \in Slots : PrefillBegin(s) \/ SlotStep(s) \/ Drop(s)
    \/ DecoderStep
    \/ Drain \/ Shutdown \/ Free \/ Terminated

\* A started request keeps running (a chunk, a step and a device span are
\* finite work), the decode thread keeps running (its gather wait is timed),
\* and the main thread carries a drain through.  Nothing makes a request
\* arrive, a deadline pass or the server drain.
Fairness ==
    /\ \A s \in Slots : WF_vars(SlotStep(s))
    /\ WF_vars(DecoderStep)
    /\ WF_vars(Shutdown \/ Free)

SafeSpec == Init /\ [][Next]_vars

Spec == SafeSpec /\ Fairness

-----------------------------------------------------------------------------
TypeOK ==
    /\ queue \in Seq(Threads)
    /\ held \in BOOLEAN /\ device_turn \in BOOLEAN
    /\ state \in [Slots -> {"OFF", "WAIT", "INFLIGHT", "READY", "FAILED"}]
    /\ logits \in [Slots -> Threads \X (-1 .. NCtx - 1)]
    /\ n_wait \in 0 .. Cardinality(Slots)
    /\ n_active \in 0 .. Cardinality(Slots)
    /\ dpc \in {"asleep", "awake", "gather", "wantTurn", "turnWait", "decode",
                "decoded", "failed", "exited"}
    /\ Batch \subseteq Slots /\ \A s \in Batch : work[s] \in 0 .. NCtx - 1
    /\ pc \in [Slots -> {"idle", "prefillWait", "prefill", "yielded", "chunkWait",
                         "prefilled", "soloWait", "solo", "step", "forward",
                         "await", "end", "exited"}]
    /\ epos \in [Slots -> 0 .. NCtx]
    /\ pending \in [Slots -> -1 .. NCtx - 1]
    /\ kv \in [Slots -> 0 .. NCtx]
    /\ phase \in {"serving", "draining", "stopping", "freed"}

Generating == {s \in Slots : pc[s] \in {"step", "forward", "await", "end"}}

\* n_wait and n_active, which the gather loop trusts, are never off by one,
\* whatever mix of drops, failures and returns happened (the comment on the
\* SCH.stop exit of sched_forward: a leaked count is a hole).
CountsMatch ==
    /\ n_wait = Cardinality(Waiting)
    /\ n_active = Cardinality(Generating)

\* Whatever sequence the decode thread works on has its slot thread parked in
\* sched_forward on the very row it forwards, the one right after the filled
\* ones: nobody abandons a buffer the decode thread is about to write.
InflightOwned ==
    \A s \in Batch :
        /\ state[s] = "INFLIGHT" /\ pc[s] = "await"
        /\ work[s] = pending[s]
        /\ dpc \in {"wantTurn", "turnWait", "decode"} => work[s] = kv[s]

\* A slot samples from the logits of its own newest row, never from another
\* sequence's or from an older step's, and that row is in its cache.
OwnRow ==
    \A s \in Slots :
        pc[s] = "step" => logits[s] = <<s, epos[s] - 1>> /\ kv[s] = epos[s]

\* No position is claimed that no forward filled, except the one row a step
\* has handed out: after a deadline, a failed microbatch or a stop the row is
\* given back before the next request rewinds to e->pos.
RowsFilled ==
    \A s \in Slots :
        epos[s] <= kv[s] + (IF pc[s] \in {"forward", "await", "end"} THEN 1 ELSE 0)

\* On a GPU, no forward of any kind overlaps another: a microbatch captures a
\* CUDA graph that any other launch would break.
OnDevice ==
    {s \in Slots : pc[s] \in {"prefill", "solo"}} \cup
    (IF dpc = "decode" THEN {Decoder} ELSE {})

DeviceExclusive == device_turn => \A t, u \in OnDevice : t = u

\* A slot waiting for logits always gets an answer: no wakeup of the decode
\* thread is lost and no count keeps it gathering forever.
ForwardReturns ==
    \A s \in Slots : pc[s] = "await" ~> pc[s] # "await"

\* A prefill or a solo generation that queued for the device gets it, however
\* many others keep coming back for the next chunk or the next microbatch.
TurnComes ==
    \A s \in Slots :
        pc[s] \in {"prefillWait", "chunkWait", "soloWait"} ~> pc[s] \in {"prefill", "solo"}

\* A drain completes: every request ends, the threads leave, memory is freed.
DrainCompletes == phase = "draining" ~> phase = "freed"
=============================================================================
