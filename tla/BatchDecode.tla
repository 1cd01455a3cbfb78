----------------------------- MODULE BatchDecode -----------------------------
(***************************************************************************)
(* model_batch_decode (model.c): one decode step for n ready sequences,    *)
(* run as consecutive microbatches of at most BatchMax.  The backend keeps *)
(* ONE buffer of logit rows that every microbatch overwrites, so the rows  *)
(* of all but the last are copied to `hold`; a microbatch the backend      *)
(* cannot run falls back to one forward per sequence, whose logits stay in *)
(* the sequence's own model.  Row i stands for the logits of the i-th      *)
(* ready sequence of this step; buffers keep their content between steps.  *)
(***************************************************************************)
EXTENDS Integers

CONSTANTS MaxReady,  \* sequences the batch was created for (b->n)
          BatchMax   \* MODEL_BATCH_MAX

ASSUME BatchDecodeAssumption ==
    /\ MaxReady \in Nat \ {0}
    /\ BatchMax \in Nat \ {0}

VARIABLES pc,    \* "idle", "decoding", or how the call returned
          n,     \* ready sequences of this step
          done,  \* sequences whose microbatch has run
          out,   \* out[i]: which buffer the caller will read row i from
          lane,  \* lane[i]: where in the backend's buffer, when it is that one
          buf,   \* buf[l]: the row in lane l of the backend's buffer
          hold,  \* hold[i]: the row in b->hold at i
          held,  \* "null" until b->hold is allocated, then "set"
          own    \* own[i]: the row in sequence i's own logits buffer

vars == <<pc, n, done, out, lane, buf, hold, held, own>>

Rows  == 1 .. MaxReady
Stale == 0   \* logits of an earlier step, or none

TakeRows == IF n - done > BatchMax THEN BatchMax ELSE n - done

\* The sequences of the current microbatch.
Micro == {i \in Rows : done < i /\ i <= done + TakeRows}

\* What the caller finds in row i when it copies it home.
Read(i) == IF out[i] = "buf" THEN buf[lane[i]]
           ELSE IF out[i] = "hold" THEN hold[i]
           ELSE IF out[i] = "own" THEN own[i]
           ELSE Stale

BatchInit ==
    /\ pc = "idle" /\ n = 0 /\ done = 0
    /\ out = [i \in Rows |-> "unset"]
    /\ lane = [i \in Rows |-> 1]
    /\ buf = [l \in 1 .. BatchMax |-> Stale]
    /\ hold = [i \in Rows |-> Stale]
    /\ held = "null"
    /\ own = [i \in Rows |-> Stale]

\* The decode thread starts a step; what the buffers hold is stale now.
Start ==
    /\ pc \in {"idle", "ok", "failed"}
    /\ n' \in Rows
    /\ done' = 0
    /\ out' = [i \in Rows |-> "unset"]
    /\ buf' = [l \in 1 .. BatchMax |-> Stale]
    /\ hold' = [i \in Rows |-> Stale]
    /\ own' = [i \in Rows |-> Stale]
    /\ pc' = "decoding"
    /\ UNCHANGED <<lane, held>>

\* The backend runs the microbatch into its one buffer.
Launch ==
    /\ lane' = [i \in Rows |-> IF i \in Micro THEN i - done ELSE lane[i]]
    /\ buf' = [l \in 1 .. BatchMax |-> IF l <= TakeRows THEN done + l ELSE buf[l]]

\* For mutation: every row is left in the backend's buffer, as it was until
\* 2026-10-03.
MicroHeldUnsaved ==
    /\ pc = "decoding" /\ done + TakeRows < n
    /\ Launch
    /\ out' = [i \in Rows |-> IF i \in Micro THEN "buf" ELSE out[i]]
    /\ done' = done + TakeRows
    /\ UNCHANGED <<pc, n, hold, held, own>>

\* A microbatch that is not the last: its rows are copied out of the way.
MicroHeld ==
    /\ pc = "decoding" /\ done + TakeRows < n
    /\ Launch
    /\ hold' = [i \in Rows |-> IF i \in Micro THEN buf'[lane'[i]] ELSE hold[i]]
    /\ held' = "set"
    /\ out' = [i \in Rows |-> IF i \in Micro THEN "hold" ELSE out[i]]
    /\ done' = done + TakeRows
    /\ UNCHANGED <<pc, n, own>>

\* `hold` cannot be allocated: the step fails.
HoldFail ==
    /\ pc = "decoding" /\ done + TakeRows < n
    /\ held = "null"
    /\ Launch
    /\ out' = [i \in Rows |-> IF i \in Micro THEN "buf" ELSE out[i]]
    /\ pc' = "failed"
    /\ UNCHANGED <<n, done, hold, held, own>>

\* The last microbatch stays in the backend's buffer.
MicroLast ==
    /\ pc = "decoding" /\ done < n /\ done + TakeRows = n
    /\ Launch
    /\ out' = [i \in Rows |-> IF i \in Micro THEN "buf" ELSE out[i]]
    /\ done' = n
    /\ UNCHANGED <<pc, n, hold, held, own>>

\* No backend, or it failed: one forward per sequence of the microbatch.
Fallback ==
    /\ pc = "decoding" /\ done < n
    /\ own' = [i \in Rows |-> IF i \in Micro THEN i ELSE own[i]]
    /\ out' = [i \in Rows |-> IF i \in Micro THEN "own" ELSE out[i]]
    /\ done' = done + TakeRows
    /\ UNCHANGED <<pc, n, lane, buf, hold, held>>

\* The forward of sequence f of the fallback fails: so does the whole step,
\* with the rows before f computed and the ones from f on left unset.
FallbackFail ==
    /\ pc = "decoding" /\ done < n
    /\ \E f \in Micro :
        /\ own' = [i \in Rows |-> IF i \in Micro /\ i < f THEN i ELSE own[i]]
        /\ out' = [i \in Rows |-> IF i \in Micro /\ i < f THEN "own" ELSE out[i]]
    /\ pc' = "failed"
    /\ UNCHANGED <<n, done, lane, buf, hold, held>>

Return ==
    /\ pc = "decoding" /\ done = n
    /\ pc' = "ok"
    /\ UNCHANGED <<n, done, out, lane, buf, hold, held, own>>

BatchNext ==
    \/ Start \/ MicroHeld \/ HoldFail \/ MicroLast \/ Fallback \/ FallbackFail
    \/ Return

BatchSpec == BatchInit /\ [][BatchNext]_vars

-----------------------------------------------------------------------------
BatchTypeOK ==
    /\ pc \in {"idle", "decoding", "ok", "failed"}
    /\ n \in 0 .. MaxReady
    /\ done \in 0 .. n
    /\ out \in [Rows -> {"unset", "buf", "hold", "own"}]
    /\ lane \in [Rows -> 1 .. BatchMax]
    /\ buf \in [1 .. BatchMax -> 0 .. MaxReady]
    /\ hold \in [Rows -> 0 .. MaxReady]
    /\ held \in {"null", "set"}
    /\ own \in [Rows -> 0 .. MaxReady]

\* Every sequence whose microbatch has run can still be read back as its own
\* row, whatever ran after it: with more ready sequences than BatchMax no
\* request samples from another one's distribution.
RowsHome == pc # "failed" => \A i \in Rows : i <= done => Read(i) = i

\* Rows left in the backend's buffer are those of the step's last microbatch.
BufferIsLast ==
    pc # "failed" /\ (\E i \in Rows : i <= done /\ out[i] = "buf") => done = n

BatchIInv == BatchTypeOK /\ RowsHome /\ BufferIsLast
=============================================================================
