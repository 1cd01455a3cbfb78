--------------------------- MODULE SchedulerProofs ---------------------------
(***************************************************************************)
(* The batching scheduler for every number of slots, every batch limit and *)
(* every context length: the counts the gather loop trusts are exact, no   *)
(* buffer is abandoned under the decode thread, every slot samples from    *)
(* its own newest row, and forwards never overlap on the device.           *)
(***************************************************************************)
EXTENDS Scheduler, FiniteSetTheorems, TLAPS

DevTypes ==
    queue \in Seq(Threads) /\ held \in BOOLEAN /\ device_turn \in BOOLEAN

SlotTypes ==
    /\ state \in [Slots -> {"OFF", "WAIT", "INFLIGHT", "READY", "FAILED"}]
    /\ logits \in [Slots -> Threads \X (-1 .. NCtx - 1)]
    /\ dpc \in {"asleep", "awake", "gather", "wantTurn", "turnWait", "decode",
                "decoded", "failed", "exited"}
    /\ Batch \subseteq Slots /\ \A s \in Batch : work[s] \in 0 .. NCtx - 1
    /\ pc \in [Slots -> {"idle", "prefillWait", "prefill", "yielded", "chunkWait",
                         "prefilled", "soloWait", "solo", "step", "forward",
                         "await", "end", "exited"}]
    /\ epos \in [Slots -> 0 .. NCtx]
    /\ pending \in [Slots -> -1 .. NCtx - 1]
    /\ kv \in [Slots -> 0 .. NCtx]
    /\ phase \in {"serving", "draining", "stopping", "freed"}

\* Whoever is on the device owns the turn: its guard in dev_give never fails.
DevInv == device_turn => \A t \in OnDevice : held /\ queue # <<>> /\ Head(queue) = t

\* A sequence takes part in the batching exactly while its slot thread is parked
\* in sched_forward, and is in the microbatch exactly while in flight.
Parked(s) ==
    /\ state[s] = "OFF" <=> pc[s] # "await"
    /\ s \in Batch <=> state[s] = "INFLIGHT"

\* How far the cache of s is filled, and whose logits it will sample from, at
\* every point of its request.  A row handed out is pending until its forward.
RowAt(s) ==
    /\ pc[s] \in {"idle", "prefillWait", "exited"} => epos[s] <= kv[s]
    /\ pc[s] \in {"prefill", "yielded", "chunkWait", "prefilled", "soloWait", "solo", "step"}
          => epos[s] = kv[s]
    /\ pc[s] \in {"prefilled", "step"} => logits[s] = <<s, epos[s] - 1>>
    /\ pc[s] = "forward" => pending[s] = epos[s] - 1 /\ pending[s] >= 0 /\ kv[s] = pending[s]
    /\ pc[s] = "await" => /\ pending[s] = epos[s] - 1 /\ pending[s] >= 0
                          /\ kv[s] \in {epos[s] - 1, epos[s]}
    /\ pc[s] = "end" => \/ pending[s] = -1 /\ epos[s] = kv[s]
                        \/ /\ pending[s] = epos[s] - 1 /\ pending[s] >= 0
                           /\ kv[s] \in {epos[s] - 1, epos[s]}

\* The same while the row is with the decode thread.
RowQueued(s) ==
    /\ state[s] = "WAIT" => kv[s] = pending[s]
    /\ state[s] = "READY" => kv[s] = epos[s] /\ logits[s] = <<s, epos[s] - 1>>
    /\ s \in Batch =>
          /\ work[s] = pending[s]
          /\ dpc \in {"wantTurn", "turnWait", "decode"} => kv[s] = pending[s]
          /\ dpc = "decoded" => kv[s] = epos[s] /\ logits[s] = <<s, epos[s] - 1>>

SlotInv == \A s \in Slots : Parked(s) /\ RowAt(s) /\ RowQueued(s)

\* The microbatch is empty while the decode thread waits for work; the scheduler
\* stops after every slot thread has left.
OrderInv ==
    /\ dpc \in {"asleep", "awake", "gather", "exited"} => Batch = {}
    /\ phase \in {"stopping", "freed"} => \A s \in Slots : pc[s] = "exited"

IInv == DevTypes /\ SlotTypes /\ DevInv /\ SlotInv /\ OrderInv /\ CountsMatch

-----------------------------------------------------------------------------
(* The device turn.                                                          *)

\* Asking for the turn keeps whoever is on the device at the head.
LEMMA TakeKeeps ==
    ASSUME DevTypes, DevInv, NEW t \in Threads, DevTake(t), OnDevice' \subseteq OnDevice
    PROVE  DevTypes' /\ DevInv'
<1>1. CASE device_turn
  <2>1. queue' = Append(queue, t) /\ held' = held /\ device_turn' = device_turn
    BY <1>1 DEF DevTake, WithTurn, Dev!Ask
  <2>2. queue' \in Seq(Threads) /\ queue' # <<>>
    BY <2>1 DEF DevTypes
  <2>3. queue # <<>> => Head(queue') = Head(queue)
    BY <2>1 DEF DevTypes
  <2>4. DevTypes'
    BY <2>1, <2>2 DEF DevTypes
  <2> QED
    BY <1>1, <2>1, <2>2, <2>3, <2>4 DEF DevInv
<1>2. CASE ~device_turn
  <2>1. queue' = queue /\ held' = held /\ device_turn' = device_turn
    BY <1>2 DEF DevTake, WithTurn
  <2> QED
    BY <1>2, <2>1 DEF DevTypes, DevInv
<1> QED
  BY <1>1, <1>2

\* The turn is entered only when nobody is on the device.
LEMMA EnterKeeps ==
    ASSUME DevTypes, DevInv, NEW t, DevEnter(t), OnDevice' \subseteq OnDevice \cup {t}
    PROVE  DevTypes' /\ DevInv'
<1>1. CASE device_turn
  <2>1. /\ queue # <<>> /\ Head(queue) = t /\ ~held
        /\ held' = TRUE /\ queue' = queue /\ device_turn' = device_turn
    BY <1>1 DEF DevEnter, WithTurn, Dev!Own
  <2>2. DevTypes'
    BY <2>1 DEF DevTypes
  <2>3. OnDevice' \subseteq {t}
    BY <1>1, <2>1 DEF DevInv
  <2> QED
    BY <2>1, <2>2, <2>3 DEF DevInv
<1>2. CASE ~device_turn
  <2>1. queue' = queue /\ held' = held /\ device_turn' = device_turn
    BY <1>2 DEF DevEnter, WithTurn
  <2> QED
    BY <1>2, <2>1 DEF DevTypes, DevInv
<1> QED
  BY <1>1, <1>2

\* Whoever gives the turn back was alone on the device.
LEMMA GiveKeeps ==
    ASSUME DevTypes, DevInv, NEW t, DevGive(t), OnDevice' \subseteq OnDevice \ {t}
    PROVE  DevTypes' /\ DevInv'
<1>1. CASE device_turn
  <2>1. /\ queue # <<>> /\ Head(queue) = t
        /\ held' = FALSE /\ queue' = Tail(queue) /\ device_turn' = device_turn
    BY <1>1 DEF DevGive, WithTurn, Dev!GiveBack
  <2>2. queue' \in Seq(Threads)
    BY <2>1 DEF DevTypes
  <2>3. DevTypes'
    BY <2>1, <2>2 DEF DevTypes
  <2>4. OnDevice' = {}
    BY <1>1, <2>1 DEF DevInv
  <2> QED
    BY <2>3, <2>4 DEF DevInv
<1>2. CASE ~device_turn
  <2>1. queue' = queue /\ held' = held /\ device_turn' = device_turn
    BY <1>2 DEF DevGive, WithTurn
  <2> QED
    BY <1>2, <2>1 DEF DevTypes, DevInv
<1> QED
  BY <1>1, <1>2

\* Steps that leave the turn alone.
LEMMA TurnKept ==
    ASSUME DevTypes, DevInv, UNCHANGED devVars, OnDevice' \subseteq OnDevice
    PROVE  DevTypes' /\ DevInv'
BY DEF DevTypes, DevInv, devVars

-----------------------------------------------------------------------------
(* The counts.                                                               *)

LEMMA SlotSets ==
    /\ IsFiniteSet(Slots) /\ Cardinality(Slots) \in Nat
    /\ IsFiniteSet(Waiting) /\ Cardinality(Waiting) \in 0 .. Cardinality(Slots)
    /\ IsFiniteSet(Generating) /\ Cardinality(Generating) \in 0 .. Cardinality(Slots)
<1>1. Waiting \subseteq Slots /\ Generating \subseteq Slots
  BY DEF Waiting, Generating
<1>2. IsFiniteSet(Slots)
  BY SchedulerAssumption
<1>3. /\ IsFiniteSet(Waiting) /\ Cardinality(Waiting) <= Cardinality(Slots)
      /\ IsFiniteSet(Generating) /\ Cardinality(Generating) <= Cardinality(Slots)
  BY <1>1, <1>2, FS_Subset
<1> QED
  BY <1>2, <1>3, FS_CardinalityType

\* Steps after which the same slots wait and generate keep the counts ...
LEMMA CountsKept ==
    ASSUME CountsMatch, n_wait' = n_wait, n_active' = n_active,
           Waiting' = Waiting, Generating' = Generating
    PROVE  CountsMatch'
BY DEF CountsMatch

\* ... one more slot adds one, one fewer takes one away.
LEMMA OneMore ==
    ASSUME NEW S, IsFiniteSet(S), NEW s, s \notin S
    PROVE  Cardinality(S \cup {s}) = Cardinality(S) + 1
BY FS_AddElement

LEMMA OneFewer ==
    ASSUME NEW S, IsFiniteSet(S), NEW s \in S
    PROVE  Cardinality(S \ {s}) = Cardinality(S) - 1
BY FS_RemoveElement

-----------------------------------------------------------------------------
LEMMA InitInv == Init => IInv
<1> SUFFICES ASSUME Init PROVE IInv
  OBVIOUS
<1> USE SchedulerAssumption DEF Init
<1>1. Batch = {}
  BY DEF Batch
<1>2. DevTypes
  <2>1. queue \in Seq(Threads)
    BY DEF Dev!Init
  <2>2. held \in BOOLEAN /\ device_turn \in BOOLEAN
    BY DEF Dev!Init
  <2> QED
    BY <2>1, <2>2 DEF DevTypes
<1>3. NoRow \in Threads \X (-1 .. NCtx - 1)
  BY DEF NoRow, Threads
<1>4. SlotTypes
  BY <1>1, <1>3 DEF SlotTypes
<1>5. OnDevice = {} /\ Waiting = {} /\ Generating = {}
  BY DEF OnDevice, Waiting, Generating
<1>6. DevInv /\ CountsMatch
  BY <1>5, FS_EmptySet DEF DevInv, CountsMatch
<1>7. SlotInv
  BY <1>1 DEF SlotInv, Parked, RowAt, RowQueued
<1>8. OrderInv
  BY <1>1 DEF OrderInv
<1> QED
  BY <1>2, <1>4, <1>6, <1>7, <1>8 DEF IInv
-----------------------------------------------------------------------------
\* The prefill, chunk by chunk, and a generation alone: rows are filled as they are
\* claimed.
LEMMA PrefillInv ==
    ASSUME IInv, NEW s \in Slots,
           PrefillBegin(s) \/ PrefillEnter(s) \/ ChunkYield(s) \/ ChunkRetake(s) \/
              ChunkEnter(s) \/ ChunkLast(s) \/ PrefillFail(s) \/ SoloTake(s) \/
              SoloEnter(s) \/ SoloGenerate(s)
    PROVE  IInv'
<1> USE SchedulerAssumption DEF IInv
<1>1. CASE PrefillBegin(s)
  <2>1. OnDevice' \subseteq OnDevice
    BY <1>1 DEF PrefillBegin, OnDevice, SlotTypes
  <2>2. DevTypes' /\ DevInv'
    BY <1>1, <2>1, TakeKeeps DEF PrefillBegin, Threads
  <2>3. Waiting' = Waiting /\ Generating' = Generating
    BY <1>1 DEF PrefillBegin, Waiting, Generating, seqVars, SlotTypes, SlotInv, Parked,
       OrderInv
  <2>4. CountsMatch'
    BY <1>1, <2>3, CountsKept DEF PrefillBegin, seqVars
  <2>5. SlotTypes'
    BY <1>1 DEF PrefillBegin, SlotTypes, seqVars, engineVars, Batch, Threads
  <2>6. SlotInv'
    BY SMTT(30), <1>1 DEF PrefillBegin, SlotTypes, SlotInv, Parked, RowAt, RowQueued, OrderInv,
       seqVars, engineVars, Batch
  <2>7. OrderInv'
    BY <1>1 DEF PrefillBegin, SlotTypes, OrderInv, SlotInv, Parked, Batch
  <2> QED
    BY <2>2, <2>4, <2>5, <2>6, <2>7
<1>2. CASE PrefillEnter(s)
  <2>1. OnDevice' \subseteq OnDevice \cup {s}
    BY <1>2 DEF PrefillEnter, OnDevice, SlotTypes
  <2>2. DevTypes' /\ DevInv'
    BY <1>2, <2>1, EnterKeeps DEF PrefillEnter, Threads
  <2>3. Waiting' = Waiting /\ Generating' = Generating
    BY <1>2 DEF PrefillEnter, Waiting, Generating, seqVars, SlotTypes, SlotInv, Parked,
       OrderInv
  <2>4. CountsMatch'
    BY <1>2, <2>3, CountsKept DEF PrefillEnter, seqVars
  <2>5. SlotTypes'
    BY <1>2 DEF PrefillEnter, SlotTypes, seqVars, engineVars, Batch, Threads
  <2>6. SlotInv'
    BY SMTT(30), <1>2 DEF PrefillEnter, SlotTypes, SlotInv, Parked, RowAt, RowQueued, OrderInv,
       seqVars, engineVars, Batch
  <2>7. OrderInv'
    BY <1>2 DEF PrefillEnter, SlotTypes, OrderInv, SlotInv, Parked, Batch
  <2> QED
    BY <2>2, <2>4, <2>5, <2>6, <2>7
<1>3. CASE ChunkYield(s)
  <2>1. OnDevice' \subseteq OnDevice \ {s}
    BY <1>3 DEF ChunkYield, Fed, OnDevice, SlotTypes
  <2>2. DevTypes' /\ DevInv'
    BY <1>3, <2>1, GiveKeeps DEF ChunkYield, Fed, Threads
  <2>3. Waiting' = Waiting /\ Generating' = Generating
    BY <1>3 DEF ChunkYield, Fed, Waiting, Generating, seqVars, SlotTypes, SlotInv,
       Parked, OrderInv
  <2>4. CountsMatch'
    BY <1>3, <2>3, CountsKept DEF ChunkYield, Fed, seqVars
  <2>5. SlotTypes'
    BY <1>3 DEF ChunkYield, Fed, SlotTypes, seqVars, engineVars, Batch, Threads
  <2>6. SlotInv'
    BY SMTT(30), <1>3 DEF ChunkYield, Fed, SlotTypes, SlotInv, Parked, RowAt, RowQueued, OrderInv,
       seqVars, engineVars, Batch
  <2>7. OrderInv'
    BY <1>3 DEF ChunkYield, Fed, SlotTypes, OrderInv, SlotInv, Parked, Batch
  <2> QED
    BY <2>2, <2>4, <2>5, <2>6, <2>7
<1>4. CASE ChunkRetake(s)
  <2>1. OnDevice' \subseteq OnDevice
    BY <1>4 DEF ChunkRetake, OnDevice, SlotTypes
  <2>2. DevTypes' /\ DevInv'
    BY <1>4, <2>1, TakeKeeps DEF ChunkRetake, Threads
  <2>3. Waiting' = Waiting /\ Generating' = Generating
    BY <1>4 DEF ChunkRetake, Waiting, Generating, seqVars, SlotTypes, SlotInv, Parked,
       OrderInv
  <2>4. CountsMatch'
    BY <1>4, <2>3, CountsKept DEF ChunkRetake, seqVars
  <2>5. SlotTypes'
    BY <1>4 DEF ChunkRetake, SlotTypes, seqVars, engineVars, Batch, Threads
  <2>6. SlotInv'
    BY SMTT(30), <1>4 DEF ChunkRetake, SlotTypes, SlotInv, Parked, RowAt, RowQueued, OrderInv,
       seqVars, engineVars, Batch
  <2>7. OrderInv'
    BY <1>4 DEF ChunkRetake, SlotTypes, OrderInv, SlotInv, Parked, Batch
  <2> QED
    BY <2>2, <2>4, <2>5, <2>6, <2>7
<1>5. CASE ChunkEnter(s)
  <2>1. OnDevice' \subseteq OnDevice \cup {s}
    BY <1>5 DEF ChunkEnter, OnDevice, SlotTypes
  <2>2. DevTypes' /\ DevInv'
    BY <1>5, <2>1, EnterKeeps DEF ChunkEnter, Threads
  <2>3. Waiting' = Waiting /\ Generating' = Generating
    BY <1>5 DEF ChunkEnter, Waiting, Generating, seqVars, SlotTypes, SlotInv, Parked,
       OrderInv
  <2>4. CountsMatch'
    BY <1>5, <2>3, CountsKept DEF ChunkEnter, seqVars
  <2>5. SlotTypes'
    BY <1>5 DEF ChunkEnter, SlotTypes, seqVars, engineVars, Batch, Threads
  <2>6. SlotInv'
    BY SMTT(30), <1>5 DEF ChunkEnter, SlotTypes, SlotInv, Parked, RowAt, RowQueued, OrderInv,
       seqVars, engineVars, Batch
  <2>7. OrderInv'
    BY <1>5 DEF ChunkEnter, SlotTypes, OrderInv, SlotInv, Parked, Batch
  <2> QED
    BY <2>2, <2>4, <2>5, <2>6, <2>7
<1>6. CASE ChunkLast(s)
  <2>1. OnDevice' \subseteq OnDevice \ {s}
    BY <1>6 DEF ChunkLast, Fed, OnDevice, SlotTypes
  <2>2. DevTypes' /\ DevInv'
    BY <1>6, <2>1, GiveKeeps DEF ChunkLast, Fed, Threads
  <2>3. Waiting' = Waiting /\ Generating' = Generating
    BY <1>6 DEF ChunkLast, Fed, Waiting, Generating, seqVars, SlotTypes, SlotInv,
       Parked, OrderInv
  <2>4. CountsMatch'
    BY <1>6, <2>3, CountsKept DEF ChunkLast, Fed, seqVars
  <2>5. SlotTypes'
    BY <1>6 DEF ChunkLast, Fed, SlotTypes, seqVars, engineVars, Batch, Threads
  <2>6. SlotInv'
    BY SMTT(30), <1>6 DEF ChunkLast, Fed, SlotTypes, SlotInv, Parked, RowAt, RowQueued, OrderInv,
       seqVars, engineVars, Batch
  <2>7. OrderInv'
    BY <1>6 DEF ChunkLast, Fed, SlotTypes, OrderInv, SlotInv, Parked, Batch
  <2> QED
    BY <2>2, <2>4, <2>5, <2>6, <2>7
<1>7. CASE PrefillFail(s)
  <2>1. OnDevice' \subseteq OnDevice \ {s}
    BY <1>7 DEF PrefillFail, Fed, OnDevice, SlotTypes
  <2>2. DevTypes' /\ DevInv'
    BY <1>7, <2>1, GiveKeeps DEF PrefillFail, Fed, Threads
  <2>3. Waiting' = Waiting /\ Generating' = Generating
    BY <1>7 DEF PrefillFail, Fed, Waiting, Generating, seqVars, SlotTypes, SlotInv,
       Parked, OrderInv
  <2>4. CountsMatch'
    BY <1>7, <2>3, CountsKept DEF PrefillFail, Fed, seqVars
  <2>5. SlotTypes'
    BY <1>7 DEF PrefillFail, Fed, SlotTypes, seqVars, engineVars, Batch, Threads
  <2>6. SlotInv'
    BY SMTT(30), <1>7 DEF PrefillFail, Fed, SlotTypes, SlotInv, Parked, RowAt, RowQueued,
       OrderInv, seqVars, engineVars, Batch
  <2>7. OrderInv'
    BY <1>7 DEF PrefillFail, Fed, SlotTypes, OrderInv, SlotInv, Parked, Batch
  <2> QED
    BY <2>2, <2>4, <2>5, <2>6, <2>7
<1>8. CASE SoloTake(s)
  <2>1. OnDevice' \subseteq OnDevice
    BY <1>8 DEF SoloTake, OnDevice, SlotTypes
  <2>2. DevTypes' /\ DevInv'
    BY <1>8, <2>1, TakeKeeps DEF SoloTake, Threads
  <2>3. Waiting' = Waiting /\ Generating' = Generating
    BY <1>8 DEF SoloTake, Waiting, Generating, seqVars, SlotTypes, SlotInv, Parked,
       OrderInv
  <2>4. CountsMatch'
    BY <1>8, <2>3, CountsKept DEF SoloTake, seqVars
  <2>5. SlotTypes'
    BY <1>8 DEF SoloTake, SlotTypes, seqVars, engineVars, Batch, Threads
  <2>6. SlotInv'
    BY SMTT(30), <1>8 DEF SoloTake, SlotTypes, SlotInv, Parked, RowAt, RowQueued, OrderInv,
       seqVars, engineVars, Batch
  <2>7. OrderInv'
    BY <1>8 DEF SoloTake, SlotTypes, OrderInv, SlotInv, Parked, Batch
  <2> QED
    BY <2>2, <2>4, <2>5, <2>6, <2>7
<1>9. CASE SoloEnter(s)
  <2>1. OnDevice' \subseteq OnDevice \cup {s}
    BY <1>9 DEF SoloEnter, OnDevice, SlotTypes
  <2>2. DevTypes' /\ DevInv'
    BY <1>9, <2>1, EnterKeeps DEF SoloEnter, Threads
  <2>3. Waiting' = Waiting /\ Generating' = Generating
    BY <1>9 DEF SoloEnter, Waiting, Generating, seqVars, SlotTypes, SlotInv, Parked,
       OrderInv
  <2>4. CountsMatch'
    BY <1>9, <2>3, CountsKept DEF SoloEnter, seqVars
  <2>5. SlotTypes'
    BY <1>9 DEF SoloEnter, SlotTypes, seqVars, engineVars, Batch, Threads
  <2>6. SlotInv'
    BY SMTT(30), <1>9 DEF SoloEnter, SlotTypes, SlotInv, Parked, RowAt, RowQueued, OrderInv,
       seqVars, engineVars, Batch
  <2>7. OrderInv'
    BY <1>9 DEF SoloEnter, SlotTypes, OrderInv, SlotInv, Parked, Batch
  <2> QED
    BY <2>2, <2>4, <2>5, <2>6, <2>7
<1>10. CASE SoloGenerate(s)
  <2>1. OnDevice' \subseteq OnDevice \ {s}
    BY <1>10 DEF SoloGenerate, NoRow, OnDevice, SlotTypes
  <2>2. DevTypes' /\ DevInv'
    BY <1>10, <2>1, GiveKeeps DEF SoloGenerate, NoRow, Threads
  <2>3. Waiting' = Waiting /\ Generating' = Generating
    BY <1>10 DEF SoloGenerate, NoRow, Waiting, Generating, seqVars, SlotTypes, SlotInv,
       Parked, OrderInv
  <2>4. CountsMatch'
    BY <1>10, <2>3, CountsKept DEF SoloGenerate, NoRow, seqVars
  <2>5. SlotTypes'
    BY <1>10 DEF SoloGenerate, NoRow, SlotTypes, seqVars, engineVars, Batch, Threads
  <2>6. SlotInv'
    BY SMTT(30), <1>10 DEF SoloGenerate, NoRow, SlotTypes, SlotInv, Parked, RowAt, RowQueued,
       OrderInv, seqVars, engineVars, Batch
  <2>7. OrderInv'
    BY <1>10 DEF SoloGenerate, NoRow, SlotTypes, OrderInv, SlotInv, Parked, Batch
  <2> QED
    BY <2>2, <2>4, <2>5, <2>6, <2>7
<1> QED
  BY <1>1, <1>2, <1>3, <1>4, <1>5, <1>6, <1>7, <1>8, <1>9, <1>10
-----------------------------------------------------------------------------
\* A generation: each row is handed out, forwarded or given back.
LEMMA GenerateInv ==
    ASSUME IInv, NEW s \in Slots,
           GenerateBegin(s) \/ StepMore(s) \/ StepDone(s) \/ StepBreak(s) \/ Submit(s) \/
              Drop(s) \/ Return(s) \/ GenerateEnd(s) \/ SlotExit(s)
    PROVE  IInv'
<1> USE SchedulerAssumption DEF IInv
<1>1. CASE GenerateBegin(s)
  <2>1. OnDevice' \subseteq OnDevice
    BY <1>1 DEF GenerateBegin, OnDevice, SlotTypes
  <2>2. DevTypes' /\ DevInv'
    BY <1>1, <2>1, TurnKept DEF GenerateBegin, Threads, devVars, vars
  <2>3. Waiting' = Waiting /\ Generating' = Generating \cup {s}
    BY <1>1 DEF GenerateBegin, Waiting, Generating, seqVars, SlotTypes, SlotInv, Parked,
       OrderInv
  <2>4. CountsMatch'
    <3>1. s \notin Generating
      BY <1>1 DEF GenerateBegin, SlotTypes, SlotInv, Parked, Generating
    <3>2. Cardinality(Generating \cup {s}) = Cardinality(Generating) + 1
      BY <3>1, SlotSets, OneMore
    <3> QED
      BY <1>1, <2>3, <3>2 DEF GenerateBegin, CountsMatch
  <2>5. SlotTypes'
    BY <1>1 DEF GenerateBegin, SlotTypes, seqVars, engineVars, Batch, Threads
  <2>6. SlotInv'
    BY SMTT(30), <1>1 DEF GenerateBegin, SlotTypes, SlotInv, Parked, RowAt, RowQueued, OrderInv,
       seqVars, engineVars, Batch
  <2>7. OrderInv'
    BY <1>1 DEF GenerateBegin, SlotTypes, OrderInv, SlotInv, Parked, Batch
  <2> QED
    BY <2>2, <2>4, <2>5, <2>6, <2>7
<1>2. CASE StepMore(s)
  <2>1. OnDevice' \subseteq OnDevice
    BY <1>2 DEF StepMore, OnDevice, SlotTypes
  <2>2. DevTypes' /\ DevInv'
    BY <1>2, <2>1, TurnKept DEF StepMore, Threads, devVars, vars
  <2>3. Waiting' = Waiting /\ Generating' = Generating
    BY <1>2 DEF StepMore, Waiting, Generating, seqVars, SlotTypes, SlotInv, Parked,
       OrderInv
  <2>4. CountsMatch'
    BY <1>2, <2>3, CountsKept DEF StepMore, seqVars
  <2>5. SlotTypes'
    BY <1>2 DEF StepMore, SlotTypes, seqVars, engineVars, Batch, Threads
  <2>6. SlotInv'
    BY SMTT(30), <1>2 DEF StepMore, SlotTypes, SlotInv, Parked, RowAt, RowQueued, OrderInv,
       seqVars, engineVars, Batch
  <2>7. OrderInv'
    BY <1>2 DEF StepMore, SlotTypes, OrderInv, SlotInv, Parked, Batch
  <2> QED
    BY <2>2, <2>4, <2>5, <2>6, <2>7
<1>3. CASE StepDone(s)
  <2>1. OnDevice' \subseteq OnDevice
    BY <1>3 DEF StepDone, OnDevice, SlotTypes
  <2>2. DevTypes' /\ DevInv'
    BY <1>3, <2>1, TurnKept DEF StepDone, Threads, devVars, vars
  <2>3. Waiting' = Waiting /\ Generating' = Generating
    BY <1>3 DEF StepDone, Waiting, Generating, seqVars, SlotTypes, SlotInv, Parked,
       OrderInv
  <2>4. CountsMatch'
    BY <1>3, <2>3, CountsKept DEF StepDone, seqVars
  <2>5. SlotTypes'
    BY <1>3 DEF StepDone, SlotTypes, seqVars, engineVars, Batch, Threads
  <2>6. SlotInv'
    BY SMTT(30), <1>3 DEF StepDone, SlotTypes, SlotInv, Parked, RowAt, RowQueued, OrderInv,
       seqVars, engineVars, Batch
  <2>7. OrderInv'
    BY <1>3 DEF StepDone, SlotTypes, OrderInv, SlotInv, Parked, Batch
  <2> QED
    BY <2>2, <2>4, <2>5, <2>6, <2>7
<1>4. CASE StepBreak(s)
  <2>1. OnDevice' \subseteq OnDevice
    BY <1>4 DEF StepBreak, OnDevice, SlotTypes
  <2>2. DevTypes' /\ DevInv'
    BY <1>4, <2>1, TurnKept DEF StepBreak, Threads, devVars, vars
  <2>3. Waiting' = Waiting /\ Generating' = Generating
    BY <1>4 DEF StepBreak, Waiting, Generating, seqVars, SlotTypes, SlotInv, Parked,
       OrderInv
  <2>4. CountsMatch'
    BY <1>4, <2>3, CountsKept DEF StepBreak, seqVars
  <2>5. SlotTypes'
    BY <1>4 DEF StepBreak, SlotTypes, seqVars, engineVars, Batch, Threads
  <2>6. SlotInv'
    BY SMTT(30), <1>4 DEF StepBreak, SlotTypes, SlotInv, Parked, RowAt, RowQueued, OrderInv,
       seqVars, engineVars, Batch
  <2>7. OrderInv'
    BY <1>4 DEF StepBreak, SlotTypes, OrderInv, SlotInv, Parked, Batch
  <2> QED
    BY <2>2, <2>4, <2>5, <2>6, <2>7
<1>5. CASE Submit(s)
  <2>1. OnDevice' \subseteq OnDevice
    BY <1>5 DEF Submit, SignalDecoder, OnDevice, SlotTypes
  <2>2. DevTypes' /\ DevInv'
    BY <1>5, <2>1, TurnKept DEF Submit, SignalDecoder, Threads, devVars, vars
  <2>3. Waiting' = Waiting \cup {s} /\ Generating' = Generating
    BY <1>5 DEF Submit, SignalDecoder, Waiting, Generating, seqVars, SlotTypes, SlotInv,
       Parked, OrderInv
  <2>4. CountsMatch'
    <3>1. s \notin Waiting
      BY <1>5 DEF Submit, SlotTypes, SlotInv, Parked, Waiting
    <3>2. Cardinality(Waiting \cup {s}) = Cardinality(Waiting) + 1
      BY <3>1, SlotSets, OneMore
    <3> QED
      BY <1>5, <2>3, <3>2 DEF Submit, CountsMatch
  <2>5. SlotTypes'
    BY <1>5 DEF Submit, SignalDecoder, SlotTypes, seqVars, engineVars, Batch, Threads
  <2>6. SlotInv'
    BY SMTT(30), <1>5 DEF Submit, SignalDecoder, SlotTypes, SlotInv, Parked, RowAt, RowQueued,
       OrderInv, seqVars, engineVars, Batch
  <2>7. OrderInv'
    BY <1>5 DEF Submit, SignalDecoder, SlotTypes, OrderInv, SlotInv, Parked, Batch
  <2> QED
    BY <2>2, <2>4, <2>5, <2>6, <2>7
<1>6. CASE Drop(s)
  <2>1. OnDevice' \subseteq OnDevice
    BY <1>6 DEF Drop, OnDevice, SlotTypes
  <2>2. DevTypes' /\ DevInv'
    BY <1>6, <2>1, TurnKept DEF Drop, Threads, devVars, vars
  <2>3. Waiting' = Waiting \ {s} /\ Generating' = Generating
    BY <1>6 DEF Drop, Waiting, Generating, seqVars, SlotTypes, SlotInv, Parked, OrderInv
  <2>4. CountsMatch'
    <3>1. s \in Waiting
      BY <1>6 DEF Drop, SlotTypes, SlotInv, Parked, Waiting
    <3>2. Cardinality(Waiting \ {s}) = Cardinality(Waiting) - 1
      BY <3>1, SlotSets, OneFewer
    <3> QED
      BY <1>6, <2>3, <3>2 DEF Drop, CountsMatch
  <2>5. SlotTypes'
    BY <1>6 DEF Drop, SlotTypes, seqVars, engineVars, Batch, Threads
  <2>6. SlotInv'
    BY SMTT(30), <1>6 DEF Drop, SlotTypes, SlotInv, Parked, RowAt, RowQueued, OrderInv, seqVars,
       engineVars, Batch
  <2>7. OrderInv'
    BY <1>6 DEF Drop, SlotTypes, OrderInv, SlotInv, Parked, Batch
  <2> QED
    BY <2>2, <2>4, <2>5, <2>6, <2>7
<1>7. CASE Return(s)
  <2>1. OnDevice' \subseteq OnDevice
    BY <1>7 DEF Return, stop, OnDevice, SlotTypes
  <2>2. DevTypes' /\ DevInv'
    BY <1>7, <2>1, TurnKept DEF Return, stop, Threads, devVars, vars
  <2>3. Waiting' = Waiting /\ Generating' = Generating
    BY <1>7 DEF Return, stop, Waiting, Generating, seqVars, SlotTypes, SlotInv, Parked,
       OrderInv
  <2>4. CountsMatch'
    <3>1. state[s] # "WAIT" /\ n_wait \in Int
      BY <1>7, SlotSets DEF Return, stop, OrderInv, CountsMatch
    <3> QED
      BY <1>7, <2>3, <3>1, CountsKept DEF Return
  <2>5. SlotTypes'
    BY <1>7 DEF Return, stop, SlotTypes, seqVars, engineVars, Batch, Threads
  <2>6. SlotInv'
    BY SMTT(30), <1>7 DEF Return, stop, SlotTypes, SlotInv, Parked, RowAt, RowQueued, OrderInv,
       seqVars, engineVars, Batch
  <2>7. OrderInv'
    BY <1>7 DEF Return, stop, SlotTypes, OrderInv, SlotInv, Parked, Batch
  <2> QED
    BY <2>2, <2>4, <2>5, <2>6, <2>7
<1>8. CASE GenerateEnd(s)
  <2>1. OnDevice' \subseteq OnDevice
    BY <1>8 DEF GenerateEnd, SignalDecoder, NoRow, OnDevice, SlotTypes
  <2>2. DevTypes' /\ DevInv'
    BY <1>8, <2>1, TurnKept DEF GenerateEnd, SignalDecoder, NoRow, Threads, devVars,
       vars
  <2>3. Waiting' = Waiting /\ Generating' = Generating \ {s}
    BY <1>8 DEF GenerateEnd, SignalDecoder, NoRow, Waiting, Generating, seqVars,
       SlotTypes, SlotInv, Parked, OrderInv
  <2>4. CountsMatch'
    <3>1. s \in Generating
      BY <1>8 DEF GenerateEnd, SlotTypes, SlotInv, Parked, Generating
    <3>2. Cardinality(Generating \ {s}) = Cardinality(Generating) - 1
      BY <3>1, SlotSets, OneFewer
    <3> QED
      BY <1>8, <2>3, <3>2 DEF GenerateEnd, CountsMatch
  <2>5. SlotTypes'
    BY <1>8 DEF GenerateEnd, SignalDecoder, NoRow, SlotTypes, seqVars, engineVars,
       Batch, Threads
  <2>6. SlotInv'
    BY SMTT(30), <1>8 DEF GenerateEnd, SignalDecoder, NoRow, SlotTypes, SlotInv, Parked, RowAt,
       RowQueued, OrderInv, seqVars, engineVars, Batch
  <2>7. OrderInv'
    BY <1>8 DEF GenerateEnd, SignalDecoder, NoRow, SlotTypes, OrderInv, SlotInv, Parked,
       Batch
  <2> QED
    BY <2>2, <2>4, <2>5, <2>6, <2>7
<1>9. CASE SlotExit(s)
  <2>1. OnDevice' \subseteq OnDevice
    BY <1>9 DEF SlotExit, OnDevice, SlotTypes
  <2>2. DevTypes' /\ DevInv'
    BY <1>9, <2>1, TurnKept DEF SlotExit, Threads, devVars, vars
  <2>3. Waiting' = Waiting /\ Generating' = Generating
    BY <1>9 DEF SlotExit, Waiting, Generating, seqVars, SlotTypes, SlotInv, Parked,
       OrderInv
  <2>4. CountsMatch'
    BY <1>9, <2>3, CountsKept DEF SlotExit, seqVars
  <2>5. SlotTypes'
    BY <1>9 DEF SlotExit, SlotTypes, seqVars, engineVars, Batch, Threads
  <2>6. SlotInv'
    BY SMTT(30), <1>9 DEF SlotExit, SlotTypes, SlotInv, Parked, RowAt, RowQueued, OrderInv,
       seqVars, engineVars, Batch
  <2>7. OrderInv'
    BY <1>9 DEF SlotExit, SlotTypes, OrderInv, SlotInv, Parked, Batch
  <2> QED
    BY <2>2, <2>4, <2>5, <2>6, <2>7
<1> QED
  BY <1>1, <1>2, <1>3, <1>4, <1>5, <1>6, <1>7, <1>8, <1>9
-----------------------------------------------------------------------------
\* The decode thread cuts, forwards and publishes a microbatch.
LEMMA DecoderInv ==
    ASSUME IInv,
           DecoderSleep \/ DecoderGather \/ Cut \/ DecoderTake \/ DecoderEnter \/ DecodeOk
              \/ DecodeFail \/ Publish \/ DecoderExit
    PROVE  IInv'
<1> USE SchedulerAssumption DEF IInv
<1>1. CASE DecoderSleep
  <2>1. OnDevice' \subseteq OnDevice
    BY <1>1 DEF DecoderSleep, OnDevice, SlotTypes
  <2>2. DevTypes' /\ DevInv'
    BY <1>1, <2>1, TurnKept DEF DecoderSleep, Threads, devVars, vars
  <2>3. Waiting' = Waiting /\ Generating' = Generating
    BY <1>1 DEF DecoderSleep, Waiting, Generating, seqVars, SlotTypes, SlotInv, Parked,
       OrderInv
  <2>4. CountsMatch'
    BY <1>1, <2>3, CountsKept DEF DecoderSleep, seqVars
  <2>5. SlotTypes'
    BY <1>1 DEF DecoderSleep, SlotTypes, seqVars, engineVars, Batch, Threads
  <2>6. SlotInv'
    BY SMTT(30), <1>1 DEF DecoderSleep, SlotTypes, SlotInv, Parked, RowAt, RowQueued, OrderInv,
       seqVars, engineVars, Batch
  <2>7. OrderInv'
    BY <1>1 DEF DecoderSleep, SlotTypes, OrderInv, SlotInv, Parked, Batch
  <2> QED
    BY <2>2, <2>4, <2>5, <2>6, <2>7
<1>2. CASE DecoderGather
  <2>1. OnDevice' \subseteq OnDevice
    BY <1>2 DEF DecoderGather, OnDevice, SlotTypes
  <2>2. DevTypes' /\ DevInv'
    BY <1>2, <2>1, TurnKept DEF DecoderGather, Threads, devVars, vars
  <2>3. Waiting' = Waiting /\ Generating' = Generating
    BY <1>2 DEF DecoderGather, Waiting, Generating, seqVars, SlotTypes, SlotInv, Parked,
       OrderInv
  <2>4. CountsMatch'
    BY <1>2, <2>3, CountsKept DEF DecoderGather, seqVars
  <2>5. SlotTypes'
    BY <1>2 DEF DecoderGather, SlotTypes, seqVars, engineVars, Batch, Threads
  <2>6. SlotInv'
    BY SMTT(30), <1>2 DEF DecoderGather, SlotTypes, SlotInv, Parked, RowAt, RowQueued, OrderInv,
       seqVars, engineVars, Batch
  <2>7. OrderInv'
    BY <1>2 DEF DecoderGather, SlotTypes, OrderInv, SlotInv, Parked, Batch
  <2> QED
    BY <2>2, <2>4, <2>5, <2>6, <2>7
<1>3. CASE Cut
  <2>1. OnDevice' \subseteq OnDevice
    BY <1>3 DEF Cut, OnDevice, SlotTypes
  <2>2. DevTypes' /\ DevInv'
    BY <1>3, <2>1, TurnKept DEF Cut, Threads, devVars, vars
  <2>3. Waiting' = {} /\ Generating' = Generating
    BY <1>3 DEF Cut, Waiting, Generating, seqVars, SlotTypes, SlotInv, Parked, OrderInv
  <2>4. CountsMatch'
    BY <1>3, <2>3, SlotSets, FS_EmptySet DEF Cut, CountsMatch
  <2>5. Batch = {} /\ Batch' = Waiting /\ \A s \in Batch' : work'[s] = pending[s]
    BY <1>3 DEF Cut, OrderInv, Batch
  <2>6. SlotTypes'
    <3>1. \A s \in Batch' : work'[s] \in 0 .. NCtx - 1
      BY <2>5 DEF SlotTypes, SlotInv, Parked, RowAt, Waiting
    <3>2. state' \in [Slots -> {"OFF", "WAIT", "INFLIGHT", "READY", "FAILED"}]
      BY <1>3 DEF Cut, SlotTypes
    <3>3. Batch' \subseteq Slots
      BY <2>5 DEF Waiting
    <3> QED
      BY <1>3, <3>1, <3>2, <3>3 DEF Cut, SlotTypes, engineVars
  <2>7. ASSUME NEW s \in Slots PROVE (Parked(s) /\ RowAt(s) /\ RowQueued(s))'
    <3>1. Parked(s)'
      BY <1>3, <2>5 DEF Cut, SlotTypes, SlotInv, Parked, Waiting
    <3>2. RowAt(s)'
      BY <1>3 DEF Cut, SlotInv, RowAt, engineVars
    <3>3. RowQueued(s)'
      BY <1>3, <2>5 DEF Cut, SlotTypes, SlotInv, Parked, RowAt, RowQueued, Waiting, engineVars
    <3> QED
      BY <3>1, <3>2, <3>3
  <2>8. OrderInv'
    BY <1>3, <2>5 DEF Cut, SlotTypes, OrderInv
  <2> QED
    BY <2>2, <2>4, <2>6, <2>7, <2>8 DEF SlotInv
<1>4. CASE DecoderTake
  <2>1. OnDevice' \subseteq OnDevice
    BY <1>4 DEF DecoderTake, OnDevice, SlotTypes
  <2>2. DevTypes' /\ DevInv'
    BY <1>4, <2>1, TakeKeeps DEF DecoderTake, Threads
  <2>3. Waiting' = Waiting /\ Generating' = Generating
    BY <1>4 DEF DecoderTake, Waiting, Generating, seqVars, SlotTypes, SlotInv, Parked,
       OrderInv
  <2>4. CountsMatch'
    BY <1>4, <2>3, CountsKept DEF DecoderTake, seqVars
  <2>5. SlotTypes'
    BY <1>4 DEF DecoderTake, SlotTypes, seqVars, engineVars, Batch, Threads
  <2>6. SlotInv'
    BY SMTT(30), <1>4 DEF DecoderTake, SlotTypes, SlotInv, Parked, RowAt, RowQueued, OrderInv,
       seqVars, engineVars, Batch
  <2>7. OrderInv'
    BY <1>4 DEF DecoderTake, SlotTypes, OrderInv, SlotInv, Parked, Batch
  <2> QED
    BY <2>2, <2>4, <2>5, <2>6, <2>7
<1>5. CASE DecoderEnter
  <2>1. OnDevice' \subseteq OnDevice \cup {Decoder}
    BY <1>5 DEF DecoderEnter, OnDevice, SlotTypes
  <2>2. DevTypes' /\ DevInv'
    BY <1>5, <2>1, EnterKeeps DEF DecoderEnter, Threads
  <2>3. Waiting' = Waiting /\ Generating' = Generating
    BY <1>5 DEF DecoderEnter, Waiting, Generating, seqVars, SlotTypes, SlotInv, Parked,
       OrderInv
  <2>4. CountsMatch'
    BY <1>5, <2>3, CountsKept DEF DecoderEnter, seqVars
  <2>5. SlotTypes'
    BY <1>5 DEF DecoderEnter, SlotTypes, seqVars, engineVars, Batch, Threads
  <2>6. SlotInv'
    BY SMTT(30), <1>5 DEF DecoderEnter, SlotTypes, SlotInv, Parked, RowAt, RowQueued, OrderInv,
       seqVars, engineVars, Batch
  <2>7. OrderInv'
    BY <1>5 DEF DecoderEnter, SlotTypes, OrderInv, SlotInv, Parked, Batch
  <2> QED
    BY <2>2, <2>4, <2>5, <2>6, <2>7
<1>6. CASE DecodeOk
  <2>1. OnDevice' \subseteq OnDevice \ {Decoder}
    BY <1>6 DEF DecodeOk, OnDevice, SlotTypes
  <2>2. DevTypes' /\ DevInv'
    BY <1>6, <2>1, GiveKeeps DEF DecodeOk, Threads
  <2>3. Waiting' = Waiting /\ Generating' = Generating
    BY <1>6 DEF DecodeOk, Waiting, Generating, seqVars, SlotTypes, SlotInv, Parked,
       OrderInv
  <2>4. CountsMatch'
    BY <1>6, <2>3, CountsKept DEF DecodeOk, seqVars
  <2>5. SlotTypes'
    BY <1>6 DEF DecodeOk, SlotTypes, seqVars, engineVars, Batch, Threads
  <2>6. SlotInv'
    BY SMTT(30), <1>6 DEF DecodeOk, SlotTypes, SlotInv, Parked, RowAt, RowQueued, OrderInv,
       seqVars, engineVars, Batch
  <2>7. OrderInv'
    BY <1>6 DEF DecodeOk, SlotTypes, OrderInv, SlotInv, Parked, Batch
  <2> QED
    BY <2>2, <2>4, <2>5, <2>6, <2>7
<1>7. CASE DecodeFail
  <2>1. OnDevice' \subseteq OnDevice \ {Decoder}
    BY <1>7 DEF DecodeFail, OnDevice, SlotTypes
  <2>2. DevTypes' /\ DevInv'
    BY <1>7, <2>1, GiveKeeps DEF DecodeFail, Threads
  <2>3. Waiting' = Waiting /\ Generating' = Generating
    BY <1>7 DEF DecodeFail, Waiting, Generating, seqVars, SlotTypes, SlotInv, Parked,
       OrderInv
  <2>4. CountsMatch'
    BY <1>7, <2>3, CountsKept DEF DecodeFail, seqVars
  <2>5. SlotTypes'
    BY <1>7 DEF DecodeFail, SlotTypes, seqVars, engineVars, Batch, Threads
  <2>6. SlotInv'
    BY SMTT(30), <1>7 DEF DecodeFail, SlotTypes, SlotInv, Parked, RowAt, RowQueued, OrderInv,
       seqVars, engineVars, Batch
  <2>7. OrderInv'
    BY <1>7 DEF DecodeFail, SlotTypes, OrderInv, SlotInv, Parked, Batch
  <2> QED
    BY <2>2, <2>4, <2>5, <2>6, <2>7
<1>8. CASE Publish
  <2>1. OnDevice' \subseteq OnDevice
    BY <1>8 DEF Publish, OnDevice, SlotTypes
  <2>2. DevTypes' /\ DevInv'
    BY <1>8, <2>1, TurnKept DEF Publish, Threads, devVars, vars
  <2>3. Waiting' = Waiting /\ Generating' = Generating
    BY <1>8 DEF Publish, Waiting, Generating, seqVars, SlotTypes, SlotInv, Parked,
       OrderInv
  <2>4. CountsMatch'
    BY <1>8, <2>3, CountsKept DEF Publish, seqVars
  <2>5. SlotTypes'
    BY <1>8 DEF Publish, SlotTypes, seqVars, engineVars, Batch, Threads
  <2>6. SlotInv'
    BY SMTT(30), <1>8 DEF Publish, SlotTypes, SlotInv, Parked, RowAt, RowQueued, OrderInv,
       seqVars, engineVars, Batch
  <2>7. OrderInv'
    BY <1>8 DEF Publish, SlotTypes, OrderInv, SlotInv, Parked, Batch
  <2> QED
    BY <2>2, <2>4, <2>5, <2>6, <2>7
<1>9. CASE DecoderExit
  <2>1. OnDevice' \subseteq OnDevice
    BY <1>9 DEF DecoderExit, stop, OnDevice, SlotTypes
  <2>2. DevTypes' /\ DevInv'
    BY <1>9, <2>1, TurnKept DEF DecoderExit, stop, Threads, devVars, vars
  <2>3. Waiting' = Waiting /\ Generating' = Generating
    BY <1>9 DEF DecoderExit, stop, Waiting, Generating, seqVars, SlotTypes, SlotInv,
       Parked, OrderInv
  <2>4. CountsMatch'
    BY <1>9, <2>3, CountsKept DEF DecoderExit, stop, seqVars
  <2>5. SlotTypes'
    BY <1>9 DEF DecoderExit, stop, SlotTypes, seqVars, engineVars, Batch, Threads
  <2>6. SlotInv'
    BY SMTT(30), <1>9 DEF DecoderExit, stop, SlotTypes, SlotInv, Parked, RowAt, RowQueued,
       OrderInv, seqVars, engineVars, Batch
  <2>7. OrderInv'
    BY <1>9 DEF DecoderExit, stop, SlotTypes, OrderInv, SlotInv, Parked, Batch
  <2> QED
    BY <2>2, <2>4, <2>5, <2>6, <2>7
<1> QED
  BY <1>1, <1>2, <1>3, <1>4, <1>5, <1>6, <1>7, <1>8, <1>9
-----------------------------------------------------------------------------
\* The drain and the shutdown.
LEMMA ShutdownInv ==
    ASSUME IInv,
           Drain \/ Shutdown \/ Free
    PROVE  IInv'
<1> USE SchedulerAssumption DEF IInv
<1>1. CASE Drain
  <2>1. OnDevice' \subseteq OnDevice
    BY <1>1 DEF Drain, OnDevice, SlotTypes
  <2>2. DevTypes' /\ DevInv'
    BY <1>1, <2>1, TurnKept DEF Drain, Threads, devVars, vars
  <2>3. Waiting' = Waiting /\ Generating' = Generating
    BY <1>1 DEF Drain, Waiting, Generating, seqVars, SlotTypes, SlotInv, Parked,
       OrderInv
  <2>4. CountsMatch'
    BY <1>1, <2>3, CountsKept DEF Drain, seqVars
  <2>5. SlotTypes'
    BY <1>1 DEF Drain, SlotTypes, seqVars, engineVars, Batch, Threads
  <2>6. SlotInv'
    BY SMTT(30), <1>1 DEF Drain, SlotTypes, SlotInv, Parked, RowAt, RowQueued, OrderInv, seqVars,
       engineVars, Batch
  <2>7. OrderInv'
    BY <1>1 DEF Drain, SlotTypes, OrderInv, SlotInv, Parked, Batch
  <2> QED
    BY <2>2, <2>4, <2>5, <2>6, <2>7
<1>2. CASE Shutdown
  <2>1. OnDevice' \subseteq OnDevice
    BY <1>2 DEF Shutdown, SignalDecoder, OnDevice, SlotTypes
  <2>2. DevTypes' /\ DevInv'
    BY <1>2, <2>1, TurnKept DEF Shutdown, SignalDecoder, Threads, devVars, vars
  <2>3. Waiting' = Waiting /\ Generating' = Generating
    BY <1>2 DEF Shutdown, SignalDecoder, Waiting, Generating, seqVars, SlotTypes,
       SlotInv, Parked, OrderInv
  <2>4. CountsMatch'
    BY <1>2, <2>3, CountsKept DEF Shutdown, SignalDecoder, seqVars
  <2>5. SlotTypes'
    BY <1>2 DEF Shutdown, SignalDecoder, SlotTypes, seqVars, engineVars, Batch, Threads
  <2>6. SlotInv'
    BY SMTT(30), <1>2 DEF Shutdown, SignalDecoder, SlotTypes, SlotInv, Parked, RowAt, RowQueued,
       OrderInv, seqVars, engineVars, Batch
  <2>7. OrderInv'
    BY <1>2 DEF Shutdown, SignalDecoder, SlotTypes, OrderInv, SlotInv, Parked, Batch
  <2> QED
    BY <2>2, <2>4, <2>5, <2>6, <2>7
<1>3. CASE Free
  <2>1. OnDevice' \subseteq OnDevice
    BY <1>3 DEF Free, OnDevice, SlotTypes
  <2>2. DevTypes' /\ DevInv'
    BY <1>3, <2>1, TurnKept DEF Free, Threads, devVars, vars
  <2>3. Waiting' = Waiting /\ Generating' = Generating
    BY <1>3 DEF Free, Waiting, Generating, seqVars, SlotTypes, SlotInv, Parked, OrderInv
  <2>4. CountsMatch'
    BY <1>3, <2>3, CountsKept DEF Free, seqVars
  <2>5. SlotTypes'
    BY <1>3 DEF Free, SlotTypes, seqVars, engineVars, Batch, Threads
  <2>6. SlotInv'
    BY SMTT(30), <1>3 DEF Free, SlotTypes, SlotInv, Parked, RowAt, RowQueued, OrderInv, seqVars,
       engineVars, Batch
  <2>7. OrderInv'
    BY <1>3 DEF Free, SlotTypes, OrderInv, SlotInv, Parked, Batch
  <2> QED
    BY <2>2, <2>4, <2>5, <2>6, <2>7
<1> QED
  BY <1>1, <1>2, <1>3
-----------------------------------------------------------------------------
LEMMA NextInv == IInv /\ [Next]_vars => IInv'
<1> SUFFICES ASSUME IInv, [Next]_vars PROVE IInv'
  OBVIOUS
<1>1. ASSUME NEW s \in Slots, PrefillBegin(s) \/ SlotStep(s) \/ Drop(s) PROVE IInv'
  BY <1>1, PrefillInv, GenerateInv DEF SlotStep
<1>2. CASE DecoderStep
  BY <1>2, DecoderInv DEF DecoderStep
<1>3. CASE Drain \/ Shutdown \/ Free
  BY <1>3, ShutdownInv
<1>4. CASE UNCHANGED vars
  <2>1. DevTypes' /\ DevInv'
    BY <1>4, TurnKept DEF vars, devVars, IInv, OnDevice
  <2>2. CountsMatch'
    BY <1>4 DEF vars, seqVars, IInv, CountsMatch, Waiting, Generating
  <2>3. SlotTypes' /\ SlotInv' /\ OrderInv'
    BY <1>4 DEF vars, seqVars, engineVars, IInv, SlotTypes, SlotInv, Parked, RowAt,
       RowQueued, OrderInv, Batch
  <2> QED
    BY <2>1, <2>2, <2>3 DEF IInv
<1> QED
  BY <1>1, <1>2, <1>3, <1>4 DEF Next, Terminated

LEMMA InvHolds == Spec => []IInv
BY InitInv, NextInv, PTL DEF Spec, SafeSpec

\* Every variable of the scheduler keeps its type; no row lies outside the context.
THEOREM SchedulerTypes == Spec => []TypeOK
<1>1. IInv => TypeOK
  BY SlotSets DEF IInv, DevTypes, SlotTypes, CountsMatch, TypeOK
<1> QED
  BY <1>1, InvHolds, PTL

\* SCH.n_wait and SCH.n_active count exactly the waiting and the generating
\* sequences, whatever mix of drops, failures, returns and ends happened.
THEOREM SchedulerCountsMatch == Spec => []CountsMatch
<1>1. IInv => CountsMatch
  BY DEF IInv
<1> QED
  BY <1>1, InvHolds, PTL

\* The slot thread of every sequence in a microbatch stays parked in sched_forward
\* on the row decode_worker forwards: no deadline takes the buffer away.
THEOREM SchedulerInflightOwned == Spec => []InflightOwned
<1>1. IInv => InflightOwned
  BY DEF IInv, SlotTypes, SlotInv, Parked, RowQueued, InflightOwned
<1> QED
  BY <1>1, InvHolds, PTL

\* engine_gen_step samples from the logits of the sequence's own newest row.
THEOREM SchedulerOwnRow == Spec => []OwnRow
<1>1. IInv => OwnRow
  BY DEF IInv, SlotTypes, SlotInv, RowAt, OwnRow
<1> QED
  BY <1>1, InvHolds, PTL

\* e->pos never runs ahead of the rows the forwards filled, except for the one row
\* handed out, however the request ends.
THEOREM SchedulerRowsFilled == Spec => []RowsFilled
<1>1. IInv => RowsFilled
  BY DEF IInv, SlotTypes, SlotInv, RowAt, RowsFilled
<1> QED
  BY <1>1, InvHolds, PTL

\* On a GPU no prefill chunk, solo generation or microbatch overlaps another.
THEOREM SchedulerDeviceExclusive == Spec => []DeviceExclusive
<1>1. IInv => DeviceExclusive
  BY DEF IInv, DevInv, DeviceExclusive
<1> QED
  BY <1>1, InvHolds, PTL
=============================================================================
