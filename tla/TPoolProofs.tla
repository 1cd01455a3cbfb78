----------------------------- MODULE TPoolProofs -----------------------------
(***************************************************************************)
(* The thread pool for every number of workers and holders, every job size *)
(* and every width of the generation counter: a run returns with each item *)
(* computed exactly once and no worker inside its job, and the pool is     *)
(* freed once, when nobody uses it.                                        *)
(***************************************************************************)
EXTENDS TPool, FiniteSetTheorems, TLAPS

Running == {"wake", "broadcast", "own", "await", "park", "look", "wait"}
InRunPc == Running \cup {"set", "unlock"}

Jobs == {NoJob} \cup [of : Callers, n : Sizes]

PoolTypes ==
    /\ gen \in 0 .. GenMod - 1
    /\ n_done \in 0 .. NThreads - 1
    /\ job \in Jobs
    /\ run_mu \in Callers \cup {Nobody} /\ mu \in Callers \cup Workers \cup {Nobody}
    /\ workWait \subseteq Workers /\ doneWait \subseteq Callers

Flags == caller_parked \in BOOLEAN /\ stop \in BOOLEAN /\ freed \in BOOLEAN

ThreadTypes ==
    /\ wpc \in [Workers -> {"spin", "lock", "look", "wait", "check", "work", "count",
                            "last", "signal", "exited"}]
    /\ seen \in [Workers -> 0 .. GenMod - 1]
    /\ wjob \in [Workers -> Jobs]
    /\ cpc \in [Callers -> InRunPc \cup {"idle", "stop", "join", "gone"}]

\* run_mu is held by the one caller that is inside tpool_run; from the publication
\* on, the job is its own.
Published == run_mu # Nobody /\ cpc[run_mu] # "set"

RunOwned ==
    /\ \A c \in Callers : cpc[c] \in InRunPc <=> run_mu = c
    /\ Published => job.of = run_mu /\ job.n \in Sizes

\* A worker took the job of the current generation and left it again.
Done == {w \in Workers : seen[w] = gen /\ wpc[w] \notin {"work", "count"}}

\* A run is open: published, and its caller has not seen it complete.
Open == run_mu # Nobody /\ cpc[run_mu] \in Running

\* n_done counts these workers while a run is open; between two runs they are all.
DoneCounted == IF Open THEN n_done = Cardinality(Done) ELSE Done = Workers

\* A worker enters fn once per generation, with the job published for it.
TakenOnce ==
    \A w \in Workers :
        /\ wpc[w] \in {"work", "count"} => seen[w] = gen /\ wjob[w] = job
        /\ wpc[w] = "check" /\ ~stop => seen[w] # gen

\* Thread idx has computed its slice; 0 is the caller.
Had(idx) == IF idx = 0 THEN cpc[run_mu] \notin {"wake", "broadcast", "own"}
                       ELSE seen[idx] = gen /\ wpc[idx] # "work"

Computed ==
    Published =>
      /\ computed \in [0 .. job.n - 1 -> Nat]
      /\ \A idx \in 0 .. NThreads - 1 : \A i \in 0 .. job.n - 1 :
            i \in Slice(idx, job.n) => computed[i] = IF Had(idx) THEN 1 ELSE 0

\* refs counts the callers that have not let go, and the last of them ends alone.
Holders == {c \in Callers : cpc[c] \notin {"stop", "join", "gone"}}

LastEnds ==
    /\ refs = Cardinality(Holders)
    /\ \A c, d \in Callers : cpc[c] \in {"stop", "join"} /\ c # d => cpc[d] = "gone"
    /\ (stop \/ freed) => \A c \in Callers : cpc[c] \in {"gone", "join"}
    /\ freed => \A w \in Workers : wpc[w] = "exited"

Asleep == {w \in Workers : wpc[w] \in {"look", "wait"}}

SleepCounted == n_sleeping = Cardinality(Asleep)

IInv ==
    /\ PoolTypes /\ Flags /\ ThreadTypes /\ RunOwned /\ DoneCounted /\ TakenOnce
    /\ Computed /\ LastEnds /\ SleepCounted

-----------------------------------------------------------------------------
(* The slices of tp_slice.                                                   *)

Per(n) == (n + NThreads - 1) \div NThreads

\* NThreads slices of Per(n) items are enough for n items.
LEMMA PerCovers ==
    ASSUME NEW n \in Nat, n >= 2
    PROVE  Per(n) \in Nat /\ Per(n) >= 1 /\ n <= NThreads * Per(n)
<1> DEFINE m == n + NThreads - 1
<1>1. NThreads \in Nat /\ NThreads >= 2 /\ m \in Nat /\ m >= NThreads
  BY TPoolAssumption
<1>2. m \div NThreads \in Int /\ m % NThreads \in 0 .. NThreads - 1
      /\ m = NThreads * (m \div NThreads) + (m % NThreads)
  BY <1>1
<1>3. m \div NThreads >= 1
  BY <1>1
<1> QED
  BY <1>1, <1>2, <1>3 DEF Per

\* What the caller's and the workers' slices hold.
LEMMA SliceBounds ==
    ASSUME NEW n \in Nat, n >= 2, NEW idx \in Nat, NEW i \in 0 .. n - 1
    PROVE  i \in Slice(idx, n) <=> idx * Per(n) <= i /\ i < idx * Per(n) + Per(n)
<1>1. Per(n) \in Nat /\ idx * Per(n) \in Nat
  BY PerCovers
<1> QED
  BY <1>1 DEF Slice, Per

\* No item is in two slices ...
LEMMA SlicesApart ==
    ASSUME NEW n \in Nat, n >= 2, NEW a \in Nat, NEW b \in Nat, NEW i \in 0 .. n - 1,
           i \in Slice(a, n), i \in Slice(b, n)
    PROVE  a = b
<1>1. Per(n) \in Nat /\ Per(n) >= 1
  BY PerCovers
<1>2. ASSUME NEW x \in Nat, NEW y \in Nat, x < y
      PROVE  x * Per(n) + Per(n) <= y * Per(n)
  <2>1. x + 1 <= y
    BY <1>2
  <2>2. (x + 1) * Per(n) <= y * Per(n)
    BY <1>1, <2>1
  <2> QED
    BY <1>1, <2>2
<1>3. /\ a * Per(n) <= i /\ i < a * Per(n) + Per(n)
      /\ b * Per(n) <= i /\ i < b * Per(n) + Per(n)
  BY SliceBounds
<1>4. a * Per(n) \in Nat /\ b * Per(n) \in Nat
  BY <1>1
<1>5. ~(a < b) /\ ~(b < a)
  BY <1>1, <1>2, <1>3, <1>4
<1> QED
  BY <1>5

\* ... and every item is in one.
LEMMA SlicesCover ==
    ASSUME NEW n \in Nat, n >= 2, NEW i \in 0 .. n - 1
    PROVE  \E idx \in 0 .. NThreads - 1 : i \in Slice(idx, n)
<1> DEFINE q == i \div Per(n)
<1>1. Per(n) \in Nat /\ Per(n) >= 1 /\ n <= NThreads * Per(n)
  BY PerCovers
<1>2. q \in Nat /\ q * Per(n) <= i /\ i < q * Per(n) + Per(n)
  BY <1>1
<1>3. q < NThreads
  <2>1. SUFFICES ASSUME q >= NThreads PROVE FALSE
    BY <1>2, TPoolAssumption
  <2>2. q * Per(n) >= NThreads * Per(n)
    BY <1>1, <1>2, <2>1, TPoolAssumption
  <2> QED
    BY <1>1, <1>2, <2>2, TPoolAssumption
<1>4. q \in 0 .. NThreads - 1
  BY <1>2, <1>3, TPoolAssumption
<1>5. i \in Slice(q, n)
  BY <1>2, SliceBounds
<1> QED
  BY <1>4, <1>5

-----------------------------------------------------------------------------
(* The counted sets.                                                         *)

LEMMA CountedSets ==
    /\ IsFiniteSet(Workers) /\ Cardinality(Workers) = NThreads - 1
    /\ IsFiniteSet(Done) /\ Cardinality(Done) \in 0 .. NThreads - 1
    /\ Cardinality(Done) = NThreads - 1 => Done = Workers
    /\ IsFiniteSet(Asleep) /\ Cardinality(Asleep) \in 0 .. NThreads - 1
    /\ IsFiniteSet(Holders) /\ Cardinality(Holders) \in 0 .. Cardinality(Callers)
<1>1. IsFiniteSet(Workers) /\ Cardinality(Workers) = NThreads - 1
  BY TPoolAssumption, FS_Interval DEF Workers
<1>2. Done \subseteq Workers /\ Asleep \subseteq Workers /\ Holders \subseteq Callers
  BY DEF Done, Asleep, Holders
<1>3. /\ IsFiniteSet(Done) /\ Cardinality(Done) <= Cardinality(Workers)
      /\ Cardinality(Done) = Cardinality(Workers) => Done = Workers
      /\ IsFiniteSet(Asleep) /\ Cardinality(Asleep) <= Cardinality(Workers)
  BY <1>1, <1>2, FS_Subset
<1>4. IsFiniteSet(Holders) /\ Cardinality(Holders) <= Cardinality(Callers)
  BY <1>2, FS_Subset, TPoolAssumption
<1> QED
  BY <1>1, <1>3, <1>4, FS_CardinalityType, TPoolAssumption

LEMMA OneMore ==
    ASSUME NEW S, IsFiniteSet(S), NEW s, s \notin S
    PROVE  Cardinality(S \cup {s}) = Cardinality(S) + 1
BY FS_AddElement

LEMMA OneFewer ==
    ASSUME NEW S, IsFiniteSet(S), NEW s \in S
    PROVE  Cardinality(S \ {s}) = Cardinality(S) - 1
BY FS_RemoveElement

-----------------------------------------------------------------------------
LEMMA InitInv == Init => IInv
<1> SUFFICES ASSUME Init PROVE IInv
  OBVIOUS
<1> USE TPoolAssumption DEF Init
<1>1. PoolTypes
  BY DEF PoolTypes, Jobs
<1>2. Flags
  BY DEF Flags
<1>3. ThreadTypes
  BY DEF ThreadTypes, Jobs
<1>4. RunOwned
  BY DEF RunOwned, Published, InRunPc, Running
<1>5. Done = Workers /\ Asleep = {} /\ Holders = Callers /\ ~Open /\ ~Published
  BY DEF Done, Asleep, Holders, Open, Published
<1>6. DoneCounted /\ Computed
  BY <1>5 DEF DoneCounted, Computed
<1>7. TakenOnce
  BY DEF TakenOnce
<1>8. LastEnds /\ SleepCounted
  BY <1>5, FS_EmptySet DEF LastEnds, SleepCounted
<1> QED
  BY <1>1, <1>2, <1>3, <1>4, <1>6, <1>7, <1>8 DEF IInv
-----------------------------------------------------------------------------
(* What the history of the job says.                                         *)

\* Steps outside fn.
LEMMA ComputedKept ==
    ASSUME Computed, UNCHANGED <<computed, job>>, Published' => Published,
           Published' => \A idx \in 0 .. NThreads - 1 : Had(idx)' <=> Had(idx)
    PROVE  Computed'
BY DEF Computed

\* Thread idx computes its slice: its items were not computed, no other thread's
\* items are touched.
LEMMA ComputedOnce ==
    ASSUME Computed, Published, Published', job' = job, job.n \in Sizes,
           NEW idx \in 0 .. NThreads - 1, Compute(idx, job.n), ~Had(idx), Had(idx)',
           \A k \in 0 .. NThreads - 1 : k # idx => (Had(k)' <=> Had(k))
    PROVE  Computed'
<1>1. job.n \in Nat /\ job.n >= 2
  <2>1. job.n \in Nat /\ job.n # 0 /\ job.n # 1
    BY TPoolAssumption
  <2> QED
    BY <2>1
<1>2. computed' \in [0 .. job.n - 1 -> Nat]
  BY DEF Computed, Compute
<1>3. ASSUME NEW k \in 0 .. NThreads - 1, NEW i \in 0 .. job.n - 1, i \in Slice(k, job.n)
      PROVE  computed'[i] = IF Had(k)' THEN 1 ELSE 0
  <2>1. computed[i] = IF Had(k) THEN 1 ELSE 0
    BY <1>3 DEF Computed
  <2>2. computed'[i] = computed[i] + (IF i \in Slice(idx, job.n) THEN 1 ELSE 0)
    BY <1>3 DEF Computed, Compute
  <2>3. i \in Slice(idx, job.n) <=> k = idx
    BY <1>1, <1>3, SlicesApart
  <2> QED
    BY <2>1, <2>2, <2>3
<1> QED
  BY <1>2, <1>3 DEF Computed

-----------------------------------------------------------------------------
\* A worker spins and parks.
LEMMA ParkInv ==
    ASSUME IInv, NEW w \in Workers,
           SpinSees(w) \/ Park(w) \/ ParkLock(w) \/ ParkLook(w) \/ ParkWake(w) \/
              SpuriousWork(w) \/ LastLooks(w) \/ LastSignals(w)
    PROVE  IInv'
<1> USE TPoolAssumption DEF IInv, poolVars, lockVars, workerVars
<1>1. CASE SpinSees(w)
  <2>1. Flags'
    BY <1>1 DEF SpinSees, WGoto, CGoto, Flags
  <2>2. ThreadTypes'
    BY <1>1 DEF SpinSees, WGoto, CGoto, ThreadTypes, PoolTypes, InRunPc, Running
  <2>3. RunOwned'
    BY <1>1 DEF SpinSees, WGoto, CGoto, RunOwned, Published, ThreadTypes, PoolTypes,
       InRunPc, Running, Workers
  <2>4. Done' = Done /\ Asleep' = Asleep /\ Holders' = Holders
    BY <1>1 DEF SpinSees, WGoto, CGoto, Done, Asleep, Holders, ThreadTypes, TakenOnce
  <2>5. DoneCounted'
    BY <1>1, <2>4, CountedSets DEF SpinSees, WGoto, CGoto, DoneCounted, Open, RunOwned,
       ThreadTypes, PoolTypes, InRunPc, Running
  <2>6. TakenOnce'
    BY <1>1 DEF SpinSees, WGoto, CGoto, TakenOnce, ThreadTypes, DoneCounted, Done, Open,
       PoolTypes
  <2>7. Computed'
    BY <1>1, ComputedKept DEF SpinSees, WGoto, CGoto, Published, Had, ThreadTypes,
       RunOwned, TakenOnce, InRunPc, Running, Workers
  <2>8. PoolTypes'
    BY <1>1, <2>4, CountedSets DEF SpinSees, WGoto, CGoto, PoolTypes, Jobs, DoneCounted
  <2>9. LastEnds' /\ SleepCounted'
    BY <1>1, <2>4 DEF SpinSees, WGoto, CGoto, LastEnds, SleepCounted, ThreadTypes
  <2> QED
    BY <2>1, <2>2, <2>3, <2>5, <2>6, <2>7, <2>8, <2>9
<1>2. CASE Park(w)
  <2>1. Flags'
    BY <1>2 DEF Park, WGoto, CGoto, Flags
  <2>2. ThreadTypes'
    BY <1>2 DEF Park, WGoto, CGoto, ThreadTypes, PoolTypes, InRunPc, Running
  <2>3. RunOwned'
    BY <1>2 DEF Park, WGoto, CGoto, RunOwned, Published, ThreadTypes, PoolTypes,
       InRunPc, Running, Workers
  <2>4. Done' = Done /\ Asleep' = Asleep /\ Holders' = Holders
    BY <1>2 DEF Park, WGoto, CGoto, Done, Asleep, Holders, ThreadTypes, TakenOnce
  <2>5. DoneCounted'
    BY <1>2, <2>4, CountedSets DEF Park, WGoto, CGoto, DoneCounted, Open, RunOwned,
       ThreadTypes, PoolTypes, InRunPc, Running
  <2>6. TakenOnce'
    BY <1>2 DEF Park, WGoto, CGoto, TakenOnce, ThreadTypes, DoneCounted, Done, Open,
       PoolTypes
  <2>7. Computed'
    BY <1>2, ComputedKept DEF Park, WGoto, CGoto, Published, Had, ThreadTypes, RunOwned,
       TakenOnce, InRunPc, Running, Workers
  <2>8. PoolTypes'
    BY <1>2, <2>4, CountedSets DEF Park, WGoto, CGoto, PoolTypes, Jobs, DoneCounted
  <2>9. LastEnds' /\ SleepCounted'
    BY <1>2, <2>4 DEF Park, WGoto, CGoto, LastEnds, SleepCounted, ThreadTypes
  <2> QED
    BY <2>1, <2>2, <2>3, <2>5, <2>6, <2>7, <2>8, <2>9
<1>3. CASE ParkLock(w)
  <2>1. Flags'
    BY <1>3 DEF ParkLock, WGoto, CGoto, Flags
  <2>2. ThreadTypes'
    BY <1>3 DEF ParkLock, WGoto, CGoto, ThreadTypes, PoolTypes, InRunPc, Running
  <2>3. RunOwned'
    BY <1>3 DEF ParkLock, WGoto, CGoto, RunOwned, Published, ThreadTypes, PoolTypes,
       InRunPc, Running, Workers
  <2>4. Done' = Done /\ Asleep' = Asleep \cup {w} /\ Holders' = Holders
    BY <1>3 DEF ParkLock, WGoto, CGoto, Done, Asleep, Holders, ThreadTypes, TakenOnce
  <2>5. DoneCounted'
    BY <1>3, <2>4, CountedSets DEF ParkLock, WGoto, CGoto, DoneCounted, Open, RunOwned,
       ThreadTypes, PoolTypes, InRunPc, Running
  <2>6. TakenOnce'
    BY <1>3 DEF ParkLock, WGoto, CGoto, TakenOnce, ThreadTypes, DoneCounted, Done, Open,
       PoolTypes
  <2>7. Computed'
    BY <1>3, ComputedKept DEF ParkLock, WGoto, CGoto, Published, Had, ThreadTypes,
       RunOwned, TakenOnce, InRunPc, Running, Workers
  <2>8. PoolTypes'
    BY <1>3, <2>4, CountedSets DEF ParkLock, WGoto, CGoto, PoolTypes, Jobs, DoneCounted
  <2>9. LastEnds' /\ SleepCounted'
    <3>1. w \notin Asleep
      BY <1>3 DEF ParkLock, Asleep
    <3>2. Cardinality(Asleep \cup {w}) = Cardinality(Asleep) + 1
      BY <3>1, CountedSets, OneMore
    <3>3. SleepCounted'
      BY <1>3, <2>4, <3>2 DEF ParkLock, SleepCounted
    <3> QED
      BY <1>3, <2>4, <3>3 DEF ParkLock, WGoto, LastEnds, ThreadTypes
  <2> QED
    BY <2>1, <2>2, <2>3, <2>5, <2>6, <2>7, <2>8, <2>9
<1>4. CASE ParkLook(w)
  <2>1. Flags'
    BY <1>4 DEF ParkLook, WGoto, CGoto, Flags
  <2>2. ThreadTypes'
    BY <1>4 DEF ParkLook, WGoto, CGoto, ThreadTypes, PoolTypes, InRunPc, Running
  <2>3. RunOwned'
    BY <1>4 DEF ParkLook, WGoto, CGoto, RunOwned, Published, ThreadTypes, PoolTypes,
       InRunPc, Running, Workers
  <2>4. /\ Done' = Done /\ Holders' = Holders
        /\ Asleep' = IF gen = seen[w] /\ ~stop THEN Asleep ELSE Asleep \ {w}
    <3>1. CASE gen = seen[w] /\ ~stop
      BY <1>4, <3>1 DEF ParkLook, WGoto, Done, Asleep, Holders, ThreadTypes
    <3>2. CASE ~(gen = seen[w] /\ ~stop)
      BY <1>4, <3>2 DEF ParkLook, WGoto, Done, Asleep, Holders, ThreadTypes
    <3> QED
      BY <3>1, <3>2
  <2>5. DoneCounted'
    BY <1>4, <2>4, CountedSets DEF ParkLook, WGoto, CGoto, DoneCounted, Open, RunOwned,
       ThreadTypes, PoolTypes, InRunPc, Running
  <2>6. TakenOnce'
    BY <1>4 DEF ParkLook, WGoto, CGoto, TakenOnce, ThreadTypes, DoneCounted, Done, Open,
       PoolTypes
  <2>7. Computed'
    BY <1>4, ComputedKept DEF ParkLook, WGoto, CGoto, Published, Had, ThreadTypes,
       RunOwned, TakenOnce, InRunPc, Running, Workers
  <2>8. PoolTypes'
    BY <1>4, <2>4, CountedSets DEF ParkLook, WGoto, CGoto, PoolTypes, Jobs, DoneCounted
  <2>9. LastEnds' /\ SleepCounted'
    <3>1. w \in Asleep
      BY <1>4 DEF ParkLook, Asleep
    <3>2. Cardinality(Asleep \ {w}) = Cardinality(Asleep) - 1
      BY <3>1, CountedSets, OneFewer
    <3>3. SleepCounted'
      BY <1>4, <2>4, <3>2 DEF ParkLook, SleepCounted
    <3> QED
      BY <1>4, <2>4, <3>3 DEF ParkLook, WGoto, LastEnds, ThreadTypes
  <2> QED
    BY <2>1, <2>2, <2>3, <2>5, <2>6, <2>7, <2>8, <2>9
<1>5. CASE ParkWake(w)
  <2>1. Flags'
    BY <1>5 DEF ParkWake, WGoto, CGoto, Flags
  <2>2. ThreadTypes'
    BY <1>5 DEF ParkWake, WGoto, CGoto, ThreadTypes, PoolTypes, InRunPc, Running
  <2>3. RunOwned'
    BY <1>5 DEF ParkWake, WGoto, CGoto, RunOwned, Published, ThreadTypes, PoolTypes,
       InRunPc, Running, Workers
  <2>4. Done' = Done /\ Asleep' = Asleep /\ Holders' = Holders
    BY <1>5 DEF ParkWake, WGoto, CGoto, Done, Asleep, Holders, ThreadTypes, TakenOnce
  <2>5. DoneCounted'
    BY <1>5, <2>4, CountedSets DEF ParkWake, WGoto, CGoto, DoneCounted, Open, RunOwned,
       ThreadTypes, PoolTypes, InRunPc, Running
  <2>6. TakenOnce'
    BY <1>5 DEF ParkWake, WGoto, CGoto, TakenOnce, ThreadTypes, DoneCounted, Done, Open,
       PoolTypes
  <2>7. Computed'
    BY <1>5, ComputedKept DEF ParkWake, WGoto, CGoto, Published, Had, ThreadTypes,
       RunOwned, TakenOnce, InRunPc, Running, Workers
  <2>8. PoolTypes'
    BY <1>5, <2>4, CountedSets DEF ParkWake, WGoto, CGoto, PoolTypes, Jobs, DoneCounted
  <2>9. LastEnds' /\ SleepCounted'
    BY <1>5, <2>4 DEF ParkWake, WGoto, CGoto, LastEnds, SleepCounted, ThreadTypes
  <2> QED
    BY <2>1, <2>2, <2>3, <2>5, <2>6, <2>7, <2>8, <2>9
<1>6. CASE SpuriousWork(w)
  <2>1. Flags'
    BY <1>6 DEF SpuriousWork, Flags
  <2>2. ThreadTypes'
    BY <1>6 DEF SpuriousWork, ThreadTypes, PoolTypes, InRunPc, Running
  <2>3. RunOwned'
    BY <1>6 DEF SpuriousWork, RunOwned, Published, ThreadTypes, PoolTypes, InRunPc,
       Running, Workers
  <2>4. Done' = Done /\ Asleep' = Asleep /\ Holders' = Holders
    BY <1>6 DEF SpuriousWork, Done, Asleep, Holders, ThreadTypes, TakenOnce
  <2>5. DoneCounted'
    BY <1>6, <2>4, CountedSets DEF SpuriousWork, DoneCounted, Open, RunOwned,
       ThreadTypes, PoolTypes, InRunPc, Running
  <2>6. TakenOnce'
    BY <1>6 DEF SpuriousWork, TakenOnce, ThreadTypes, DoneCounted, Done, Open, PoolTypes
  <2>7. Computed'
    BY <1>6, ComputedKept DEF SpuriousWork, Published, Had, ThreadTypes, RunOwned,
       TakenOnce, InRunPc, Running, Workers
  <2>8. PoolTypes'
    BY <1>6, <2>4, CountedSets DEF SpuriousWork, PoolTypes, Jobs, DoneCounted
  <2>9. LastEnds' /\ SleepCounted'
    BY <1>6, <2>4 DEF SpuriousWork, LastEnds, SleepCounted, ThreadTypes
  <2> QED
    BY <2>1, <2>2, <2>3, <2>5, <2>6, <2>7, <2>8, <2>9
<1>7. CASE LastLooks(w)
  <2>1. Flags'
    BY <1>7 DEF LastLooks, WGoto, CGoto, Flags
  <2>2. ThreadTypes'
    BY <1>7 DEF LastLooks, WGoto, CGoto, ThreadTypes, PoolTypes, InRunPc, Running
  <2>3. RunOwned'
    BY <1>7 DEF LastLooks, WGoto, CGoto, RunOwned, Published, ThreadTypes, PoolTypes,
       InRunPc, Running, Workers
  <2>4. Done' = Done /\ Asleep' = Asleep /\ Holders' = Holders
    BY <1>7 DEF LastLooks, WGoto, CGoto, Done, Asleep, Holders, ThreadTypes, TakenOnce
  <2>5. DoneCounted'
    BY <1>7, <2>4, CountedSets DEF LastLooks, WGoto, CGoto, DoneCounted, Open, RunOwned,
       ThreadTypes, PoolTypes, InRunPc, Running
  <2>6. TakenOnce'
    BY <1>7 DEF LastLooks, WGoto, CGoto, TakenOnce, ThreadTypes, DoneCounted, Done,
       Open, PoolTypes
  <2>7. Computed'
    BY <1>7, ComputedKept DEF LastLooks, WGoto, CGoto, Published, Had, ThreadTypes,
       RunOwned, TakenOnce, InRunPc, Running, Workers
  <2>8. PoolTypes'
    BY <1>7, <2>4, CountedSets DEF LastLooks, WGoto, CGoto, PoolTypes, Jobs, DoneCounted
  <2>9. LastEnds' /\ SleepCounted'
    BY <1>7, <2>4 DEF LastLooks, WGoto, CGoto, LastEnds, SleepCounted, ThreadTypes
  <2> QED
    BY <2>1, <2>2, <2>3, <2>5, <2>6, <2>7, <2>8, <2>9
<1>8. CASE LastSignals(w)
  <2>1. Flags'
    BY <1>8 DEF LastSignals, WGoto, CGoto, Flags
  <2>2. ThreadTypes'
    BY <1>8 DEF LastSignals, WGoto, CGoto, ThreadTypes, PoolTypes, InRunPc, Running
  <2>3. RunOwned'
    BY <1>8 DEF LastSignals, WGoto, CGoto, RunOwned, Published, ThreadTypes, PoolTypes,
       InRunPc, Running, Workers
  <2>4. Done' = Done /\ Asleep' = Asleep /\ Holders' = Holders
    BY <1>8 DEF LastSignals, WGoto, CGoto, Done, Asleep, Holders, ThreadTypes, TakenOnce
  <2>5. DoneCounted'
    BY <1>8, <2>4, CountedSets DEF LastSignals, WGoto, CGoto, DoneCounted, Open,
       RunOwned, ThreadTypes, PoolTypes, InRunPc, Running
  <2>6. TakenOnce'
    BY <1>8 DEF LastSignals, WGoto, CGoto, TakenOnce, ThreadTypes, DoneCounted, Done,
       Open, PoolTypes
  <2>7. Computed'
    BY <1>8, ComputedKept DEF LastSignals, WGoto, CGoto, Published, Had, ThreadTypes,
       RunOwned, TakenOnce, InRunPc, Running, Workers
  <2>8. PoolTypes'
    BY <1>8, <2>4, CountedSets DEF LastSignals, WGoto, CGoto, PoolTypes, Jobs,
       DoneCounted
  <2>9. LastEnds' /\ SleepCounted'
    BY <1>8, <2>4 DEF LastSignals, WGoto, CGoto, LastEnds, SleepCounted, ThreadTypes
  <2> QED
    BY <2>1, <2>2, <2>3, <2>5, <2>6, <2>7, <2>8, <2>9
<1> QED
  BY <1>1, <1>2, <1>3, <1>4, <1>5, <1>6, <1>7, <1>8
-----------------------------------------------------------------------------
\* A worker takes a job, computes and counts itself.
LEMMA WorkInv ==
    ASSUME IInv, NEW w \in Workers,
           TakeJob(w) \/ Work(w) \/ Count(w)
    PROVE  IInv'
<1> USE TPoolAssumption DEF IInv, poolVars, lockVars, workerVars
<1>1. CASE TakeJob(w)
  <2>1. Flags'
    BY <1>1 DEF TakeJob, WGoto, CGoto, Flags
  <2>2. ThreadTypes'
    BY <1>1 DEF TakeJob, WGoto, CGoto, ThreadTypes, PoolTypes, InRunPc, Running
  <2>3. RunOwned'
    BY <1>1 DEF TakeJob, WGoto, CGoto, RunOwned, Published, ThreadTypes, PoolTypes,
       InRunPc, Running, Workers
  <2>4. Done' = Done /\ Asleep' = Asleep /\ Holders' = Holders
    BY <1>1 DEF TakeJob, WGoto, CGoto, Done, Asleep, Holders, ThreadTypes, TakenOnce
  <2>5. DoneCounted'
    BY <1>1, <2>4, CountedSets DEF TakeJob, WGoto, CGoto, DoneCounted, Open, RunOwned,
       ThreadTypes, PoolTypes, InRunPc, Running
  <2>6. TakenOnce'
    BY <1>1 DEF TakeJob, WGoto, CGoto, TakenOnce, ThreadTypes, DoneCounted, Done, Open,
       PoolTypes
  <2>7. Computed'
    BY <1>1, ComputedKept DEF TakeJob, WGoto, CGoto, Published, Had, ThreadTypes,
       RunOwned, TakenOnce, InRunPc, Running, Workers
  <2>8. PoolTypes'
    BY <1>1, <2>4, CountedSets DEF TakeJob, WGoto, CGoto, PoolTypes, Jobs, DoneCounted
  <2>9. LastEnds' /\ SleepCounted'
    BY <1>1, <2>4 DEF TakeJob, WGoto, CGoto, LastEnds, SleepCounted, ThreadTypes
  <2> QED
    BY <2>1, <2>2, <2>3, <2>5, <2>6, <2>7, <2>8, <2>9
<1>2. CASE Work(w)
  <2>1. Flags'
    BY <1>2 DEF Work, WGoto, CGoto, Flags
  <2>2. ThreadTypes'
    BY <1>2 DEF Work, WGoto, CGoto, ThreadTypes, PoolTypes, InRunPc, Running
  <2>3. RunOwned'
    BY <1>2 DEF Work, WGoto, CGoto, RunOwned, Published, ThreadTypes, PoolTypes,
       InRunPc, Running, Workers
  <2>4. Done' = Done /\ Asleep' = Asleep /\ Holders' = Holders
    BY <1>2 DEF Work, WGoto, CGoto, Done, Asleep, Holders, ThreadTypes, TakenOnce
  <2>5. DoneCounted'
    BY <1>2, <2>4, CountedSets DEF Work, WGoto, CGoto, DoneCounted, Open, RunOwned,
       ThreadTypes, PoolTypes, InRunPc, Running
  <2>6. TakenOnce'
    BY <1>2 DEF Work, WGoto, CGoto, TakenOnce, ThreadTypes, DoneCounted, Done, Open,
       PoolTypes
  <2>7. Computed'
    <3>1. w \in 0 .. NThreads - 1 /\ w # 0
      BY DEF Workers
    <3>2. w \notin Done /\ wjob[w] = job
      BY <1>2 DEF Work, Done, TakenOnce
    <3>3. Published /\ job.n \in Sizes
      BY <3>2 DEF DoneCounted, Open, Published, Running, RunOwned
    <3>4. Published' /\ job' = job /\ Compute(w, job.n)
      BY <1>2, <3>2, <3>3 DEF Work, Published
    <3>5. ~Had(w) /\ Had(w)'
      BY <1>2, <3>1 DEF Work, WGoto, Had, TakenOnce, ThreadTypes
    <3>6. \A k \in 0 .. NThreads - 1 : k # w => (Had(k)' <=> Had(k))
      BY <1>2 DEF Work, WGoto, Had, ThreadTypes, Workers
    <3> QED
      BY <3>1, <3>3, <3>4, <3>5, <3>6, ComputedOnce
  <2>8. PoolTypes'
    BY <1>2, <2>4, CountedSets DEF Work, WGoto, CGoto, PoolTypes, Jobs, DoneCounted
  <2>9. LastEnds' /\ SleepCounted'
    BY <1>2, <2>4 DEF Work, WGoto, CGoto, LastEnds, SleepCounted, ThreadTypes
  <2> QED
    BY <2>1, <2>2, <2>3, <2>5, <2>6, <2>7, <2>8, <2>9
<1>3. CASE Count(w)
  <2>1. Flags'
    BY <1>3 DEF Count, WGoto, CGoto, Flags
  <2>2. ThreadTypes'
    BY <1>3 DEF Count, WGoto, CGoto, ThreadTypes, PoolTypes, InRunPc, Running
  <2>3. RunOwned'
    BY <1>3 DEF Count, WGoto, CGoto, RunOwned, Published, ThreadTypes, PoolTypes,
       InRunPc, Running, Workers
  <2>4. Done' = Done \cup {w} /\ Asleep' = Asleep /\ Holders' = Holders
    BY <1>3 DEF Count, WGoto, CGoto, Done, Asleep, Holders, ThreadTypes, TakenOnce
  <2>5. DoneCounted' /\ n_done' \in 0 .. NThreads - 1
    <3>1. w \notin Done
      BY <1>3 DEF Count, Done
    <3>2. Open /\ n_done = Cardinality(Done)
      BY <3>1 DEF DoneCounted
    <3>3. n_done' = Cardinality(Done')
      BY <1>3, <2>4, <3>1, <3>2, CountedSets, OneMore DEF Count
    <3>4. Open'
      BY <1>3, <3>2 DEF Count, Open
    <3>5. Cardinality(Done') <= NThreads - 1
      <4>1. Done \cup {w} \subseteq Workers
        BY DEF Done
      <4> QED
        BY <2>4, <4>1, CountedSets, FS_Subset
    <3> QED
      BY <1>3, <3>2, <3>3, <3>4, <3>5 DEF Count, DoneCounted, PoolTypes
  <2>6. TakenOnce'
    BY <1>3 DEF Count, WGoto, CGoto, TakenOnce, ThreadTypes, DoneCounted, Done, Open,
       PoolTypes
  <2>7. Computed'
    BY <1>3, ComputedKept DEF Count, WGoto, CGoto, Published, Had, ThreadTypes,
       RunOwned, TakenOnce, InRunPc, Running, Workers
  <2>8. PoolTypes'
    BY <1>3, <2>5 DEF Count, PoolTypes
  <2>9. LastEnds' /\ SleepCounted'
    BY <1>3, <2>4 DEF Count, WGoto, CGoto, LastEnds, SleepCounted, ThreadTypes
  <2> QED
    BY <2>1, <2>2, <2>3, <2>5, <2>6, <2>7, <2>8, <2>9
<1> QED
  BY <1>1, <1>2, <1>3
-----------------------------------------------------------------------------
\* A run of the pool.
LEMMA RunInv ==
    ASSUME IInv, NEW c \in Callers,
           RunLock(c) \/ Publish(c) \/ WakeLook(c) \/ Broadcast(c) \/ OwnSlice(c) \/
              AwaitDone(c) \/ AwaitPark(c) \/ AwaitLock(c) \/ AwaitLook(c) \/
              AwaitWake(c) \/ RunUnlock(c)
    PROVE  IInv'
<1> USE TPoolAssumption DEF IInv, poolVars, lockVars, workerVars
<1>1. CASE RunLock(c)
  <2>1. Flags'
    BY <1>1 DEF RunLock, WGoto, CGoto, Flags
  <2>2. ThreadTypes'
    BY <1>1 DEF RunLock, WGoto, CGoto, ThreadTypes, PoolTypes, InRunPc, Running
  <2>3. RunOwned'
    BY <1>1 DEF RunLock, WGoto, CGoto, RunOwned, Published, ThreadTypes, PoolTypes,
       InRunPc, Running, Workers
  <2>4. Done' = Done /\ Asleep' = Asleep /\ Holders' = Holders
    BY <1>1 DEF RunLock, WGoto, CGoto, Done, Asleep, Holders, ThreadTypes, TakenOnce
  <2>5. DoneCounted'
    BY <1>1, <2>4, CountedSets DEF RunLock, WGoto, CGoto, DoneCounted, Open, RunOwned,
       ThreadTypes, PoolTypes, InRunPc, Running
  <2>6. TakenOnce'
    BY <1>1 DEF RunLock, WGoto, CGoto, TakenOnce, ThreadTypes, DoneCounted, Done, Open,
       PoolTypes
  <2>7. Computed'
    BY <1>1, ComputedKept DEF RunLock, WGoto, CGoto, Published, Had, ThreadTypes,
       RunOwned, TakenOnce, InRunPc, Running, Workers
  <2>8. PoolTypes'
    BY <1>1, <2>4, CountedSets DEF RunLock, WGoto, CGoto, PoolTypes, Jobs, DoneCounted
  <2>9. LastEnds' /\ SleepCounted'
    BY <1>1, <2>4 DEF RunLock, WGoto, CGoto, LastEnds, SleepCounted, ThreadTypes
  <2> QED
    BY <2>1, <2>2, <2>3, <2>5, <2>6, <2>7, <2>8, <2>9
<1>2. CASE Publish(c)
  <2>1. Flags'
    BY <1>2 DEF Publish, WGoto, CGoto, Flags
  <2>2. ThreadTypes'
    BY <1>2 DEF Publish, WGoto, CGoto, ThreadTypes, PoolTypes, InRunPc, Running
  <2>3. RunOwned'
    BY <1>2 DEF Publish, WGoto, CGoto, RunOwned, Published, ThreadTypes, PoolTypes,
       InRunPc, Running, Workers
  <2>4. Done' = {} /\ Asleep' = Asleep /\ Holders' = Holders
    <3>1. run_mu = c /\ Done = Workers
      BY <1>2 DEF Publish, RunOwned, InRunPc, DoneCounted, Open, Running
    <3>2. gen' # gen
      BY <1>2 DEF Publish, PoolTypes
    <3>3. Done' = {}
      BY <1>2, <3>1, <3>2 DEF Publish, Done
    <3> QED
      BY <1>2, <3>3 DEF Publish, CGoto, Asleep, Holders, ThreadTypes
  <2>5. DoneCounted' /\ \A w \in Workers : wpc[w] \notin {"work", "count", "check"} \/ stop
    <3>1. run_mu = c /\ Done = Workers
      BY <1>2 DEF Publish, RunOwned, InRunPc, DoneCounted, Open, Running
    <3>2. Open' /\ n_done' = 0
      BY <1>2, <3>1 DEF Publish, CGoto, Open, Running, ThreadTypes
    <3>3. DoneCounted'
      BY <2>4, <3>2, FS_EmptySet DEF DoneCounted
    <3> QED
      BY <3>1, <3>3 DEF Done, TakenOnce
  <2>6. TakenOnce'
    <3>1. ~stop
      BY <1>2 DEF Publish, LastEnds
    <3> QED
      BY <1>2, <2>5, <3>1 DEF Publish, TakenOnce, ThreadTypes
  <2>7. Computed'
    <3>1. PICK n \in Sizes : job' = [of |-> c, n |-> n] /\ computed' = [i \in 0 .. n - 1 |-> 0]
      BY <1>2 DEF Publish
    <3>2. job'.n = n /\ computed' \in [0 .. job'.n - 1 -> Nat]
      BY <3>1
    <3>3. \A idx \in 0 .. NThreads - 1 : ~Had(idx)'
      <4>1. run_mu' = c /\ cpc'[c] = "wake"
        BY <1>2 DEF Publish, CGoto, RunOwned, InRunPc, ThreadTypes
      <4>2. \A w \in Workers : ~(seen'[w] = gen' /\ wpc'[w] # "work")
        <5>1. \A w \in Workers : wpc'[w] # "work"
          BY <1>2, <2>5 DEF Publish, LastEnds
        <5> QED
          BY <1>2, <2>4, <2>5, <5>1 DEF Publish, Done, LastEnds
      <4> QED
        BY <4>1, <4>2 DEF Had, Workers
    <3> QED
      BY <3>1, <3>2, <3>3 DEF Computed
  <2>8. PoolTypes'
    BY <1>2, <2>4, CountedSets DEF Publish, WGoto, CGoto, PoolTypes, Jobs, DoneCounted
  <2>9. LastEnds' /\ SleepCounted'
    BY <1>2, <2>4 DEF Publish, WGoto, CGoto, LastEnds, SleepCounted, ThreadTypes
  <2> QED
    BY <2>1, <2>2, <2>3, <2>5, <2>6, <2>7, <2>8, <2>9
<1>3. CASE WakeLook(c)
  <2>1. Flags'
    BY <1>3 DEF WakeLook, WGoto, CGoto, Flags
  <2>2. ThreadTypes'
    BY <1>3 DEF WakeLook, WGoto, CGoto, ThreadTypes, PoolTypes, InRunPc, Running
  <2>3. RunOwned'
    BY <1>3 DEF WakeLook, WGoto, CGoto, RunOwned, Published, ThreadTypes, PoolTypes,
       InRunPc, Running, Workers
  <2>4. Done' = Done /\ Asleep' = Asleep /\ Holders' = Holders
    BY <1>3 DEF WakeLook, WGoto, CGoto, Done, Asleep, Holders, ThreadTypes, TakenOnce
  <2>5. DoneCounted'
    BY <1>3, <2>4, CountedSets DEF WakeLook, WGoto, CGoto, DoneCounted, Open, RunOwned,
       ThreadTypes, PoolTypes, InRunPc, Running
  <2>6. TakenOnce'
    BY <1>3 DEF WakeLook, WGoto, CGoto, TakenOnce, ThreadTypes, DoneCounted, Done, Open,
       PoolTypes
  <2>7. Computed'
    BY <1>3, ComputedKept DEF WakeLook, WGoto, CGoto, Published, Had, ThreadTypes,
       RunOwned, TakenOnce, InRunPc, Running, Workers
  <2>8. PoolTypes'
    BY <1>3, <2>4, CountedSets DEF WakeLook, WGoto, CGoto, PoolTypes, Jobs, DoneCounted
  <2>9. LastEnds' /\ SleepCounted'
    BY <1>3, <2>4 DEF WakeLook, WGoto, CGoto, LastEnds, SleepCounted, ThreadTypes
  <2> QED
    BY <2>1, <2>2, <2>3, <2>5, <2>6, <2>7, <2>8, <2>9
<1>4. CASE Broadcast(c)
  <2>1. Flags'
    BY <1>4 DEF Broadcast, WGoto, CGoto, Flags
  <2>2. ThreadTypes'
    BY <1>4 DEF Broadcast, WGoto, CGoto, ThreadTypes, PoolTypes, InRunPc, Running
  <2>3. RunOwned'
    BY <1>4 DEF Broadcast, WGoto, CGoto, RunOwned, Published, ThreadTypes, PoolTypes,
       InRunPc, Running, Workers
  <2>4. Done' = Done /\ Asleep' = Asleep /\ Holders' = Holders
    BY <1>4 DEF Broadcast, WGoto, CGoto, Done, Asleep, Holders, ThreadTypes, TakenOnce
  <2>5. DoneCounted'
    BY <1>4, <2>4, CountedSets DEF Broadcast, WGoto, CGoto, DoneCounted, Open, RunOwned,
       ThreadTypes, PoolTypes, InRunPc, Running
  <2>6. TakenOnce'
    BY <1>4 DEF Broadcast, WGoto, CGoto, TakenOnce, ThreadTypes, DoneCounted, Done,
       Open, PoolTypes
  <2>7. Computed'
    BY <1>4, ComputedKept DEF Broadcast, WGoto, CGoto, Published, Had, ThreadTypes,
       RunOwned, TakenOnce, InRunPc, Running, Workers
  <2>8. PoolTypes'
    BY <1>4, <2>4, CountedSets DEF Broadcast, WGoto, CGoto, PoolTypes, Jobs, DoneCounted
  <2>9. LastEnds' /\ SleepCounted'
    BY <1>4, <2>4 DEF Broadcast, WGoto, CGoto, LastEnds, SleepCounted, ThreadTypes
  <2> QED
    BY <2>1, <2>2, <2>3, <2>5, <2>6, <2>7, <2>8, <2>9
<1>5. CASE OwnSlice(c)
  <2>1. Flags'
    BY <1>5 DEF OwnSlice, WGoto, CGoto, Flags
  <2>2. ThreadTypes'
    BY <1>5 DEF OwnSlice, WGoto, CGoto, ThreadTypes, PoolTypes, InRunPc, Running
  <2>3. RunOwned'
    BY <1>5 DEF OwnSlice, WGoto, CGoto, RunOwned, Published, ThreadTypes, PoolTypes,
       InRunPc, Running, Workers
  <2>4. Done' = Done /\ Asleep' = Asleep /\ Holders' = Holders
    BY <1>5 DEF OwnSlice, WGoto, CGoto, Done, Asleep, Holders, ThreadTypes, TakenOnce
  <2>5. DoneCounted'
    BY <1>5, <2>4, CountedSets DEF OwnSlice, WGoto, CGoto, DoneCounted, Open, RunOwned,
       ThreadTypes, PoolTypes, InRunPc, Running
  <2>6. TakenOnce'
    BY <1>5 DEF OwnSlice, WGoto, CGoto, TakenOnce, ThreadTypes, DoneCounted, Done, Open,
       PoolTypes
  <2>7. Computed'
    <3>1. run_mu = c /\ run_mu' = c /\ cpc'[c] = "await" /\ c # Nobody
      BY <1>5 DEF OwnSlice, CGoto, RunOwned, InRunPc, Running, ThreadTypes
    <3>2. Published /\ Published' /\ job.n \in Sizes /\ job' = job /\ Compute(0, job.n)
      BY <1>5, <3>1 DEF OwnSlice, Published, RunOwned
    <3>3. 0 \in 0 .. NThreads - 1 /\ ~Had(0) /\ Had(0)'
      BY <1>5, <3>1 DEF OwnSlice, Had
    <3>4. \A k \in 0 .. NThreads - 1 : k # 0 => (Had(k)' <=> Had(k))
      BY <1>5 DEF OwnSlice, Had
    <3> QED
      BY <3>2, <3>3, <3>4, ComputedOnce
  <2>8. PoolTypes'
    BY <1>5, <2>4, CountedSets DEF OwnSlice, WGoto, CGoto, PoolTypes, Jobs, DoneCounted
  <2>9. LastEnds' /\ SleepCounted'
    BY <1>5, <2>4 DEF OwnSlice, WGoto, CGoto, LastEnds, SleepCounted, ThreadTypes
  <2> QED
    BY <2>1, <2>2, <2>3, <2>5, <2>6, <2>7, <2>8, <2>9
<1>6. CASE AwaitDone(c)
  <2>1. Flags'
    BY <1>6 DEF AwaitDone, WGoto, CGoto, Flags
  <2>2. ThreadTypes'
    BY <1>6 DEF AwaitDone, WGoto, CGoto, ThreadTypes, PoolTypes, InRunPc, Running
  <2>3. RunOwned'
    BY <1>6 DEF AwaitDone, WGoto, CGoto, RunOwned, Published, ThreadTypes, PoolTypes,
       InRunPc, Running, Workers
  <2>4. Done' = Done /\ Asleep' = Asleep /\ Holders' = Holders
    BY <1>6 DEF AwaitDone, WGoto, CGoto, Done, Asleep, Holders, ThreadTypes, TakenOnce
  <2>5. DoneCounted'
    <3>1. Open
      BY <1>6 DEF AwaitDone, RunOwned, InRunPc, Running, Open
    <3>2. Done = Workers
      BY <1>6, <3>1, CountedSets DEF AwaitDone, AllDone, DoneCounted
    <3>3. ~Open'
      BY <1>6 DEF AwaitDone, CGoto, RunOwned, InRunPc, Running, Open, ThreadTypes
    <3> QED
      BY <2>4, <3>2, <3>3 DEF DoneCounted
  <2>6. TakenOnce'
    BY <1>6 DEF AwaitDone, WGoto, CGoto, TakenOnce, ThreadTypes, DoneCounted, Done,
       Open, PoolTypes
  <2>7. Computed'
    BY <1>6, ComputedKept DEF AwaitDone, WGoto, CGoto, Published, Had, ThreadTypes,
       RunOwned, TakenOnce, InRunPc, Running, Workers
  <2>8. PoolTypes'
    BY <1>6, <2>4, CountedSets DEF AwaitDone, WGoto, CGoto, PoolTypes, Jobs, DoneCounted
  <2>9. LastEnds' /\ SleepCounted'
    BY <1>6, <2>4 DEF AwaitDone, WGoto, CGoto, LastEnds, SleepCounted, ThreadTypes
  <2> QED
    BY <2>1, <2>2, <2>3, <2>5, <2>6, <2>7, <2>8, <2>9
<1>7. CASE AwaitPark(c)
  <2>1. Flags'
    BY <1>7 DEF AwaitPark, WGoto, CGoto, Flags
  <2>2. ThreadTypes'
    BY <1>7 DEF AwaitPark, WGoto, CGoto, ThreadTypes, PoolTypes, InRunPc, Running
  <2>3. RunOwned'
    BY <1>7 DEF AwaitPark, WGoto, CGoto, RunOwned, Published, ThreadTypes, PoolTypes,
       InRunPc, Running, Workers
  <2>4. Done' = Done /\ Asleep' = Asleep /\ Holders' = Holders
    BY <1>7 DEF AwaitPark, WGoto, CGoto, Done, Asleep, Holders, ThreadTypes, TakenOnce
  <2>5. DoneCounted'
    BY <1>7, <2>4, CountedSets DEF AwaitPark, WGoto, CGoto, DoneCounted, Open, RunOwned,
       ThreadTypes, PoolTypes, InRunPc, Running
  <2>6. TakenOnce'
    BY <1>7 DEF AwaitPark, WGoto, CGoto, TakenOnce, ThreadTypes, DoneCounted, Done,
       Open, PoolTypes
  <2>7. Computed'
    BY <1>7, ComputedKept DEF AwaitPark, WGoto, CGoto, Published, Had, ThreadTypes,
       RunOwned, TakenOnce, InRunPc, Running, Workers
  <2>8. PoolTypes'
    BY <1>7, <2>4, CountedSets DEF AwaitPark, WGoto, CGoto, PoolTypes, Jobs, DoneCounted
  <2>9. LastEnds' /\ SleepCounted'
    BY <1>7, <2>4 DEF AwaitPark, WGoto, CGoto, LastEnds, SleepCounted, ThreadTypes
  <2> QED
    BY <2>1, <2>2, <2>3, <2>5, <2>6, <2>7, <2>8, <2>9
<1>8. CASE AwaitLock(c)
  <2>1. Flags'
    BY <1>8 DEF AwaitLock, WGoto, CGoto, Flags
  <2>2. ThreadTypes'
    BY <1>8 DEF AwaitLock, WGoto, CGoto, ThreadTypes, PoolTypes, InRunPc, Running
  <2>3. RunOwned'
    BY <1>8 DEF AwaitLock, WGoto, CGoto, RunOwned, Published, ThreadTypes, PoolTypes,
       InRunPc, Running, Workers
  <2>4. Done' = Done /\ Asleep' = Asleep /\ Holders' = Holders
    BY <1>8 DEF AwaitLock, WGoto, CGoto, Done, Asleep, Holders, ThreadTypes, TakenOnce
  <2>5. DoneCounted'
    BY <1>8, <2>4, CountedSets DEF AwaitLock, WGoto, CGoto, DoneCounted, Open, RunOwned,
       ThreadTypes, PoolTypes, InRunPc, Running
  <2>6. TakenOnce'
    BY <1>8 DEF AwaitLock, WGoto, CGoto, TakenOnce, ThreadTypes, DoneCounted, Done,
       Open, PoolTypes
  <2>7. Computed'
    BY <1>8, ComputedKept DEF AwaitLock, WGoto, CGoto, Published, Had, ThreadTypes,
       RunOwned, TakenOnce, InRunPc, Running, Workers
  <2>8. PoolTypes'
    BY <1>8, <2>4, CountedSets DEF AwaitLock, WGoto, CGoto, PoolTypes, Jobs, DoneCounted
  <2>9. LastEnds' /\ SleepCounted'
    BY <1>8, <2>4 DEF AwaitLock, WGoto, CGoto, LastEnds, SleepCounted, ThreadTypes
  <2> QED
    BY <2>1, <2>2, <2>3, <2>5, <2>6, <2>7, <2>8, <2>9
<1>9. CASE AwaitLook(c)
  <2>1. Flags'
    BY <1>9 DEF AwaitLook, WGoto, CGoto, Flags
  <2>2. ThreadTypes'
    BY <1>9 DEF AwaitLook, WGoto, CGoto, ThreadTypes, PoolTypes, InRunPc, Running
  <2>3. RunOwned'
    BY <1>9 DEF AwaitLook, WGoto, CGoto, RunOwned, Published, ThreadTypes, PoolTypes,
       InRunPc, Running, Workers
  <2>4. Done' = Done /\ Asleep' = Asleep /\ Holders' = Holders
    BY <1>9 DEF AwaitLook, WGoto, CGoto, Done, Asleep, Holders, ThreadTypes, TakenOnce
  <2>5. DoneCounted'
    <3>1. run_mu = c /\ run_mu' = c /\ c # Nobody /\ Open
      BY <1>9 DEF AwaitLook, RunOwned, InRunPc, Running, Open
    <3>2. CASE AllDone
      <4>1. Done = Workers
        BY <3>1, <3>2, CountedSets DEF AllDone, DoneCounted
      <4>2. ~Open'
        BY <1>9, <3>1, <3>2 DEF AwaitLook, CGoto, Running, Open, ThreadTypes
      <4> QED
        BY <2>4, <4>1, <4>2 DEF DoneCounted
    <3>3. CASE ~AllDone
      <4>1. Open' /\ n_done' = n_done
        BY <1>9, <3>1, <3>3 DEF AwaitLook, CGoto, Running, Open, ThreadTypes
      <4> QED
        BY <2>4, <3>1, <4>1 DEF DoneCounted
    <3> QED
      BY <3>2, <3>3
  <2>6. TakenOnce'
    BY <1>9 DEF AwaitLook, WGoto, CGoto, TakenOnce, ThreadTypes, DoneCounted, Done,
       Open, PoolTypes
  <2>7. Computed'
    BY <1>9, ComputedKept DEF AwaitLook, WGoto, CGoto, Published, Had, ThreadTypes,
       RunOwned, TakenOnce, InRunPc, Running, Workers
  <2>8. PoolTypes'
    BY <1>9, <2>4, CountedSets DEF AwaitLook, WGoto, CGoto, PoolTypes, Jobs, DoneCounted
  <2>9. LastEnds' /\ SleepCounted'
    BY <1>9, <2>4 DEF AwaitLook, WGoto, CGoto, LastEnds, SleepCounted, ThreadTypes
  <2> QED
    BY <2>1, <2>2, <2>3, <2>5, <2>6, <2>7, <2>8, <2>9
<1>10. CASE AwaitWake(c)
  <2>1. Flags'
    BY <1>10 DEF AwaitWake, WGoto, CGoto, Flags
  <2>2. ThreadTypes'
    BY <1>10 DEF AwaitWake, WGoto, CGoto, ThreadTypes, PoolTypes, InRunPc, Running
  <2>3. RunOwned'
    BY <1>10 DEF AwaitWake, WGoto, CGoto, RunOwned, Published, ThreadTypes, PoolTypes,
       InRunPc, Running, Workers
  <2>4. Done' = Done /\ Asleep' = Asleep /\ Holders' = Holders
    BY <1>10 DEF AwaitWake, WGoto, CGoto, Done, Asleep, Holders, ThreadTypes, TakenOnce
  <2>5. DoneCounted'
    BY <1>10, <2>4, CountedSets DEF AwaitWake, WGoto, CGoto, DoneCounted, Open,
       RunOwned, ThreadTypes, PoolTypes, InRunPc, Running
  <2>6. TakenOnce'
    BY <1>10 DEF AwaitWake, WGoto, CGoto, TakenOnce, ThreadTypes, DoneCounted, Done,
       Open, PoolTypes
  <2>7. Computed'
    BY <1>10, ComputedKept DEF AwaitWake, WGoto, CGoto, Published, Had, ThreadTypes,
       RunOwned, TakenOnce, InRunPc, Running, Workers
  <2>8. PoolTypes'
    BY <1>10, <2>4, CountedSets DEF AwaitWake, WGoto, CGoto, PoolTypes, Jobs,
       DoneCounted
  <2>9. LastEnds' /\ SleepCounted'
    BY <1>10, <2>4 DEF AwaitWake, WGoto, CGoto, LastEnds, SleepCounted, ThreadTypes
  <2> QED
    BY <2>1, <2>2, <2>3, <2>5, <2>6, <2>7, <2>8, <2>9
<1>11. CASE RunUnlock(c)
  <2>1. Flags'
    BY <1>11 DEF RunUnlock, WGoto, CGoto, Flags
  <2>2. ThreadTypes'
    BY <1>11 DEF RunUnlock, WGoto, CGoto, ThreadTypes, PoolTypes, InRunPc, Running
  <2>3. RunOwned'
    BY <1>11 DEF RunUnlock, WGoto, CGoto, RunOwned, Published, ThreadTypes, PoolTypes,
       InRunPc, Running, Workers
  <2>4. Done' = Done /\ Asleep' = Asleep /\ Holders' = Holders
    BY <1>11 DEF RunUnlock, WGoto, CGoto, Done, Asleep, Holders, ThreadTypes, TakenOnce
  <2>5. DoneCounted'
    BY <1>11, <2>4, CountedSets DEF RunUnlock, WGoto, CGoto, DoneCounted, Open,
       RunOwned, ThreadTypes, PoolTypes, InRunPc, Running
  <2>6. TakenOnce'
    BY <1>11 DEF RunUnlock, WGoto, CGoto, TakenOnce, ThreadTypes, DoneCounted, Done,
       Open, PoolTypes
  <2>7. Computed'
    BY <1>11, ComputedKept DEF RunUnlock, WGoto, CGoto, Published, Had, ThreadTypes,
       RunOwned, TakenOnce, InRunPc, Running, Workers
  <2>8. PoolTypes'
    BY <1>11, <2>4, CountedSets DEF RunUnlock, WGoto, CGoto, PoolTypes, Jobs,
       DoneCounted
  <2>9. LastEnds' /\ SleepCounted'
    BY <1>11, <2>4 DEF RunUnlock, WGoto, CGoto, LastEnds, SleepCounted, ThreadTypes
  <2> QED
    BY <2>1, <2>2, <2>3, <2>5, <2>6, <2>7, <2>8, <2>9
<1> QED
  BY <1>1, <1>2, <1>3, <1>4, <1>5, <1>6, <1>7, <1>8, <1>9, <1>10, <1>11
-----------------------------------------------------------------------------
\* The holders let go, the last one destroys.
LEMMA DestroyInv ==
    ASSUME IInv, NEW c \in Callers,
           LetGo(c) \/ StopPool(c) \/ JoinAndFree(c)
    PROVE  IInv'
<1> USE TPoolAssumption DEF IInv, poolVars, lockVars, workerVars
<1>1. CASE LetGo(c)
  <2>1. Flags'
    BY <1>1 DEF LetGo, WGoto, CGoto, Flags
  <2>2. ThreadTypes'
    BY <1>1 DEF LetGo, WGoto, CGoto, ThreadTypes, PoolTypes, InRunPc, Running
  <2>3. RunOwned'
    BY <1>1 DEF LetGo, WGoto, CGoto, RunOwned, Published, ThreadTypes, PoolTypes,
       InRunPc, Running, Workers
  <2>4. Done' = Done /\ Asleep' = Asleep /\ Holders' = Holders \ {c}
    BY <1>1 DEF LetGo, WGoto, CGoto, Done, Asleep, Holders, ThreadTypes, TakenOnce
  <2>5. DoneCounted'
    BY <1>1, <2>4, CountedSets DEF LetGo, WGoto, CGoto, DoneCounted, Open, RunOwned,
       ThreadTypes, PoolTypes, InRunPc, Running
  <2>6. TakenOnce'
    BY <1>1 DEF LetGo, WGoto, CGoto, TakenOnce, ThreadTypes, DoneCounted, Done, Open,
       PoolTypes
  <2>7. Computed'
    BY <1>1, ComputedKept DEF LetGo, WGoto, CGoto, Published, Had, ThreadTypes,
       RunOwned, TakenOnce, InRunPc, Running, Workers
  <2>8. PoolTypes'
    BY <1>1, <2>4, CountedSets DEF LetGo, WGoto, CGoto, PoolTypes, Jobs, DoneCounted
  <2>9. LastEnds' /\ SleepCounted'
    <3>1. c \in Holders
      BY <1>1 DEF LetGo, Holders
    <3>2. Cardinality(Holders \ {c}) = Cardinality(Holders) - 1
      BY <3>1, CountedSets, OneFewer
    <3>3. refs' = Cardinality(Holders')
      BY <1>1, <2>4, <3>2 DEF LetGo, LastEnds
    <3>4. ~stop /\ ~freed /\ \A d \in Callers : cpc[d] \notin {"stop", "join"}
      BY <1>1 DEF LetGo, LastEnds
    <3>5. refs <= 1 => \A d \in Callers : d # c => cpc[d] = "gone"
      <4>1. refs <= 1 => Holders \ {c} = {}
        <5>1. refs <= 1 => Cardinality(Holders \ {c}) = 0
          BY <3>1, <3>2, CountedSets, FS_EmptySet DEF LastEnds
        <5>2. IsFiniteSet(Holders \ {c})
          BY CountedSets, FS_RemoveElement
        <5> QED
          BY <5>1, <5>2, FS_EmptySet
      <4> QED
        BY <3>4, <4>1 DEF Holders, ThreadTypes
    <3>6. LastEnds'
      BY <1>1, <3>3, <3>4, <3>5, CountedSets DEF LetGo, CGoto, LastEnds, ThreadTypes
    <3> QED
      BY <1>1, <2>4, <3>6 DEF LetGo, SleepCounted
  <2> QED
    BY <2>1, <2>2, <2>3, <2>5, <2>6, <2>7, <2>8, <2>9
<1>2. CASE StopPool(c)
  <2>1. Flags'
    BY <1>2 DEF StopPool, WGoto, CGoto, Flags
  <2>2. ThreadTypes'
    BY <1>2 DEF StopPool, WGoto, CGoto, ThreadTypes, PoolTypes, InRunPc, Running
  <2>3. RunOwned'
    BY <1>2 DEF StopPool, WGoto, CGoto, RunOwned, Published, ThreadTypes, PoolTypes,
       InRunPc, Running, Workers
  <2>4. Done' = Done /\ Asleep' = Asleep /\ Holders' = Holders
    BY <1>2 DEF StopPool, WGoto, CGoto, Done, Asleep, Holders, ThreadTypes, TakenOnce
  <2>5. DoneCounted'
    BY <1>2, <2>4, CountedSets DEF StopPool, WGoto, CGoto, DoneCounted, Open, RunOwned,
       ThreadTypes, PoolTypes, InRunPc, Running
  <2>6. TakenOnce'
    BY <1>2 DEF StopPool, WGoto, CGoto, TakenOnce, ThreadTypes, DoneCounted, Done, Open,
       PoolTypes
  <2>7. Computed'
    BY <1>2, ComputedKept DEF StopPool, WGoto, CGoto, Published, Had, ThreadTypes,
       RunOwned, TakenOnce, InRunPc, Running, Workers
  <2>8. PoolTypes'
    BY <1>2, <2>4, CountedSets DEF StopPool, WGoto, CGoto, PoolTypes, Jobs, DoneCounted
  <2>9. LastEnds' /\ SleepCounted'
    BY <1>2, <2>4 DEF StopPool, WGoto, CGoto, LastEnds, SleepCounted, ThreadTypes
  <2> QED
    BY <2>1, <2>2, <2>3, <2>5, <2>6, <2>7, <2>8, <2>9
<1>3. CASE JoinAndFree(c)
  <2>1. Flags'
    BY <1>3 DEF JoinAndFree, WGoto, CGoto, Flags
  <2>2. ThreadTypes'
    BY <1>3 DEF JoinAndFree, WGoto, CGoto, ThreadTypes, PoolTypes, InRunPc, Running
  <2>3. RunOwned'
    BY <1>3 DEF JoinAndFree, WGoto, CGoto, RunOwned, Published, ThreadTypes, PoolTypes,
       InRunPc, Running, Workers
  <2>4. Done' = Done /\ Asleep' = Asleep /\ Holders' = Holders
    BY <1>3 DEF JoinAndFree, WGoto, CGoto, Done, Asleep, Holders, ThreadTypes, TakenOnce
  <2>5. DoneCounted'
    BY <1>3, <2>4, CountedSets DEF JoinAndFree, WGoto, CGoto, DoneCounted, Open,
       RunOwned, ThreadTypes, PoolTypes, InRunPc, Running
  <2>6. TakenOnce'
    BY <1>3 DEF JoinAndFree, WGoto, CGoto, TakenOnce, ThreadTypes, DoneCounted, Done,
       Open, PoolTypes
  <2>7. Computed'
    BY <1>3, ComputedKept DEF JoinAndFree, WGoto, CGoto, Published, Had, ThreadTypes,
       RunOwned, TakenOnce, InRunPc, Running, Workers
  <2>8. PoolTypes'
    BY <1>3, <2>4, CountedSets DEF JoinAndFree, WGoto, CGoto, PoolTypes, Jobs,
       DoneCounted
  <2>9. LastEnds' /\ SleepCounted'
    BY <1>3, <2>4 DEF JoinAndFree, WGoto, CGoto, LastEnds, SleepCounted, ThreadTypes
  <2> QED
    BY <2>1, <2>2, <2>3, <2>5, <2>6, <2>7, <2>8, <2>9
<1> QED
  BY <1>1, <1>2, <1>3
-----------------------------------------------------------------------------
LEMMA NextInv == IInv /\ [Next]_vars => IInv'
<1> SUFFICES ASSUME IInv, [Next]_vars PROVE IInv'
  OBVIOUS
<1>1. ASSUME NEW w \in Workers, Worker(w) \/ Park(w) \/ SpuriousWork(w) PROVE IInv'
  BY <1>1, ParkInv, WorkInv DEF Worker
<1>2. ASSUME NEW c \in Callers, InRun(c) \/ RunLock(c) \/ AwaitPark(c) \/ LetGo(c) PROVE IInv'
  BY <1>2, RunInv, DestroyInv DEF InRun
<1>3. CASE UNCHANGED vars
  <2>1. UNCHANGED <<gen, n_done, n_sleeping, caller_parked, stop, refs, job, run_mu, mu,
                    workWait, doneWait, wpc, seen, wjob, cpc, computed, freed>>
    BY <1>3 DEF vars, poolVars, lockVars, workerVars
  <2>2. PoolTypes' /\ Flags' /\ ThreadTypes' /\ RunOwned'
    BY <2>1 DEF IInv, PoolTypes, Flags, ThreadTypes, RunOwned, Published
  <2>3. DoneCounted' /\ TakenOnce' /\ Computed'
    BY <2>1 DEF IInv, DoneCounted, Done, Open, TakenOnce, Computed, Published, Had
  <2>4. LastEnds' /\ SleepCounted'
    BY <2>1 DEF IInv, LastEnds, Holders, SleepCounted, Asleep
  <2> QED
    BY <2>2, <2>3, <2>4 DEF IInv
<1> QED
  BY <1>1, <1>2, <1>3 DEF Next, Finished

LEMMA InvHolds == Spec => []IInv
BY InitInv, NextInv, PTL DEF Spec, SafeSpec

\* The pool's counters never leave their ranges: n_done and n_sleeping count at most
\* the workers, refs at most the holders.
THEOREM TPoolTypes == Spec => []TypeOK
<1>1. IInv => TypeOK
  BY CountedSets DEF IInv, PoolTypes, Flags, ThreadTypes, InRunPc, Running, Jobs,
     SleepCounted, LastEnds, TypeOK
<1> QED
  BY <1>1, InvHolds, PTL

\* tpool_run returns with every item computed exactly once and with no worker in fn
\* or about to enter it; no worker computes with another run's context.
THEOREM TPoolJobWhole == Spec => []JobWhole
<1>1. ASSUME IInv, NEW c \in Callers, cpc[c] = "unlock"
      PROVE  /\ \A i \in DOMAIN computed : computed[i] = 1
             /\ \A w \in Workers : wpc[w] \notin {"work", "count"} /\ seen[w] = gen
  <2>1. run_mu = c /\ Published /\ ~Open /\ job.n \in Sizes
    BY <1>1, TPoolAssumption DEF IInv, RunOwned, InRunPc, Published, Open, Running
  <2>2. Done = Workers
    BY <1>1, <2>1 DEF IInv, DoneCounted
  <2>3. \A idx \in 0 .. NThreads - 1 : Had(idx)
    BY <1>1, <2>1, <2>2, TPoolAssumption DEF Had, Done, Workers
  <2>4. job.n \in Nat /\ job.n # 0 /\ job.n # 1
    BY <2>1, TPoolAssumption
  <2>5. ASSUME NEW i \in DOMAIN computed PROVE computed[i] = 1
    <3>1. i \in 0 .. job.n - 1
      BY <1>1, <2>1 DEF IInv, Computed
    <3>2. PICK idx \in 0 .. NThreads - 1 : i \in Slice(idx, job.n)
      BY <2>4, <3>1, SlicesCover
    <3> QED
      BY <1>1, <2>1, <2>3, <3>1, <3>2 DEF IInv, Computed
  <2> QED
    BY <2>2, <2>5 DEF Done
<1>2. ASSUME IInv, NEW w \in Workers, wpc[w] = "work"
      PROVE  wjob[w] = job /\ run_mu = job.of
  <2>1. w \notin Done /\ wjob[w] = job
    BY <1>2 DEF IInv, Done, TakenOnce
  <2>2. Published
    BY <1>2, <2>1 DEF IInv, DoneCounted, Open, Published, Running
  <2> QED
    BY <1>2, <2>1, <2>2 DEF IInv, RunOwned
<1>3. IInv => JobWhole
  BY <1>1, <1>2 DEF JobWhole
<1> QED
  BY <1>3, InvHolds, PTL

\* tpool_destroy stops the workers when the last holder let go, and frees the pool
\* when they have gone: nobody is in a run, nobody holds it.
THEOREM TPoolFreedUnused == Spec => []FreedUnused
<1>1. IInv => FreedUnused
  BY TPoolAssumption DEF IInv, LastEnds, RunOwned, PoolTypes, InRunPc, Running, FreedUnused
<1> QED
  BY <1>1, InvHolds, PTL
=============================================================================
