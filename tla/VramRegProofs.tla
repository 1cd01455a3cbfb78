---------------------------- MODULE VramRegProofs ----------------------------
(***************************************************************************)
(* The VRAM ledger for any number of runners, claims, kills and recycled   *)
(* pids and every table size: a lease stays recorded while it is held, no  *)
(* entry of a live runner outlives its claim, no waiter marker outlives    *)
(* its wait, no queued claim is overtaken by a lower one, a claim is       *)
(* admitted only beside all that is in use or pledged, and pledges fall    *)
(* short by no more than what is overdrawn (the sums by SetLemmas).        *)
(***************************************************************************)
EXTENDS VramReg, SetLemmas, TLAPS

\* The types that matter to the identity of entries; those of bytes are TypeOK's.
LedgerTypes ==
    /\ \A e \in ledger : /\ e = [claim |-> e.claim, inc |-> e.inc,
                                 state |-> e.state, bytes |-> e.bytes]
                         /\ e.claim \in Claims /\ e.inc \in Nat
                         /\ e.state \in {"P", "C", "W"}
    /\ pc \in [Claims -> {"idle", "poll", "queued", "giveUp", "refused", "claimed",
                          "allocated", "committed", "freed", "bare", "bareUp"}]
    /\ DOMAIN queues = Claims /\ DOMAIN ask = Claims
    /\ DOMAIN alive = Procs
    /\ inc \in [Procs -> Nat]

\* The entries of a pid are those of its present incarnation or of earlier ones,
\* and only a live process has loads under way.
Incarnations ==
    /\ \A e \in ledger : e.inc <= inc[Owner[e.claim]]
    /\ \A c \in Claims : alive[Owner[c]] \/ pc[c] = "idle"

\* An entry of a live runner belongs to a call or a lease under way.
EntriesCurrent ==
    \A e \in Reap(ledger) :
        /\ e.state = "W" => /\ queues[e.claim] /\ pc[e.claim] \in {"poll", "queued", "giveUp"}
                            /\ e.bytes = ask[e.claim]
        /\ e.state = "P" => /\ pc[e.claim] \in {"claimed", "allocated", "giveUp"}
                            /\ pc[e.claim] # "giveUp" => e.bytes = ask[e.claim]
        /\ e.state = "C" => pc[e.claim] \in {"committed", "freed"} /\ e.bytes = 0

\* A lease that is held is recorded.
LeasesRecorded ==
    \A c \in Claims :
        /\ pc[c] \in {"claimed", "allocated"} => Entry(c, "P", ask[c]) \in ledger
        /\ pc[c] = "committed" => Committed(c) \in ledger

\* The poll that left a claim queued has reaped the entries of earlier
\* incarnations of its pid.
QueuedFresh ==
    \A e \in ledger : pc[e.claim] = "queued" => e.inc = inc[Owner[e.claim]]

IInv == LedgerTypes /\ Incarnations /\ EntriesCurrent /\ LeasesRecorded /\ QueuedFresh
-----------------------------------------------------------------------------
LEMMA InitInv == Init => IInv
BY VramRegAssumption DEF Init, IInv, LedgerTypes, Incarnations, EntriesCurrent, Reap,
   LeasesRecorded, QueuedFresh

-----------------------------------------------------------------------------
\* A call of vram_claim: its polls, its wait and its rollback.
LEMMA ClaimInv ==
    ASSUME IInv, NEW c \in Claims,
           Ask(c) \/ Admit(c) \/ Defer(c) \/ Repoll(c) \/ StopWaiting(c) \/ Rollback(c) \/
              LeaseFail(c)
    PROVE  IInv'
<1> USE VramRegAssumption DEF IInv, callVars
<1>1. CASE Ask(c)
  <2>1. LedgerTypes'
    BY <1>1 DEF Ask, LedgerTypes, Reap
  <2>2. Incarnations'
    BY <1>1 DEF Ask, LedgerTypes, Incarnations, Reap
  <2>3. EntriesCurrent'
    BY <1>1 DEF Ask, LedgerTypes, Incarnations, EntriesCurrent, Reap
  <2>4. LeasesRecorded'
    BY <1>1 DEF Ask, LedgerTypes, Incarnations, LeasesRecorded, Entry, Committed, Reap
  <2>5. QueuedFresh'
    BY <1>1 DEF Ask, LedgerTypes, QueuedFresh, Reap
  <2> QED
    BY <2>1, <2>2, <2>3, <2>4, <2>5
<1>2. CASE Admit(c)
  <2>1. LedgerTypes'
    BY <1>2 DEF Admit, Seen, Entry, Status, LedgerTypes, Reap
  <2>2. Incarnations'
    BY <1>2 DEF Admit, Seen, Entry, Status, LedgerTypes, Incarnations, Reap
  <2>3. EntriesCurrent'
    BY <1>2 DEF Admit, Seen, Entry, Status, LedgerTypes, Incarnations, EntriesCurrent,
       Reap
  <2>4. LeasesRecorded'
    BY <1>2 DEF Admit, Seen, Entry, Status, LedgerTypes, Incarnations, LeasesRecorded,
       Entry, Committed, Reap
  <2>5. QueuedFresh'
    BY <1>2 DEF Admit, Seen, Entry, Status, LedgerTypes, QueuedFresh, Reap
  <2> QED
    BY <2>1, <2>2, <2>3, <2>4, <2>5
<1>3. CASE Defer(c)
  <2>1. LedgerTypes'
    BY <1>3 DEF Defer, Seen, Entry, Status, LedgerTypes, Reap
  <2>2. Incarnations'
    BY <1>3 DEF Defer, Seen, Entry, Status, LedgerTypes, Incarnations, Reap
  <2>3. EntriesCurrent'
    <3>1. UNCHANGED <<alive, inc, ask, queues>> /\ pc[c] = "poll"
      BY <1>3 DEF Defer
    <3>2. /\ pc'[c] \in {"refused", "giveUp", "queued"} /\ (pc'[c] = "refused" => ~queues[c])
          /\ \A d \in Claims : d # c => pc'[d] = pc[d]
      BY <1>3 DEF Defer, LedgerTypes
    <3>3. \A e \in ledger' : \/ e \in Reap(ledger) /\ ~(queues[c] /\ e.state = "W" /\ e.claim = c)
                             \/ queues[c] /\ e = Entry(c, "W", ask[c])
      <4>1. \A e \in ledger' : e \in Seen(c) \/ (queues[c] /\ e = Entry(c, "W", ask[c]))
        BY <1>3 DEF Defer
      <4>2. \A e \in Seen(c) : e \in Reap(ledger) /\ ~(queues[c] /\ e.state = "W" /\ e.claim = c)
        BY DEF Seen, Reap
      <4> QED
        BY <4>1, <4>2
    <3>4. \A e \in Reap(ledger) :
             e.claim \in Claims /\ (e.claim = c => e.state = "W" /\ queues[c])
      BY <3>1 DEF EntriesCurrent, LedgerTypes, Reap
    <3>5. ASSUME NEW e \in ledger', e \in Reap(ledger), e.claim # c
          PROVE  /\ e.state = "W" => /\ queues'[e.claim] /\ e.bytes = ask'[e.claim]
                                     /\ pc'[e.claim] \in {"poll", "queued", "giveUp"}
                 /\ e.state = "P" => /\ pc'[e.claim] \in {"claimed", "allocated", "giveUp"}
                                     /\ pc'[e.claim] # "giveUp" => e.bytes = ask'[e.claim]
                 /\ e.state = "C" => pc'[e.claim] \in {"committed", "freed"} /\ e.bytes = 0
      BY <3>1, <3>2, <3>4, <3>5 DEF EntriesCurrent
    <3>6. ASSUME NEW e \in ledger', queues[c], e = Entry(c, "W", ask[c])
          PROVE  /\ e.state = "W" /\ queues'[e.claim] /\ e.bytes = ask'[e.claim]
                 /\ pc'[e.claim] \in {"poll", "queued", "giveUp"}
      BY <3>1, <3>2, <3>6 DEF Entry
    <3>7. \A e \in Reap(ledger)' : e \in ledger'
      BY DEF Reap
    <3>8. \A e \in ledger' : \/ e \in Reap(ledger) /\ e.claim # c
                             \/ queues[c] /\ e = Entry(c, "W", ask[c])
      BY <3>3, <3>4
    <3> QED
      BY <3>5, <3>6, <3>7, <3>8 DEF EntriesCurrent
  <2>4. LeasesRecorded'
    BY <1>3 DEF Defer, Seen, Entry, Status, LedgerTypes, Incarnations, LeasesRecorded,
       Entry, Committed, Reap
  <2>5. QueuedFresh'
    BY <1>3 DEF Defer, Seen, Entry, Status, LedgerTypes, QueuedFresh, Reap
  <2> QED
    BY <2>1, <2>2, <2>3, <2>4, <2>5
<1>4. CASE Repoll(c)
  <2>1. LedgerTypes'
    BY <1>4 DEF Repoll, LedgerTypes, Reap
  <2>2. Incarnations'
    BY <1>4 DEF Repoll, LedgerTypes, Incarnations, Reap
  <2>3. EntriesCurrent'
    BY <1>4 DEF Repoll, LedgerTypes, Incarnations, EntriesCurrent, Reap
  <2>4. LeasesRecorded'
    BY <1>4 DEF Repoll, LedgerTypes, Incarnations, LeasesRecorded, Entry, Committed,
       Reap
  <2>5. QueuedFresh'
    BY <1>4 DEF Repoll, LedgerTypes, QueuedFresh, Reap
  <2> QED
    BY <2>1, <2>2, <2>3, <2>4, <2>5
<1>5. CASE StopWaiting(c)
  <2>1. LedgerTypes'
    BY <1>5 DEF StopWaiting, LedgerTypes, Reap
  <2>2. Incarnations'
    BY <1>5 DEF StopWaiting, LedgerTypes, Incarnations, Reap
  <2>3. EntriesCurrent'
    BY <1>5 DEF StopWaiting, LedgerTypes, Incarnations, EntriesCurrent, Reap
  <2>4. LeasesRecorded'
    BY <1>5 DEF StopWaiting, LedgerTypes, Incarnations, LeasesRecorded, Entry,
       Committed, Reap
  <2>5. QueuedFresh'
    BY <1>5 DEF StopWaiting, LedgerTypes, QueuedFresh, Reap
  <2> QED
    BY <2>1, <2>2, <2>3, <2>4, <2>5
<1>6. CASE Rollback(c)
  <2>1. LedgerTypes'
    BY <1>6 DEF Rollback, Without, LedgerTypes, Reap
  <2>2. Incarnations'
    BY <1>6 DEF Rollback, Without, LedgerTypes, Incarnations, Reap
  <2>3. EntriesCurrent'
    BY <1>6 DEF Rollback, Without, LedgerTypes, Incarnations, EntriesCurrent, Reap
  <2>4. LeasesRecorded'
    BY <1>6 DEF Rollback, Without, LedgerTypes, Incarnations, LeasesRecorded, Entry,
       Committed, Reap
  <2>5. QueuedFresh'
    BY <1>6 DEF Rollback, Without, LedgerTypes, QueuedFresh, Reap
  <2> QED
    BY <2>1, <2>2, <2>3, <2>4, <2>5
<1>7. CASE LeaseFail(c)
  <2>1. LedgerTypes'
    BY <1>7 DEF LeaseFail, LedgerTypes, Reap
  <2>2. Incarnations'
    BY <1>7 DEF LeaseFail, LedgerTypes, Incarnations, Reap
  <2>3. EntriesCurrent'
    BY <1>7 DEF LeaseFail, LedgerTypes, Incarnations, EntriesCurrent, Reap
  <2>4. LeasesRecorded'
    BY <1>7 DEF LeaseFail, LedgerTypes, Incarnations, LeasesRecorded, Entry, Committed,
       Reap
  <2>5. QueuedFresh'
    BY <1>7 DEF LeaseFail, LedgerTypes, QueuedFresh, Reap
  <2> QED
    BY <2>1, <2>2, <2>3, <2>4, <2>5
<1> QED
  BY <1>1, <1>2, <1>3, <1>4, <1>5, <1>6, <1>7
-----------------------------------------------------------------------------
\* A lease, from the allocation to the release.
LEMMA LeaseInv ==
    ASSUME IInv, NEW c \in Claims,
           Allocate(c) \/ Commit(c) \/ Resize(c) \/ FreeMemory(c) \/ Release(c)
    PROVE  IInv'
<1> USE VramRegAssumption DEF IInv, callVars
<1>1. CASE Allocate(c)
  <2>1. LedgerTypes'
    BY <1>1 DEF Allocate, Returned, LedgerTypes, Reap
  <2>2. Incarnations'
    BY <1>1 DEF Allocate, Returned, LedgerTypes, Incarnations, Reap
  <2>3. EntriesCurrent'
    BY <1>1 DEF Allocate, Returned, LedgerTypes, Incarnations, EntriesCurrent, Reap
  <2>4. LeasesRecorded'
    BY <1>1 DEF Allocate, Returned, LedgerTypes, Incarnations, LeasesRecorded, Entry,
       Committed, Reap
  <2>5. QueuedFresh'
    BY <1>1 DEF Allocate, Returned, LedgerTypes, QueuedFresh, Reap
  <2> QED
    BY <2>1, <2>2, <2>3, <2>4, <2>5
<1>2. CASE Commit(c)
  <2>1. LedgerTypes'
    BY <1>2 DEF Commit, Committed, Entry, LedgerTypes, Reap
  <2>2. Incarnations'
    BY <1>2 DEF Commit, Committed, Entry, LedgerTypes, Incarnations, Reap
  <2>3. EntriesCurrent'
    BY <1>2 DEF Commit, Committed, Entry, LedgerTypes, Incarnations, EntriesCurrent,
       Reap
  <2>4. LeasesRecorded'
    BY <1>2 DEF Commit, Committed, Entry, LedgerTypes, Incarnations, LeasesRecorded,
       Entry, Committed, Reap
  <2>5. QueuedFresh'
    BY <1>2 DEF Commit, Committed, Entry, LedgerTypes, QueuedFresh, Reap
  <2> QED
    BY <2>1, <2>2, <2>3, <2>4, <2>5
<1>3. CASE FreeMemory(c)
  <2>1. LedgerTypes'
    BY <1>3 DEF FreeMemory, LedgerTypes, Reap
  <2>2. Incarnations'
    BY <1>3 DEF FreeMemory, LedgerTypes, Incarnations, Reap
  <2>3. EntriesCurrent'
    BY <1>3 DEF FreeMemory, LedgerTypes, Incarnations, EntriesCurrent, Reap
  <2>4. LeasesRecorded'
    BY <1>3 DEF FreeMemory, LedgerTypes, Incarnations, LeasesRecorded, Entry, Committed,
       Reap
  <2>5. QueuedFresh'
    BY <1>3 DEF FreeMemory, LedgerTypes, QueuedFresh, Reap
  <2> QED
    BY <2>1, <2>2, <2>3, <2>4, <2>5
<1>4. CASE Release(c)
  <2>1. LedgerTypes'
    BY <1>4 DEF Release, Without, Over, LedgerTypes, Reap
  <2>2. Incarnations'
    BY <1>4 DEF Release, Without, Over, LedgerTypes, Incarnations, Reap
  <2>3. EntriesCurrent'
    BY <1>4 DEF Release, Without, Over, LedgerTypes, Incarnations, EntriesCurrent, Reap
  <2>4. LeasesRecorded'
    BY <1>4 DEF Release, Without, Over, LedgerTypes, Incarnations, LeasesRecorded,
       Entry, Committed, Reap
  <2>5. QueuedFresh'
    BY <1>4 DEF Release, Without, Over, LedgerTypes, QueuedFresh, Reap
  <2> QED
    BY <2>1, <2>2, <2>3, <2>4, <2>5
<1>5. CASE Resize(c)
  <2>1. LedgerTypes'
    BY <1>5 DEF Resize, LedgerTypes, Reap
  <2>2. Incarnations'
    BY <1>5 DEF Resize, LedgerTypes, Incarnations, Reap
  <2>3. EntriesCurrent'
    BY <1>5 DEF Resize, LedgerTypes, Incarnations, EntriesCurrent, Reap
  <2>4. LeasesRecorded'
    BY <1>5 DEF Resize, LedgerTypes, Incarnations, LeasesRecorded, Entry, Committed, Reap
  <2>5. QueuedFresh'
    BY <1>5 DEF Resize, LedgerTypes, QueuedFresh, Reap
  <2> QED
    BY <2>1, <2>2, <2>3, <2>4, <2>5
<1> QED
  BY <1>1, <1>2, <1>3, <1>4, <1>5
-----------------------------------------------------------------------------
\* What model_vram_claim does after a refusal.
LEMMA RefusedInv ==
    ASSUME IInv, NEW c \in Claims,
           LoadRefused(c) \/ ClaimSpare(c) \/ LoadBare(c) \/ AllocateBare(c) \/ FreeBare(c)
    PROVE  IInv'
<1> USE VramRegAssumption DEF IInv, callVars
<1>1. CASE LoadRefused(c)
  <2>1. LedgerTypes'
    BY <1>1 DEF LoadRefused, Over, LedgerTypes, Reap
  <2>2. Incarnations'
    BY <1>1 DEF LoadRefused, Over, LedgerTypes, Incarnations, Reap
  <2>3. EntriesCurrent'
    BY <1>1 DEF LoadRefused, Over, LedgerTypes, Incarnations, EntriesCurrent, Reap
  <2>4. LeasesRecorded'
    BY <1>1 DEF LoadRefused, Over, LedgerTypes, Incarnations, LeasesRecorded, Entry,
       Committed, Reap
  <2>5. QueuedFresh'
    BY <1>1 DEF LoadRefused, Over, LedgerTypes, QueuedFresh, Reap
  <2> QED
    BY <2>1, <2>2, <2>3, <2>4, <2>5
<1>2. CASE ClaimSpare(c)
  <2>1. LedgerTypes'
    BY <1>2 DEF ClaimSpare, LedgerTypes, Reap
  <2>2. Incarnations'
    BY <1>2 DEF ClaimSpare, LedgerTypes, Incarnations, Reap
  <2>3. EntriesCurrent'
    BY <1>2 DEF ClaimSpare, LedgerTypes, Incarnations, EntriesCurrent, Reap
  <2>4. LeasesRecorded'
    BY <1>2 DEF ClaimSpare, LedgerTypes, Incarnations, LeasesRecorded, Entry, Committed,
       Reap
  <2>5. QueuedFresh'
    BY <1>2 DEF ClaimSpare, LedgerTypes, QueuedFresh, Reap
  <2> QED
    BY <2>1, <2>2, <2>3, <2>4, <2>5
<1>3. CASE LoadBare(c)
  <2>1. LedgerTypes'
    BY <1>3 DEF LoadBare, LedgerTypes, Reap
  <2>2. Incarnations'
    BY <1>3 DEF LoadBare, LedgerTypes, Incarnations, Reap
  <2>3. EntriesCurrent'
    BY <1>3 DEF LoadBare, LedgerTypes, Incarnations, EntriesCurrent, Reap
  <2>4. LeasesRecorded'
    BY <1>3 DEF LoadBare, LedgerTypes, Incarnations, LeasesRecorded, Entry, Committed,
       Reap
  <2>5. QueuedFresh'
    BY <1>3 DEF LoadBare, LedgerTypes, QueuedFresh, Reap
  <2> QED
    BY <2>1, <2>2, <2>3, <2>4, <2>5
<1>4. CASE AllocateBare(c)
  <2>1. LedgerTypes'
    BY <1>4 DEF AllocateBare, Returned, LedgerTypes, Reap
  <2>2. Incarnations'
    BY <1>4 DEF AllocateBare, Returned, LedgerTypes, Incarnations, Reap
  <2>3. EntriesCurrent'
    BY <1>4 DEF AllocateBare, Returned, LedgerTypes, Incarnations, EntriesCurrent, Reap
  <2>4. LeasesRecorded'
    BY <1>4 DEF AllocateBare, Returned, LedgerTypes, Incarnations, LeasesRecorded,
       Entry, Committed, Reap
  <2>5. QueuedFresh'
    BY <1>4 DEF AllocateBare, Returned, LedgerTypes, QueuedFresh, Reap
  <2> QED
    BY <2>1, <2>2, <2>3, <2>4, <2>5
<1>5. CASE FreeBare(c)
  <2>1. LedgerTypes'
    BY <1>5 DEF FreeBare, Over, LedgerTypes, Reap
  <2>2. Incarnations'
    BY <1>5 DEF FreeBare, Over, LedgerTypes, Incarnations, Reap
  <2>3. EntriesCurrent'
    BY <1>5 DEF FreeBare, Over, LedgerTypes, Incarnations, EntriesCurrent, Reap
  <2>4. LeasesRecorded'
    BY <1>5 DEF FreeBare, Over, LedgerTypes, Incarnations, LeasesRecorded, Entry,
       Committed, Reap
  <2>5. QueuedFresh'
    BY <1>5 DEF FreeBare, Over, LedgerTypes, QueuedFresh, Reap
  <2> QED
    BY <2>1, <2>2, <2>3, <2>4, <2>5
<1> QED
  BY <1>1, <1>2, <1>3, <1>4, <1>5
-----------------------------------------------------------------------------
\* A runner dies, and its pid comes back.
LEMMA ProcessInv ==
    ASSUME IInv, NEW p \in Procs,
           Kill(p) \/ Reuse(p)
    PROVE  IInv'
<1> USE VramRegAssumption DEF IInv, callVars
<1>1. CASE Kill(p)
  <2>1. LedgerTypes'
    BY <1>1 DEF Kill, Over, LedgerTypes, Reap
  <2>2. Incarnations'
    BY <1>1 DEF Kill, Over, LedgerTypes, Incarnations, Reap
  <2>3. EntriesCurrent'
    BY <1>1 DEF Kill, Over, LedgerTypes, Incarnations, EntriesCurrent, Reap
  <2>4. LeasesRecorded'
    BY <1>1 DEF Kill, Over, LedgerTypes, Incarnations, LeasesRecorded, Entry, Committed,
       Reap
  <2>5. QueuedFresh'
    BY <1>1 DEF Kill, Over, LedgerTypes, QueuedFresh, Reap
  <2> QED
    BY <2>1, <2>2, <2>3, <2>4, <2>5
<1>2. CASE Reuse(p)
  <2>1. LedgerTypes'
    BY <1>2 DEF Reuse, LedgerTypes, Reap
  <2>2. Incarnations'
    BY <1>2 DEF Reuse, LedgerTypes, Incarnations, Reap
  <2>3. EntriesCurrent'
    BY <1>2 DEF Reuse, LedgerTypes, Incarnations, EntriesCurrent, Reap
  <2>4. LeasesRecorded'
    BY <1>2 DEF Reuse, LedgerTypes, Incarnations, LeasesRecorded, Entry, Committed, Reap
  <2>5. QueuedFresh'
    BY <1>2 DEF Reuse, LedgerTypes, Incarnations, QueuedFresh
  <2> QED
    BY <2>1, <2>2, <2>3, <2>4, <2>5
<1> QED
  BY <1>1, <1>2
-----------------------------------------------------------------------------
LEMMA NextInv == IInv /\ [Next]_vars => IInv'
<1> SUFFICES ASSUME IInv, [Next]_vars PROVE IInv'
  OBVIOUS
<1>1. CASE Next
  BY <1>1, ClaimInv, LeaseInv, RefusedInv, ProcessInv DEF Next
<1>2. CASE UNCHANGED vars
  BY <1>2 DEF vars, callVars, IInv, LedgerTypes, Incarnations, EntriesCurrent, Reap,
     LeasesRecorded, Entry, Committed, QueuedFresh
<1> QED
  BY <1>1, <1>2

LEMMA InvHolds == Spec => []IInv
BY InitInv, NextInv, PTL DEF Spec

-----------------------------------------------------------------------------
\* The device never hands out more than it has.
HeldFits == SumFunctionOnSet(used, Claims) <= Total

\* Only loads past their allocation hold memory; a loaded model holds what is
\* left of its claim, and a load without a lease has none.
UsedPhases ==
    \A c \in Claims :
        /\ used[c] # 0 => pc[c] \in {"allocated", "committed", "bareUp"}
        /\ pc[c] \in {"committed", "bareUp"} => ask[c] <= used[c]
        /\ pc[c] = "bare" => ask[c] = 0

\* What a claim is entitled to: all of it until the load allocates, then the
\* part of it that is held.
Covered ==
    [c \in Claims |-> IF pc[c] = "claimed" \/ used[c] > ask[c] THEN ask[c] ELSE used[c]]

CoveredFits == SumFunctionOnSet(Covered, Claims) <= Total

BytesInv ==
    /\ TypeOK /\ IsFiniteSet(ledger)
    /\ HeldFits /\ UsedPhases /\ CoveredFits

\* An entry that a call writes has the type of an entry.
LEMMA EntryType ==
    ASSUME TypeOK, NEW c \in Claims, NEW st \in {"P", "C", "W"}, NEW b \in Nat
    PROVE  Entry(c, st, b) \in Entries
BY VramRegAssumption DEF TypeOK, Entry, Entries

\* A poll's figure is a size, and leaves room for the claims it has counted.
LEMMA AvailableFits ==
    ASSUME BytesInv, NEW L \in SUBSET ledger
    PROVE  /\ Available(L) \in 0 .. Total
           /\ PendingBytes({e \in L : e.state = "P"}) \in Nat
           /\ SumFunctionOnSet(used, Claims) \in Nat
           /\ Available(L) # 0 =>
                 Available(L) + PendingBytes({e \in L : e.state = "P"})
                    + SumFunctionOnSet(used, Claims) = Total
<1> DEFINE P == {e \in L : e.state = "P"}
           size == [e \in P |-> e.bytes]
<1>1. IsFiniteSet(P) /\ \A e \in P : size[e] \in Nat
  <2>1. P \in SUBSET ledger
    OBVIOUS
  <2>2. IsFiniteSet(P)
    BY <2>1, FS_Subset DEF BytesInv
  <2> QED
    BY <2>1, <2>2 DEF BytesInv, TypeOK, Entries
<1>2. PendingBytes(P) \in Nat
  <2>1. SumFunctionOnSet(size, P) \in Nat
    <3> HIDE DEF size, P
    <3> QED
      BY <1>1, SumNat
  <2> QED
    BY <2>1 DEF PendingBytes
<1>3. SumFunctionOnSet(used, Claims) \in Nat
  <2>1. \A c \in Claims : used[c] \in Nat
    BY VramRegAssumption DEF BytesInv, TypeOK
  <2> QED
    BY <2>1, SumNat, VramRegAssumption
<1> HIDE DEF P
<1>4. Available(L) = IF FreeNow > PendingBytes(P) THEN FreeNow - PendingBytes(P) ELSE 0
  BY DEF Available, P
<1> QED
  BY <1>2, <1>3, <1>4, VramRegAssumption DEF FreeNow, P

\* A step that raises no claim's due keeps what is due within the device.
LEMMA NotRaised ==
    ASSUME BytesInv, TypeOK', \A d \in Claims : Covered'[d] <= Covered[d]
    PROVE  CoveredFits'
<1>1. \A d \in Claims : Covered'[d] \in Int /\ Covered[d] \in Int
  BY VramRegAssumption DEF BytesInv, TypeOK, Covered
<1>2. SumFunctionOnSet(Covered', Claims) <= SumFunctionOnSet(Covered, Claims)
  BY <1>1, SumMono, VramRegAssumption
<1>3. SumFunctionOnSet(Covered', Claims) \in Int /\ SumFunctionOnSet(Covered, Claims) \in Int
  BY <1>1, SumApart, VramRegAssumption
<1> QED
  BY <1>2, <1>3, VramRegAssumption DEF BytesInv, CoveredFits

LEMMA NotMoreHeld ==
    ASSUME BytesInv, used' \in [Claims -> Nat], \A d \in Claims : used'[d] <= used[d]
    PROVE  HeldFits'
<1>1. \A d \in Claims : used'[d] \in Int /\ used[d] \in Int
  BY VramRegAssumption DEF BytesInv, TypeOK
<1>2. SumFunctionOnSet(used', Claims) <= SumFunctionOnSet(used, Claims)
  BY <1>1, SumMono, VramRegAssumption
<1>3. SumFunctionOnSet(used', Claims) \in Int /\ SumFunctionOnSet(used, Claims) \in Int
  BY <1>1, SumApart, VramRegAssumption
<1> QED
  BY <1>2, <1>3, VramRegAssumption DEF BytesInv, HeldFits

\* The driver's figure is a number.
LEMMA FreeNowInt ==
    ASSUME BytesInv
    PROVE  FreeNow \in Int
<1>1. \A c \in Claims : used[c] \in Nat
  BY VramRegAssumption DEF BytesInv, TypeOK
<1>2. SumFunctionOnSet(used, Claims) \in Nat
  BY <1>1, SumNat, VramRegAssumption
<1> QED
  BY <1>2, VramRegAssumption DEF FreeNow

\* The driver hands out what it has, whatever was claimed.
LEMMA HandedOut ==
    ASSUME BytesInv, NEW c \in Claims, NEW b \in 0 .. used[c] + FreeNow,
           used' = [used EXCEPT ![c] = b]
    PROVE  b \in Nat /\ HeldFits' /\ used' \in [Claims -> 0 .. Total]
<1>1. used \in [Claims -> Nat] /\ used \in [Claims -> Int] /\ IsFiniteSet(Claims)
  BY VramRegAssumption DEF BytesInv, TypeOK
<1>2. \A d \in Claims : used[d] \in Nat /\ used[d] \in Int
  BY <1>1
<1>3. SumFunctionOnSet(used, Claims) \in Nat
  BY <1>1, <1>2, SumNat
<1>4. FreeNow = Total - SumFunctionOnSet(used, Claims) /\ FreeNow \in Int
  BY FreeNowInt DEF FreeNow
<1>5. used[c] <= SumFunctionOnSet(used, Claims)
  <2>1. SumFunctionOnSet(used, Claims) = used[c] + SumFunctionOnSet(used, Claims \ {c})
    BY <1>1, <1>2, SumApart
  <2>2. IsFiniteSet(Claims \ {c}) /\ \A d \in Claims \ {c} : used[d] \in Nat
    BY <1>1, <1>2, FS_RemoveElement
  <2>3. SumFunctionOnSet(used, Claims \ {c}) \in Nat
    BY <2>2, SumNat
  <2> QED
    BY <1>2, <2>1, <2>3
<1>6. b \in Nat /\ b \in Int /\ b <= used[c] + FreeNow
  BY <1>2, <1>4
<1>7. SumFunctionOnSet([used EXCEPT ![c] = b], Claims)
         = SumFunctionOnSet(used, Claims) - used[c] + b
  <2>1. \A f \in [Claims -> Int], v \in Int :
           SumFunctionOnSet([f EXCEPT ![c] = v], Claims)
              = SumFunctionOnSet(f, Claims) - f[c] + v
    BY <1>1, SumExcept
  <2> QED
    BY <1>1, <1>6, <2>1
<1>8. HeldFits'
  BY <1>2, <1>3, <1>4, <1>6, <1>7, VramRegAssumption DEF HeldFits
<1>9. b \in 0 .. Total
  BY <1>2, <1>3, <1>4, <1>5, <1>6, VramRegAssumption
<1>10. used' \in [Claims -> 0 .. Total]
  BY <1>9 DEF BytesInv, TypeOK
<1> QED
  BY <1>6, <1>8, <1>10

\* The pledges to claims already admitted are among the pending entries that an
\* admission counts, whoever recorded them.
LEMMA PledgesPending ==
    ASSUME IInv, BytesInv, NEW c \in Claims
    PROVE  SumFunctionOnSet(Pledged, Claims)
              <= PendingBytes({e \in Seen(c) : e.state = "P"})
<1> DEFINE A == {d \in Claims : pc[d] = "claimed"}
           R == Claims \ A
           P == {e \in Seen(c) : e.state = "P"}
           size == [e \in P |-> e.bytes]
           slot == [d \in A |-> Entry(d, "P", ask[d])]
           image == {slot[d] : d \in A}
<1>1. ask \in [Claims -> Nat]
  BY DEF BytesInv, TypeOK
<1>2. A \in SUBSET Claims /\ R \in SUBSET Claims /\ A \cap R = {} /\ A \cup R = Claims
  OBVIOUS
<1>3. IsFiniteSet(Claims) /\ IsFiniteSet(A) /\ IsFiniteSet(R)
  BY <1>2, VramRegAssumption, FS_Subset
<1>4. \A d \in A : slot[d] \in P /\ size[slot[d]] = ask[d] /\ ask[d] \in Int
  <2>1. \A d \in A : Entry(d, "P", ask[d]) \in Reap(ledger)
    BY DEF IInv, LeasesRecorded, Incarnations, Reap, Entry
  <2>2. \A d \in A : Entry(d, "P", ask[d]) \in P
    BY <2>1 DEF Seen, Entry
  <2>3. \A d \in A : Entry(d, "P", ask[d]).bytes = ask[d]
    BY DEF Entry
  <2> QED
    BY <1>1, <2>2, <2>3
<1>5. \A d1, d2 \in A : slot[d1] = slot[d2] => d1 = d2
  <2>1. \A d \in A : slot[d].claim = d
    BY DEF Entry
  <2> QED
    BY <2>1
<1>6. IsFiniteSet(P) /\ \A e \in P : size[e] \in Nat
  <2>1. P \in SUBSET ledger
    BY DEF Seen, Reap
  <2>2. IsFiniteSet(P)
    BY <2>1, FS_Subset DEF BytesInv
  <2> QED
    BY <2>1, <2>2 DEF BytesInv, TypeOK, Entries
<1>7. image \in SUBSET P
  BY <1>4
<1>8. SumFunctionOnSet(size, image) = SumFunctionOnSet(ask, A)
  <2>1. /\ \A d \in A : ask[d] \in Int
        /\ \A d \in A : size[slot[d]] = ask[d]
    BY <1>4
  <2> HIDE DEF slot, size, A, P
  <2> QED
    BY <1>3, <1>5, <2>1, SumImage
<1>9. SumFunctionOnSet(size, image) <= SumFunctionOnSet(size, P)
  <2> HIDE DEF size, P, image
  <2> QED
    BY <1>6, <1>7, SumNat
<1>10. PendingBytes(P) = SumFunctionOnSet(size, P)
  BY DEF PendingBytes
<1>11. SumFunctionOnSet(Pledged, A) = SumFunctionOnSet(ask, A)
  <2>1. \A d \in A : Pledged[d] \in Int /\ ask[d] = Pledged[d]
    BY <1>4 DEF Pledged
  <2> HIDE DEF A, Pledged
  <2> QED
    BY <1>3, <2>1, SumSame
<1>12. SumFunctionOnSet(Pledged, R) = 0
  <2>1. \A d \in R : Pledged[d] = 0
    BY DEF Pledged
  <2> HIDE DEF R, Pledged
  <2> QED
    BY <1>3, <2>1, SumZero
<1>13. SumFunctionOnSet(Pledged, Claims)
          = SumFunctionOnSet(Pledged, A) + SumFunctionOnSet(Pledged, R)
  <2>1. \A d \in A \cup R : Pledged[d] \in Int
    BY <1>1, <1>2 DEF Pledged
  <2>2. SumFunctionOnSet(Pledged, A \cup R)
           = SumFunctionOnSet(Pledged, A) + SumFunctionOnSet(Pledged, R)
    <3> HIDE DEF A, R, Pledged
    <3> QED
      BY <1>2, <1>3, <2>1, SumUnion
  <2> QED
    BY <1>2, <2>2
<1>14. SumFunctionOnSet(ask, A) \in Int
  <2>1. \A d \in A : ask[d] \in Int
    BY <1>4
  <2> HIDE DEF A
  <2> QED
    BY <1>3, <2>1, SumApart
<1>15. SumFunctionOnSet(Pledged, Claims) = SumFunctionOnSet(size, image)
  <2> HIDE DEF A, R, Pledged, size, image
  <2> QED
    BY <1>8, <1>11, <1>12, <1>13, <1>14
<1> QED
  BY <1>9, <1>10, <1>15

\* What the loads hold and what they are pledged, split by claim instead: what
\* they are entitled to and what they have overdrawn.
LEMMA Accounts ==
    ASSUME BytesInv
    PROVE  /\ SumFunctionOnSet(used, Claims) + SumFunctionOnSet(Pledged, Claims)
                = SumFunctionOnSet(Covered, Claims) + SumFunctionOnSet(Overdrawn, Claims)
           /\ SumFunctionOnSet(used, Claims) \in Nat /\ SumFunctionOnSet(Pledged, Claims) \in Nat
           /\ SumFunctionOnSet(Covered, Claims) \in Nat
           /\ SumFunctionOnSet(Overdrawn, Claims) \in Nat
<1> DEFINE total == [c \in Claims |-> used[c] + Pledged[c]]
<1>1. used \in [Claims -> Nat] /\ ask \in [Claims -> Nat] /\ IsFiniteSet(Claims)
  BY VramRegAssumption DEF BytesInv, TypeOK
<1>2. \A c \in Claims : /\ used[c] \in Nat /\ Pledged[c] \in Nat
                        /\ Covered[c] \in Nat /\ Overdrawn[c] \in Nat
  BY <1>1 DEF Pledged, Covered, Overdrawn
<1>3. \A c \in Claims : total[c] = used[c] + Pledged[c]
  OBVIOUS
<1>4. \A c \in Claims : total[c] = Covered[c] + Overdrawn[c]
  BY <1>1 DEF Pledged, Covered, Overdrawn, BytesInv, UsedPhases
<1>5. \A c \in Claims : /\ used[c] \in Int /\ Pledged[c] \in Int
                        /\ Covered[c] \in Int /\ Overdrawn[c] \in Int
  BY <1>2
<1> HIDE DEF total
<1>6. SumFunctionOnSet(total, Claims)
         = SumFunctionOnSet(used, Claims) + SumFunctionOnSet(Pledged, Claims)
  BY <1>1, <1>3, <1>5, SumPlus
<1>7. SumFunctionOnSet(total, Claims)
         = SumFunctionOnSet(Covered, Claims) + SumFunctionOnSet(Overdrawn, Claims)
  BY <1>1, <1>4, <1>5, SumPlus
<1>8. SumFunctionOnSet(used, Claims) \in Nat /\ SumFunctionOnSet(Pledged, Claims) \in Nat
  BY <1>1, <1>2, SumNat
<1>9. SumFunctionOnSet(Covered, Claims) \in Nat /\ SumFunctionOnSet(Overdrawn, Claims) \in Nat
  BY <1>1, <1>2, SumNat
<1> QED
  BY <1>6, <1>7, <1>8, <1>9

\* An admission fits beside all that is in use and all that is pledged.
LEMMA AdmissionFits ==
    ASSUME IInv, BytesInv, NEW c \in Claims, Admit(c), ask[c] > 0
    PROVE  SumFunctionOnSet(used, Claims) + SumFunctionOnSet(Pledged, Claims) + ask[c] <= Total
<1> DEFINE pending == PendingBytes({e \in Seen(c) : e.state = "P"})
<1>1. ask[c] <= Available(Seen(c)) /\ ask[c] \in Nat
  BY DEF Admit, Fits, BytesInv, TypeOK
<1>2. /\ Available(Seen(c)) \in 0 .. Total /\ pending \in Nat
      /\ Available(Seen(c)) # 0 =>
            Available(Seen(c)) + pending + SumFunctionOnSet(used, Claims) = Total
  <2>1. Seen(c) \in SUBSET ledger
    BY DEF Seen, Reap
  <2> QED
    BY <2>1, AvailableFits
<1>3. SumFunctionOnSet(Pledged, Claims) <= pending
  BY PledgesPending
<1>4. SumFunctionOnSet(used, Claims) \in Nat /\ SumFunctionOnSet(Pledged, Claims) \in Nat
  BY Accounts
<1> HIDE DEF pending
<1> QED
  BY <1>1, <1>2, <1>3, <1>4, VramRegAssumption

\* ... and so what is due stays within the device.
LEMMA AdmitFits ==
    ASSUME IInv, BytesInv, NEW c \in Claims, Admit(c), TypeOK'
    PROVE  CoveredFits'
<1>1. /\ pc[c] = "poll" /\ pc' = [pc EXCEPT ![c] = "claimed"]
      /\ used' = used /\ ask' = ask
  BY DEF Admit
<1>2. used[c] = 0 /\ ask[c] \in Nat /\ used \in [Claims -> Nat] /\ ask \in [Claims -> Nat]
  BY <1>1, VramRegAssumption DEF BytesInv, UsedPhases, TypeOK
<1>3. Covered' = [Covered EXCEPT ![c] = ask[c]]
  BY <1>1 DEF Covered, BytesInv, TypeOK
<1>4. Covered \in [Claims -> Int] /\ ask[c] \in Int /\ Covered[c] = 0
  BY <1>1, <1>2 DEF Covered
<1>5. SumFunctionOnSet([Covered EXCEPT ![c] = ask[c]], Claims)
         = SumFunctionOnSet(Covered, Claims) - Covered[c] + ask[c]
  <2>1. IsFiniteSet(Claims)
    BY VramRegAssumption
  <2> HIDE DEF Covered
  <2> QED
    BY <1>4, <2>1, SumExcept
<1>6. SumFunctionOnSet(Covered, Claims) + ask[c] <= Total
  <2>1. CASE ask[c] = 0
    BY <2>1, Accounts, VramRegAssumption DEF BytesInv, CoveredFits
  <2>2. CASE ask[c] > 0
    BY <1>2, <2>2, AdmissionFits, Accounts, VramRegAssumption
  <2> QED
    BY <1>2, <2>1, <2>2
<1>7. SumFunctionOnSet(Covered, Claims) \in Nat
  BY Accounts
<1>8. SumFunctionOnSet(Covered', Claims) = SumFunctionOnSet(Covered, Claims) + ask[c]
  BY <1>3, <1>4, <1>5, <1>7
<1> QED
  BY <1>6, <1>8 DEF CoveredFits

\* The bytes through a call of vram_claim.
LEMMA ClaimBytes ==
    ASSUME IInv, BytesInv, NEW c \in Claims,
           Ask(c) \/ Admit(c) \/ Defer(c) \/ Repoll(c) \/ StopWaiting(c) \/ Rollback(c) \/
              LeaseFail(c)
    PROVE  BytesInv'
<1>1. CASE Ask(c)
  <2>1. ledger' \subseteq Entries /\ IsFiniteSet(ledger')
    BY <1>1 DEF Ask, BytesInv, TypeOK, callVars
  <2>2. used' \in [Claims -> 0 .. Total]
    BY <1>1, VramRegAssumption DEF Ask, BytesInv, TypeOK
  <2>3. queues' \in [Claims -> BOOLEAN] /\ alive' \in [Procs -> BOOLEAN]
    BY <1>1 DEF Ask, BytesInv, TypeOK, callVars
  <2>4. inc' \in [Procs -> 0 .. MaxInc] /\ capacity' \in Capacities
    BY <1>1 DEF Ask, BytesInv, TypeOK, callVars
  <2>5. spare' \in [Claims -> {Blame, Second} \cup 0 .. Total]
    BY <1>1 DEF Ask, BytesInv, TypeOK, callVars
  <2>6. pc' \in [Claims -> {"idle", "poll", "queued", "giveUp", "refused", "claimed",
                           "allocated", "committed", "freed", "bare", "bareUp"}]
    BY <1>1 DEF Ask, BytesInv, TypeOK
  <2>7. ask' \in [Claims -> Nat]
    BY <1>1, VramRegAssumption DEF Ask, BytesInv, TypeOK, callVars
  <2>8. TypeOK'
    BY <2>1, <2>2, <2>3, <2>4, <2>5, <2>6, <2>7 DEF TypeOK
  <2>9. UsedPhases'
    BY <1>1 DEF Ask, BytesInv, TypeOK, UsedPhases, callVars
  <2>10. used' \in [Claims -> Nat] /\ \A d \in Claims : used'[d] <= used[d]
    BY <1>1, VramRegAssumption DEF Ask, BytesInv, TypeOK
  <2>11. HeldFits'
    BY <2>10, NotMoreHeld
  <2>12. \A d \in Claims : Covered'[d] <= Covered[d]
    <3>1. /\ used' = used /\ used \in [Claims -> Nat] /\ ask \in [Claims -> Nat] /\ used[c] = 0
          /\ \A d \in Claims : d # c => ask'[d] = ask[d] /\ pc'[d] = pc[d]
          /\ pc'[c] = "poll" /\ pc[c] # "claimed"
      BY <1>1, VramRegAssumption DEF Ask, BytesInv, TypeOK, UsedPhases
    <3> QED
      BY <2>7, <3>1 DEF Covered
  <2>13. CoveredFits'
    BY <2>8, <2>12, NotRaised
  <2> QED
    BY <2>1, <2>8, <2>9, <2>11, <2>13 DEF BytesInv
<1>2. CASE Admit(c)
  <2>1. ask[c] \in Nat
    BY DEF BytesInv, TypeOK
  <2>2. Seen(c) \subseteq ledger
    BY DEF Seen, Reap
  <2>3. Seen(c) \subseteq Entries /\ IsFiniteSet(Seen(c))
    BY <2>2, FS_Subset DEF BytesInv, TypeOK
  <2>4. Entry(c, "P", ask[c]) \in Entries
    BY <2>1, EntryType DEF BytesInv
  <2>5. ledger' = Seen(c) \/ ledger' = Seen(c) \cup {Entry(c, "P", ask[c])}
    BY <1>2 DEF Admit
  <2>6. ledger' \subseteq Entries /\ IsFiniteSet(ledger')
    BY <2>3, <2>4, <2>5, FS_AddElement
  <2>7. used' \in [Claims -> 0 .. Total]
    BY <1>2, VramRegAssumption DEF Admit, Status, BytesInv, TypeOK
  <2>8. queues' \in [Claims -> BOOLEAN] /\ alive' \in [Procs -> BOOLEAN]
    BY <1>2 DEF Admit, Status, BytesInv, TypeOK, callVars
  <2>9. inc' \in [Procs -> 0 .. MaxInc] /\ capacity' \in Capacities
    BY <1>2 DEF Admit, Status, BytesInv, TypeOK, callVars
  <2>10. Available(Seen(c)) \in 0 .. Total
    BY <2>2, AvailableFits
  <2>11. spare' \in [Claims -> {Blame, Second} \cup 0 .. Total]
    BY <1>2, <2>10 DEF Admit, Status, BytesInv, TypeOK
  <2>12. pc' \in [Claims -> {"idle", "poll", "queued", "giveUp", "refused", "claimed",
                           "allocated", "committed", "freed", "bare", "bareUp"}]
    BY <1>2 DEF Admit, Status, BytesInv, TypeOK
  <2>13. ask' \in [Claims -> Nat]
    BY <1>2, VramRegAssumption DEF Admit, Status, BytesInv, TypeOK, callVars
  <2>14. TypeOK'
    BY <2>6, <2>7, <2>8, <2>9, <2>11, <2>12, <2>13 DEF TypeOK
  <2>15. UsedPhases'
    BY <1>2 DEF Admit, Status, BytesInv, TypeOK, UsedPhases, callVars
  <2>16. used' \in [Claims -> Nat] /\ \A d \in Claims : used'[d] <= used[d]
    BY <1>2, VramRegAssumption DEF Admit, Status, BytesInv, TypeOK
  <2>17. HeldFits'
    BY <2>16, NotMoreHeld
  <2>18. CoveredFits'
    BY <1>2, <2>14, AdmitFits
  <2> QED
    BY <2>6, <2>14, <2>15, <2>17, <2>18 DEF BytesInv
<1>3. CASE Defer(c)
  <2>1. ask[c] \in Nat
    BY DEF BytesInv, TypeOK
  <2>2. Seen(c) \subseteq ledger
    BY DEF Seen, Reap
  <2>3. Seen(c) \subseteq Entries /\ IsFiniteSet(Seen(c))
    BY <2>2, FS_Subset DEF BytesInv, TypeOK
  <2>4. Entry(c, "W", ask[c]) \in Entries
    BY <2>1, EntryType DEF BytesInv
  <2>5. ledger' = Seen(c) \/ ledger' = Seen(c) \cup {Entry(c, "W", ask[c])}
    BY <1>3 DEF Defer
  <2>6. ledger' \subseteq Entries /\ IsFiniteSet(ledger')
    BY <2>3, <2>4, <2>5, FS_AddElement
  <2>7. used' \in [Claims -> 0 .. Total]
    BY <1>3, VramRegAssumption DEF Defer, Status, BytesInv, TypeOK
  <2>8. queues' \in [Claims -> BOOLEAN] /\ alive' \in [Procs -> BOOLEAN]
    BY <1>3 DEF Defer, Status, BytesInv, TypeOK, callVars
  <2>9. inc' \in [Procs -> 0 .. MaxInc] /\ capacity' \in Capacities
    BY <1>3 DEF Defer, Status, BytesInv, TypeOK, callVars
  <2>10. Available(Seen(c)) \in 0 .. Total
    BY <2>2, AvailableFits
  <2>11. spare' \in [Claims -> {Blame, Second} \cup 0 .. Total]
    BY <1>3, <2>10 DEF Defer, Status, BytesInv, TypeOK
  <2>12. pc' \in [Claims -> {"idle", "poll", "queued", "giveUp", "refused", "claimed",
                           "allocated", "committed", "freed", "bare", "bareUp"}]
    BY <1>3 DEF Defer, Status, BytesInv, TypeOK
  <2>13. ask' \in [Claims -> Nat]
    BY <1>3, VramRegAssumption DEF Defer, Status, BytesInv, TypeOK, callVars
  <2>14. TypeOK'
    BY <2>6, <2>7, <2>8, <2>9, <2>11, <2>12, <2>13 DEF TypeOK
  <2>15. UsedPhases'
    BY <1>3 DEF Defer, Status, BytesInv, TypeOK, UsedPhases, callVars
  <2>16. used' \in [Claims -> Nat] /\ \A d \in Claims : used'[d] <= used[d]
    BY <1>3, VramRegAssumption DEF Defer, Status, BytesInv, TypeOK
  <2>17. HeldFits'
    BY <2>16, NotMoreHeld
  <2>18. \A d \in Claims : Covered'[d] <= Covered[d]
    BY <1>3, VramRegAssumption DEF Defer, Status, BytesInv, TypeOK, UsedPhases,
       Covered, callVars
  <2>19. CoveredFits'
    BY <2>14, <2>18, NotRaised
  <2> QED
    BY <2>6, <2>14, <2>15, <2>17, <2>19 DEF BytesInv
<1>4. CASE Repoll(c)
  <2>1. ledger' \subseteq Entries /\ IsFiniteSet(ledger')
    BY <1>4 DEF Repoll, BytesInv, TypeOK, callVars
  <2>2. used' \in [Claims -> 0 .. Total]
    BY <1>4, VramRegAssumption DEF Repoll, BytesInv, TypeOK
  <2>3. queues' \in [Claims -> BOOLEAN] /\ alive' \in [Procs -> BOOLEAN]
    BY <1>4 DEF Repoll, BytesInv, TypeOK, callVars
  <2>4. inc' \in [Procs -> 0 .. MaxInc] /\ capacity' \in Capacities
    BY <1>4 DEF Repoll, BytesInv, TypeOK, callVars
  <2>5. spare' \in [Claims -> {Blame, Second} \cup 0 .. Total]
    BY <1>4 DEF Repoll, BytesInv, TypeOK, callVars
  <2>6. pc' \in [Claims -> {"idle", "poll", "queued", "giveUp", "refused", "claimed",
                           "allocated", "committed", "freed", "bare", "bareUp"}]
    BY <1>4 DEF Repoll, BytesInv, TypeOK
  <2>7. ask' \in [Claims -> Nat]
    BY <1>4, VramRegAssumption DEF Repoll, BytesInv, TypeOK, callVars
  <2>8. TypeOK'
    BY <2>1, <2>2, <2>3, <2>4, <2>5, <2>6, <2>7 DEF TypeOK
  <2>9. UsedPhases'
    BY <1>4 DEF Repoll, BytesInv, TypeOK, UsedPhases, callVars
  <2>10. used' \in [Claims -> Nat] /\ \A d \in Claims : used'[d] <= used[d]
    BY <1>4, VramRegAssumption DEF Repoll, BytesInv, TypeOK
  <2>11. HeldFits'
    BY <2>10, NotMoreHeld
  <2>12. \A d \in Claims : Covered'[d] <= Covered[d]
    BY <1>4, VramRegAssumption DEF Repoll, BytesInv, TypeOK, UsedPhases,
       Covered, callVars
  <2>13. CoveredFits'
    BY <2>8, <2>12, NotRaised
  <2> QED
    BY <2>1, <2>8, <2>9, <2>11, <2>13 DEF BytesInv
<1>5. CASE StopWaiting(c)
  <2>1. ledger' \subseteq Entries /\ IsFiniteSet(ledger')
    BY <1>5 DEF StopWaiting, BytesInv, TypeOK, callVars
  <2>2. used' \in [Claims -> 0 .. Total]
    BY <1>5, VramRegAssumption DEF StopWaiting, BytesInv, TypeOK
  <2>3. queues' \in [Claims -> BOOLEAN] /\ alive' \in [Procs -> BOOLEAN]
    BY <1>5 DEF StopWaiting, BytesInv, TypeOK, callVars
  <2>4. inc' \in [Procs -> 0 .. MaxInc] /\ capacity' \in Capacities
    BY <1>5 DEF StopWaiting, BytesInv, TypeOK, callVars
  <2>5. spare' \in [Claims -> {Blame, Second} \cup 0 .. Total]
    BY <1>5 DEF StopWaiting, BytesInv, TypeOK, callVars
  <2>6. pc' \in [Claims -> {"idle", "poll", "queued", "giveUp", "refused", "claimed",
                           "allocated", "committed", "freed", "bare", "bareUp"}]
    BY <1>5 DEF StopWaiting, BytesInv, TypeOK
  <2>7. ask' \in [Claims -> Nat]
    BY <1>5, VramRegAssumption DEF StopWaiting, BytesInv, TypeOK, callVars
  <2>8. TypeOK'
    BY <2>1, <2>2, <2>3, <2>4, <2>5, <2>6, <2>7 DEF TypeOK
  <2>9. UsedPhases'
    BY <1>5 DEF StopWaiting, BytesInv, TypeOK, UsedPhases, callVars
  <2>10. used' \in [Claims -> Nat] /\ \A d \in Claims : used'[d] <= used[d]
    BY <1>5, VramRegAssumption DEF StopWaiting, BytesInv, TypeOK
  <2>11. HeldFits'
    BY <2>10, NotMoreHeld
  <2>12. \A d \in Claims : Covered'[d] <= Covered[d]
    BY <1>5, VramRegAssumption DEF StopWaiting, BytesInv, TypeOK, UsedPhases,
       Covered, callVars
  <2>13. CoveredFits'
    BY <2>8, <2>12, NotRaised
  <2> QED
    BY <2>1, <2>8, <2>9, <2>11, <2>13 DEF BytesInv
<1>6. CASE Rollback(c)
  <2>1. ledger' \subseteq ledger
    BY <1>6 DEF Rollback, Without, Reap
  <2>2. ledger' \subseteq Entries /\ IsFiniteSet(ledger')
    BY <2>1, FS_Subset DEF BytesInv, TypeOK
  <2>3. used' \in [Claims -> 0 .. Total]
    BY <1>6, VramRegAssumption DEF Rollback, BytesInv, TypeOK
  <2>4. queues' \in [Claims -> BOOLEAN] /\ alive' \in [Procs -> BOOLEAN]
    BY <1>6 DEF Rollback, BytesInv, TypeOK, callVars
  <2>5. inc' \in [Procs -> 0 .. MaxInc] /\ capacity' \in Capacities
    BY <1>6 DEF Rollback, BytesInv, TypeOK, callVars
  <2>6. spare' \in [Claims -> {Blame, Second} \cup 0 .. Total]
    BY <1>6 DEF Rollback, BytesInv, TypeOK, callVars
  <2>7. pc' \in [Claims -> {"idle", "poll", "queued", "giveUp", "refused", "claimed",
                           "allocated", "committed", "freed", "bare", "bareUp"}]
    BY <1>6 DEF Rollback, BytesInv, TypeOK
  <2>8. ask' \in [Claims -> Nat]
    BY <1>6, VramRegAssumption DEF Rollback, BytesInv, TypeOK, callVars
  <2>9. TypeOK'
    BY <2>2, <2>3, <2>4, <2>5, <2>6, <2>7, <2>8 DEF TypeOK
  <2>10. UsedPhases'
    BY <1>6 DEF Rollback, BytesInv, TypeOK, UsedPhases, callVars
  <2>11. used' \in [Claims -> Nat] /\ \A d \in Claims : used'[d] <= used[d]
    BY <1>6, VramRegAssumption DEF Rollback, BytesInv, TypeOK
  <2>12. HeldFits'
    BY <2>11, NotMoreHeld
  <2>13. \A d \in Claims : Covered'[d] <= Covered[d]
    BY <1>6, VramRegAssumption DEF Rollback, BytesInv, TypeOK, UsedPhases,
       Covered, callVars
  <2>14. CoveredFits'
    BY <2>9, <2>13, NotRaised
  <2> QED
    BY <2>2, <2>9, <2>10, <2>12, <2>14 DEF BytesInv
<1>7. CASE LeaseFail(c)
  <2>1. ledger' \subseteq Entries /\ IsFiniteSet(ledger')
    BY <1>7 DEF LeaseFail, BytesInv, TypeOK, callVars
  <2>2. used' \in [Claims -> 0 .. Total]
    BY <1>7, VramRegAssumption DEF LeaseFail, BytesInv, TypeOK
  <2>3. queues' \in [Claims -> BOOLEAN] /\ alive' \in [Procs -> BOOLEAN]
    BY <1>7 DEF LeaseFail, BytesInv, TypeOK, callVars
  <2>4. inc' \in [Procs -> 0 .. MaxInc] /\ capacity' \in Capacities
    BY <1>7 DEF LeaseFail, BytesInv, TypeOK, callVars
  <2>5. spare' \in [Claims -> {Blame, Second} \cup 0 .. Total]
    BY <1>7 DEF LeaseFail, BytesInv, TypeOK, callVars
  <2>6. pc' \in [Claims -> {"idle", "poll", "queued", "giveUp", "refused", "claimed",
                           "allocated", "committed", "freed", "bare", "bareUp"}]
    BY <1>7 DEF LeaseFail, BytesInv, TypeOK
  <2>7. ask' \in [Claims -> Nat]
    BY <1>7, VramRegAssumption DEF LeaseFail, BytesInv, TypeOK, callVars
  <2>8. TypeOK'
    BY <2>1, <2>2, <2>3, <2>4, <2>5, <2>6, <2>7 DEF TypeOK
  <2>9. UsedPhases'
    BY <1>7 DEF LeaseFail, BytesInv, TypeOK, UsedPhases, callVars
  <2>10. used' \in [Claims -> Nat] /\ \A d \in Claims : used'[d] <= used[d]
    BY <1>7, VramRegAssumption DEF LeaseFail, BytesInv, TypeOK
  <2>11. HeldFits'
    BY <2>10, NotMoreHeld
  <2>12. \A d \in Claims : Covered'[d] <= Covered[d]
    BY <1>7, VramRegAssumption DEF LeaseFail, BytesInv, TypeOK, UsedPhases,
       Covered, callVars
  <2>13. CoveredFits'
    BY <2>8, <2>12, NotRaised
  <2> QED
    BY <2>1, <2>8, <2>9, <2>11, <2>13 DEF BytesInv
<1> QED
  BY <1>1, <1>2, <1>3, <1>4, <1>5, <1>6, <1>7

\* The bytes of a lease.
LEMMA LeaseBytes ==
    ASSUME IInv, BytesInv, NEW c \in Claims,
           Allocate(c) \/ Commit(c) \/ Resize(c) \/ FreeMemory(c) \/ Release(c)
    PROVE  BytesInv'
<1>1. CASE Allocate(c)
  <2>1. used[c] = 0 /\ ask[c] \in Nat
    BY <1>1, VramRegAssumption DEF Allocate, BytesInv, UsedPhases, TypeOK
  <2>2. PICK b \in 0 .. FreeNow : used' = [used EXCEPT ![c] = b]
    BY <1>1 DEF Allocate
  <2>3. b \in Nat /\ HeldFits' /\ used' \in [Claims -> 0 .. Total]
    <3>1. b \in 0 .. used[c] + FreeNow
      BY <2>1, <2>2, FreeNowInt
    <3> QED
      BY <2>2, <3>1, HandedOut
  <2>4. ledger' \subseteq Entries /\ IsFiniteSet(ledger')
    BY <1>1 DEF Allocate, Returned, BytesInv, TypeOK, callVars
  <2>5. queues' \in [Claims -> BOOLEAN] /\ alive' \in [Procs -> BOOLEAN]
    BY <1>1 DEF Allocate, Returned, BytesInv, TypeOK, callVars
  <2>6. inc' \in [Procs -> 0 .. MaxInc] /\ capacity' \in Capacities
    BY <1>1 DEF Allocate, Returned, BytesInv, TypeOK, callVars
  <2>7. spare' \in [Claims -> {Blame, Second} \cup 0 .. Total]
    BY <1>1 DEF Allocate, Returned, BytesInv, TypeOK, callVars
  <2>8. pc' \in [Claims -> {"idle", "poll", "queued", "giveUp", "refused", "claimed",
                           "allocated", "committed", "freed", "bare", "bareUp"}]
    BY <1>1 DEF Allocate, Returned, BytesInv, TypeOK
  <2>9. ask' \in [Claims -> Nat]
    BY <1>1, VramRegAssumption DEF Allocate, Returned, BytesInv, TypeOK, callVars
  <2>10. TypeOK'
    BY <2>4, <2>3, <2>5, <2>6, <2>7, <2>8, <2>9 DEF TypeOK
  <2>11. UsedPhases'
    BY <1>1, <2>1, <2>2 DEF Allocate, Returned, BytesInv, TypeOK, UsedPhases, callVars
  <2>12. \A d \in Claims : Covered'[d] <= Covered[d]
    BY <1>1, <2>1, <2>2, <2>3, VramRegAssumption DEF Allocate, Returned, BytesInv, TypeOK, UsedPhases,
       Covered, callVars
  <2>13. CoveredFits'
    BY <2>10, <2>12, NotRaised
  <2> QED
    BY <2>4, <2>10, <2>11, <2>3, <2>13 DEF BytesInv
<1>2. CASE Commit(c)
  <2>1. Committed(c) \in Entries
    BY EntryType DEF BytesInv, Committed
  <2>2. Reap(ledger) \subseteq ledger
    BY DEF Reap
  <2>3. IsFiniteSet(Reap(ledger)) /\ Reap(ledger) \subseteq Entries
    BY <2>2, FS_Subset DEF BytesInv, TypeOK
  <2>4. ledger' \subseteq Reap(ledger) \cup {Committed(c)}
    BY <1>2 DEF Commit
  <2>5. IsFiniteSet(Reap(ledger) \cup {Committed(c)})
    BY <2>3, FS_AddElement
  <2>6. ledger' \subseteq Entries /\ IsFiniteSet(ledger')
    BY <2>1, <2>3, <2>4, <2>5, FS_Subset
  <2>7. used' \in [Claims -> 0 .. Total]
    BY <1>2, VramRegAssumption DEF Commit, BytesInv, TypeOK
  <2>8. queues' \in [Claims -> BOOLEAN] /\ alive' \in [Procs -> BOOLEAN]
    BY <1>2 DEF Commit, BytesInv, TypeOK, callVars
  <2>9. inc' \in [Procs -> 0 .. MaxInc] /\ capacity' \in Capacities
    BY <1>2 DEF Commit, BytesInv, TypeOK, callVars
  <2>10. spare' \in [Claims -> {Blame, Second} \cup 0 .. Total]
    BY <1>2 DEF Commit, BytesInv, TypeOK, callVars
  <2>11. pc' \in [Claims -> {"idle", "poll", "queued", "giveUp", "refused", "claimed",
                           "allocated", "committed", "freed", "bare", "bareUp"}]
    BY <1>2 DEF Commit, BytesInv, TypeOK
  <2>12. /\ ask' = [ask EXCEPT ![c] = IF ask[c] <= used[c] THEN ask[c] ELSE used[c]]
        /\ ask \in [Claims -> Nat] /\ used \in [Claims -> Nat]
    <3>1. ask \in [Claims -> Nat] /\ used \in [Claims -> Nat]
      BY VramRegAssumption DEF BytesInv, TypeOK
    <3>2. ask[c] \in Int /\ used[c] \in Int
      BY <3>1
    <3>3. Min({ask[c], used[c]}) = IF ask[c] <= used[c] THEN ask[c] ELSE used[c]
      BY <3>2, MinOfTwo
    <3> QED
      BY <1>2, <3>1, <3>3 DEF Commit
  <2>13. ask' \in [Claims -> Nat]
    BY <2>12
  <2>14. TypeOK'
    BY <2>6, <2>7, <2>8, <2>9, <2>10, <2>11, <2>13 DEF TypeOK
  <2>15. UsedPhases'
    BY <1>2, <2>12 DEF Commit, BytesInv, TypeOK, UsedPhases
  <2>16. used' \in [Claims -> Nat] /\ \A d \in Claims : used'[d] <= used[d]
    BY <1>2, VramRegAssumption DEF Commit, BytesInv, TypeOK
  <2>17. HeldFits'
    BY <2>16, NotMoreHeld
  <2>18. \A d \in Claims : Covered'[d] <= Covered[d]
    BY <1>2, <2>12 DEF Commit, BytesInv, TypeOK, Covered
  <2>19. CoveredFits'
    BY <2>14, <2>18, NotRaised
  <2> QED
    BY <2>6, <2>14, <2>15, <2>17, <2>19 DEF BytesInv
<1>3. CASE FreeMemory(c)
  <2>1. ledger' \subseteq Entries /\ IsFiniteSet(ledger')
    BY <1>3 DEF FreeMemory, BytesInv, TypeOK, callVars
  <2>2. used' \in [Claims -> 0 .. Total]
    BY <1>3, VramRegAssumption DEF FreeMemory, BytesInv, TypeOK
  <2>3. queues' \in [Claims -> BOOLEAN] /\ alive' \in [Procs -> BOOLEAN]
    BY <1>3 DEF FreeMemory, BytesInv, TypeOK, callVars
  <2>4. inc' \in [Procs -> 0 .. MaxInc] /\ capacity' \in Capacities
    BY <1>3 DEF FreeMemory, BytesInv, TypeOK, callVars
  <2>5. spare' \in [Claims -> {Blame, Second} \cup 0 .. Total]
    BY <1>3 DEF FreeMemory, BytesInv, TypeOK, callVars
  <2>6. pc' \in [Claims -> {"idle", "poll", "queued", "giveUp", "refused", "claimed",
                           "allocated", "committed", "freed", "bare", "bareUp"}]
    BY <1>3 DEF FreeMemory, BytesInv, TypeOK
  <2>7. ask' \in [Claims -> Nat]
    BY <1>3, VramRegAssumption DEF FreeMemory, BytesInv, TypeOK, callVars
  <2>8. TypeOK'
    BY <2>1, <2>2, <2>3, <2>4, <2>5, <2>6, <2>7 DEF TypeOK
  <2>9. UsedPhases'
    BY <1>3 DEF FreeMemory, BytesInv, TypeOK, UsedPhases, callVars
  <2>10. used' \in [Claims -> Nat] /\ \A d \in Claims : used'[d] <= used[d]
    BY <1>3, VramRegAssumption DEF FreeMemory, BytesInv, TypeOK
  <2>11. HeldFits'
    BY <2>10, NotMoreHeld
  <2>12. \A d \in Claims : Covered'[d] <= Covered[d]
    BY <1>3, VramRegAssumption DEF FreeMemory, BytesInv, TypeOK, UsedPhases,
       Covered, callVars
  <2>13. CoveredFits'
    BY <2>8, <2>12, NotRaised
  <2> QED
    BY <2>1, <2>8, <2>9, <2>11, <2>13 DEF BytesInv
<1>4. CASE Release(c)
  <2>1. ledger' \subseteq ledger
    BY <1>4 DEF Release, Over, Without, Reap
  <2>2. ledger' \subseteq Entries /\ IsFiniteSet(ledger')
    BY <2>1, FS_Subset DEF BytesInv, TypeOK
  <2>3. used' \in [Claims -> 0 .. Total]
    BY <1>4, VramRegAssumption DEF Release, Over, BytesInv, TypeOK
  <2>4. queues' \in [Claims -> BOOLEAN] /\ alive' \in [Procs -> BOOLEAN]
    BY <1>4 DEF Release, Over, BytesInv, TypeOK, callVars
  <2>5. inc' \in [Procs -> 0 .. MaxInc] /\ capacity' \in Capacities
    BY <1>4 DEF Release, Over, BytesInv, TypeOK, callVars
  <2>6. spare' \in [Claims -> {Blame, Second} \cup 0 .. Total]
    BY <1>4 DEF Release, Over, BytesInv, TypeOK, callVars
  <2>7. pc' \in [Claims -> {"idle", "poll", "queued", "giveUp", "refused", "claimed",
                           "allocated", "committed", "freed", "bare", "bareUp"}]
    BY <1>4 DEF Release, Over, BytesInv, TypeOK
  <2>8. ask' \in [Claims -> Nat]
    BY <1>4, VramRegAssumption DEF Release, Over, BytesInv, TypeOK, callVars
  <2>9. TypeOK'
    BY <2>2, <2>3, <2>4, <2>5, <2>6, <2>7, <2>8 DEF TypeOK
  <2>10. UsedPhases'
    BY <1>4 DEF Release, Over, BytesInv, TypeOK, UsedPhases, callVars
  <2>11. used' \in [Claims -> Nat] /\ \A d \in Claims : used'[d] <= used[d]
    BY <1>4, VramRegAssumption DEF Release, Over, BytesInv, TypeOK
  <2>12. HeldFits'
    BY <2>11, NotMoreHeld
  <2>13. \A d \in Claims : Covered'[d] <= Covered[d]
    BY <1>4, VramRegAssumption DEF Release, Over, BytesInv, TypeOK, UsedPhases,
       Covered, callVars
  <2>14. CoveredFits'
    BY <2>9, <2>13, NotRaised
  <2> QED
    BY <2>2, <2>9, <2>10, <2>12, <2>14 DEF BytesInv
<1>5. CASE Resize(c)
  <2>1. PICK b \in 0 .. used[c] + FreeNow :
           used' = [used EXCEPT ![c] = b] /\ ask' = [ask EXCEPT ![c] = Min({ask[c], b})]
    BY <1>5 DEF Resize
  <2>2. b \in Nat /\ HeldFits' /\ used' \in [Claims -> 0 .. Total]
    BY <2>1, HandedOut
  <2>3. /\ ask' = [ask EXCEPT ![c] = IF ask[c] <= b THEN ask[c] ELSE b]
        /\ ask \in [Claims -> Nat] /\ used \in [Claims -> Nat]
    <3>1. ask \in [Claims -> Nat] /\ used \in [Claims -> Nat]
      BY VramRegAssumption DEF BytesInv, TypeOK
    <3>2. ask[c] \in Int /\ b \in Int
      BY <2>2, <3>1
    <3>3. Min({ask[c], b}) = IF ask[c] <= b THEN ask[c] ELSE b
      BY <3>2, MinOfTwo
    <3> QED
      BY <2>1, <3>1, <3>3
  <2>4. ledger' \subseteq Entries /\ IsFiniteSet(ledger')
    BY <1>5 DEF Resize, BytesInv, TypeOK
  <2>5. queues' \in [Claims -> BOOLEAN] /\ alive' \in [Procs -> BOOLEAN]
    BY <1>5 DEF Resize, BytesInv, TypeOK
  <2>6. inc' \in [Procs -> 0 .. MaxInc] /\ capacity' \in Capacities
    BY <1>5 DEF Resize, BytesInv, TypeOK
  <2>7. spare' \in [Claims -> {Blame, Second} \cup 0 .. Total]
    BY <1>5 DEF Resize, BytesInv, TypeOK
  <2>8. pc' = pc /\ pc[c] \in {"committed", "bareUp"}
    BY <1>5 DEF Resize
  <2>9. ask' \in [Claims -> Nat]
    BY <2>2, <2>3
  <2>10. TypeOK'
    BY <2>2, <2>4, <2>5, <2>6, <2>7, <2>8, <2>9 DEF TypeOK, BytesInv
  <2>11. UsedPhases'
    BY <2>1, <2>2, <2>3, <2>8 DEF BytesInv, UsedPhases
  <2>12. \A d \in Claims : Covered'[d] <= Covered[d]
    BY <2>1, <2>2, <2>3, <2>8 DEF BytesInv, UsedPhases, Covered
  <2>13. CoveredFits'
    BY <2>10, <2>12, NotRaised
  <2> QED
    BY <2>2, <2>4, <2>10, <2>11, <2>13 DEF BytesInv
<1> QED
  BY <1>1, <1>2, <1>3, <1>4, <1>5

\* The bytes after a refusal.
LEMMA RefusedBytes ==
    ASSUME IInv, BytesInv, NEW c \in Claims,
           LoadRefused(c) \/ ClaimSpare(c) \/ LoadBare(c) \/ AllocateBare(c) \/ FreeBare(c)
    PROVE  BytesInv'
<1>1. CASE LoadRefused(c)
  <2>1. ledger' \subseteq Entries /\ IsFiniteSet(ledger')
    BY <1>1 DEF LoadRefused, Over, BytesInv, TypeOK, callVars
  <2>2. used' \in [Claims -> 0 .. Total]
    BY <1>1, VramRegAssumption DEF LoadRefused, Over, BytesInv, TypeOK
  <2>3. queues' \in [Claims -> BOOLEAN] /\ alive' \in [Procs -> BOOLEAN]
    BY <1>1 DEF LoadRefused, Over, BytesInv, TypeOK, callVars
  <2>4. inc' \in [Procs -> 0 .. MaxInc] /\ capacity' \in Capacities
    BY <1>1 DEF LoadRefused, Over, BytesInv, TypeOK, callVars
  <2>5. spare' \in [Claims -> {Blame, Second} \cup 0 .. Total]
    BY <1>1 DEF LoadRefused, Over, BytesInv, TypeOK, callVars
  <2>6. pc' \in [Claims -> {"idle", "poll", "queued", "giveUp", "refused", "claimed",
                           "allocated", "committed", "freed", "bare", "bareUp"}]
    BY <1>1 DEF LoadRefused, Over, BytesInv, TypeOK
  <2>7. ask' \in [Claims -> Nat]
    BY <1>1, VramRegAssumption DEF LoadRefused, Over, BytesInv, TypeOK, callVars
  <2>8. TypeOK'
    BY <2>1, <2>2, <2>3, <2>4, <2>5, <2>6, <2>7 DEF TypeOK
  <2>9. UsedPhases'
    BY <1>1 DEF LoadRefused, Over, BytesInv, TypeOK, UsedPhases, callVars
  <2>10. used' \in [Claims -> Nat] /\ \A d \in Claims : used'[d] <= used[d]
    BY <1>1, VramRegAssumption DEF LoadRefused, Over, BytesInv, TypeOK
  <2>11. HeldFits'
    BY <2>10, NotMoreHeld
  <2>12. \A d \in Claims : Covered'[d] <= Covered[d]
    BY <1>1, VramRegAssumption DEF LoadRefused, Over, BytesInv, TypeOK, UsedPhases,
       Covered, callVars
  <2>13. CoveredFits'
    BY <2>8, <2>12, NotRaised
  <2> QED
    BY <2>1, <2>8, <2>9, <2>11, <2>13 DEF BytesInv
<1>2. CASE ClaimSpare(c)
  <2>1. ledger' \subseteq Entries /\ IsFiniteSet(ledger')
    BY <1>2 DEF ClaimSpare, BytesInv, TypeOK, callVars
  <2>2. used' \in [Claims -> 0 .. Total]
    BY <1>2, VramRegAssumption DEF ClaimSpare, BytesInv, TypeOK
  <2>3. queues' \in [Claims -> BOOLEAN] /\ alive' \in [Procs -> BOOLEAN]
    BY <1>2 DEF ClaimSpare, BytesInv, TypeOK, callVars
  <2>4. inc' \in [Procs -> 0 .. MaxInc] /\ capacity' \in Capacities
    BY <1>2 DEF ClaimSpare, BytesInv, TypeOK, callVars
  <2>5. spare' \in [Claims -> {Blame, Second} \cup 0 .. Total]
    BY <1>2 DEF ClaimSpare, BytesInv, TypeOK, callVars
  <2>6. pc' \in [Claims -> {"idle", "poll", "queued", "giveUp", "refused", "claimed",
                           "allocated", "committed", "freed", "bare", "bareUp"}]
    BY <1>2 DEF ClaimSpare, BytesInv, TypeOK
  <2>7. ask' \in [Claims -> Nat]
    BY <1>2, VramRegAssumption DEF ClaimSpare, BytesInv, TypeOK, callVars, Blame, Second
  <2>8. TypeOK'
    BY <2>1, <2>2, <2>3, <2>4, <2>5, <2>6, <2>7 DEF TypeOK
  <2>9. UsedPhases'
    BY <1>2 DEF ClaimSpare, BytesInv, TypeOK, UsedPhases, callVars
  <2>10. used' \in [Claims -> Nat] /\ \A d \in Claims : used'[d] <= used[d]
    BY <1>2, VramRegAssumption DEF ClaimSpare, BytesInv, TypeOK
  <2>11. HeldFits'
    BY <2>10, NotMoreHeld
  <2>12. \A d \in Claims : Covered'[d] <= Covered[d]
    <3>1. /\ used' = used /\ used \in [Claims -> Nat] /\ ask \in [Claims -> Nat] /\ used[c] = 0
          /\ \A d \in Claims : d # c => ask'[d] = ask[d] /\ pc'[d] = pc[d]
          /\ pc'[c] = "poll" /\ pc[c] # "claimed"
      BY <1>2, VramRegAssumption DEF ClaimSpare, BytesInv, TypeOK, UsedPhases
    <3> QED
      BY <2>7, <3>1 DEF Covered
  <2>13. CoveredFits'
    BY <2>8, <2>12, NotRaised
  <2> QED
    BY <2>1, <2>8, <2>9, <2>11, <2>13 DEF BytesInv
<1>3. CASE LoadBare(c)
  <2>1. ledger' \subseteq Entries /\ IsFiniteSet(ledger')
    BY <1>3 DEF LoadBare, BytesInv, TypeOK, callVars
  <2>2. used' \in [Claims -> 0 .. Total]
    BY <1>3, VramRegAssumption DEF LoadBare, BytesInv, TypeOK
  <2>3. queues' \in [Claims -> BOOLEAN] /\ alive' \in [Procs -> BOOLEAN]
    BY <1>3 DEF LoadBare, BytesInv, TypeOK, callVars
  <2>4. inc' \in [Procs -> 0 .. MaxInc] /\ capacity' \in Capacities
    BY <1>3 DEF LoadBare, BytesInv, TypeOK, callVars
  <2>5. spare' \in [Claims -> {Blame, Second} \cup 0 .. Total]
    BY <1>3 DEF LoadBare, BytesInv, TypeOK, callVars
  <2>6. pc' \in [Claims -> {"idle", "poll", "queued", "giveUp", "refused", "claimed",
                           "allocated", "committed", "freed", "bare", "bareUp"}]
    BY <1>3 DEF LoadBare, BytesInv, TypeOK
  <2>7. ask' \in [Claims -> Nat]
    BY <1>3, VramRegAssumption DEF LoadBare, BytesInv, TypeOK, callVars
  <2>8. TypeOK'
    BY <2>1, <2>2, <2>3, <2>4, <2>5, <2>6, <2>7 DEF TypeOK
  <2>9. UsedPhases'
    BY <1>3 DEF LoadBare, BytesInv, TypeOK, UsedPhases, callVars
  <2>10. used' \in [Claims -> Nat] /\ \A d \in Claims : used'[d] <= used[d]
    BY <1>3, VramRegAssumption DEF LoadBare, BytesInv, TypeOK
  <2>11. HeldFits'
    BY <2>10, NotMoreHeld
  <2>12. \A d \in Claims : Covered'[d] <= Covered[d]
    BY <1>3, VramRegAssumption DEF LoadBare, BytesInv, TypeOK, UsedPhases,
       Covered, callVars
  <2>13. CoveredFits'
    BY <2>8, <2>12, NotRaised
  <2> QED
    BY <2>1, <2>8, <2>9, <2>11, <2>13 DEF BytesInv
<1>4. CASE AllocateBare(c)
  <2>1. used[c] = 0 /\ ask[c] = 0
    BY <1>4, VramRegAssumption DEF AllocateBare, BytesInv, UsedPhases, TypeOK
  <2>2. PICK b \in 0 .. FreeNow : used' = [used EXCEPT ![c] = b]
    BY <1>4 DEF AllocateBare
  <2>3. b \in Nat /\ HeldFits' /\ used' \in [Claims -> 0 .. Total]
    <3>1. b \in 0 .. used[c] + FreeNow
      BY <2>1, <2>2, FreeNowInt
    <3> QED
      BY <2>2, <3>1, HandedOut
  <2>4. ledger' \subseteq Entries /\ IsFiniteSet(ledger')
    BY <1>4 DEF AllocateBare, Returned, BytesInv, TypeOK, callVars
  <2>5. queues' \in [Claims -> BOOLEAN] /\ alive' \in [Procs -> BOOLEAN]
    BY <1>4 DEF AllocateBare, Returned, BytesInv, TypeOK, callVars
  <2>6. inc' \in [Procs -> 0 .. MaxInc] /\ capacity' \in Capacities
    BY <1>4 DEF AllocateBare, Returned, BytesInv, TypeOK, callVars
  <2>7. spare' \in [Claims -> {Blame, Second} \cup 0 .. Total]
    BY <1>4 DEF AllocateBare, Returned, BytesInv, TypeOK, callVars
  <2>8. pc' \in [Claims -> {"idle", "poll", "queued", "giveUp", "refused", "claimed",
                           "allocated", "committed", "freed", "bare", "bareUp"}]
    BY <1>4 DEF AllocateBare, Returned, BytesInv, TypeOK
  <2>9. ask' \in [Claims -> Nat]
    BY <1>4, VramRegAssumption DEF AllocateBare, Returned, BytesInv, TypeOK, callVars
  <2>10. TypeOK'
    BY <2>4, <2>3, <2>5, <2>6, <2>7, <2>8, <2>9 DEF TypeOK
  <2>11. UsedPhases'
    BY <1>4, <2>1, <2>2, <2>3 DEF AllocateBare, Returned, BytesInv, TypeOK, UsedPhases, callVars
  <2>12. \A d \in Claims : Covered'[d] <= Covered[d]
    BY <1>4, <2>1, <2>2, <2>3, VramRegAssumption DEF AllocateBare, Returned, BytesInv, TypeOK, UsedPhases,
       Covered, callVars
  <2>13. CoveredFits'
    BY <2>10, <2>12, NotRaised
  <2> QED
    BY <2>4, <2>10, <2>11, <2>3, <2>13 DEF BytesInv
<1>5. CASE FreeBare(c)
  <2>1. ledger' \subseteq Entries /\ IsFiniteSet(ledger')
    BY <1>5 DEF FreeBare, Over, BytesInv, TypeOK, callVars
  <2>2. used' \in [Claims -> 0 .. Total]
    BY <1>5, VramRegAssumption DEF FreeBare, Over, BytesInv, TypeOK
  <2>3. queues' \in [Claims -> BOOLEAN] /\ alive' \in [Procs -> BOOLEAN]
    BY <1>5 DEF FreeBare, Over, BytesInv, TypeOK, callVars
  <2>4. inc' \in [Procs -> 0 .. MaxInc] /\ capacity' \in Capacities
    BY <1>5 DEF FreeBare, Over, BytesInv, TypeOK, callVars
  <2>5. spare' \in [Claims -> {Blame, Second} \cup 0 .. Total]
    BY <1>5 DEF FreeBare, Over, BytesInv, TypeOK, callVars
  <2>6. pc' \in [Claims -> {"idle", "poll", "queued", "giveUp", "refused", "claimed",
                           "allocated", "committed", "freed", "bare", "bareUp"}]
    BY <1>5 DEF FreeBare, Over, BytesInv, TypeOK
  <2>7. ask' \in [Claims -> Nat]
    BY <1>5, VramRegAssumption DEF FreeBare, Over, BytesInv, TypeOK, callVars
  <2>8. TypeOK'
    BY <2>1, <2>2, <2>3, <2>4, <2>5, <2>6, <2>7 DEF TypeOK
  <2>9. UsedPhases'
    BY <1>5 DEF FreeBare, Over, BytesInv, TypeOK, UsedPhases, callVars
  <2>10. used' \in [Claims -> Nat] /\ \A d \in Claims : used'[d] <= used[d]
    BY <1>5, VramRegAssumption DEF FreeBare, Over, BytesInv, TypeOK
  <2>11. HeldFits'
    BY <2>10, NotMoreHeld
  <2>12. \A d \in Claims : Covered'[d] <= Covered[d]
    BY <1>5, VramRegAssumption DEF FreeBare, Over, BytesInv, TypeOK, UsedPhases,
       Covered, callVars
  <2>13. CoveredFits'
    BY <2>8, <2>12, NotRaised
  <2> QED
    BY <2>1, <2>8, <2>9, <2>11, <2>13 DEF BytesInv
<1> QED
  BY <1>1, <1>2, <1>3, <1>4, <1>5

\* The bytes of a runner that dies, and of a pid that comes back.
LEMMA ProcessBytes ==
    ASSUME IInv, BytesInv, NEW p \in Procs,
           Kill(p) \/ Reuse(p)
    PROVE  BytesInv'
<1>1. CASE Kill(p)
  <2>1. ledger' \subseteq Entries /\ IsFiniteSet(ledger')
    BY <1>1 DEF Kill, Over, BytesInv, TypeOK, callVars
  <2>2. used' \in [Claims -> 0 .. Total]
    BY <1>1, VramRegAssumption DEF Kill, Over, BytesInv, TypeOK
  <2>3. queues' \in [Claims -> BOOLEAN] /\ alive' \in [Procs -> BOOLEAN]
    BY <1>1 DEF Kill, Over, BytesInv, TypeOK, callVars
  <2>4. inc' \in [Procs -> 0 .. MaxInc] /\ capacity' \in Capacities
    BY <1>1 DEF Kill, Over, BytesInv, TypeOK, callVars
  <2>5. spare' \in [Claims -> {Blame, Second} \cup 0 .. Total]
    BY <1>1 DEF Kill, Over, BytesInv, TypeOK, callVars
  <2>6. pc' \in [Claims -> {"idle", "poll", "queued", "giveUp", "refused", "claimed",
                           "allocated", "committed", "freed", "bare", "bareUp"}]
    BY <1>1 DEF Kill, Over, BytesInv, TypeOK
  <2>7. ask' \in [Claims -> Nat]
    BY <1>1, VramRegAssumption DEF Kill, Over, BytesInv, TypeOK, callVars
  <2>8. TypeOK'
    BY <2>1, <2>2, <2>3, <2>4, <2>5, <2>6, <2>7 DEF TypeOK
  <2>9. UsedPhases'
    BY <1>1 DEF Kill, Over, BytesInv, TypeOK, UsedPhases, callVars
  <2>10. used' \in [Claims -> Nat] /\ \A d \in Claims : used'[d] <= used[d]
    BY <1>1, VramRegAssumption DEF Kill, Over, BytesInv, TypeOK
  <2>11. HeldFits'
    BY <2>10, NotMoreHeld
  <2>12. \A d \in Claims : Covered'[d] <= Covered[d]
    BY <1>1, VramRegAssumption DEF Kill, Over, BytesInv, TypeOK, UsedPhases,
       Covered, callVars
  <2>13. CoveredFits'
    BY <2>8, <2>12, NotRaised
  <2> QED
    BY <2>1, <2>8, <2>9, <2>11, <2>13 DEF BytesInv
<1>2. CASE Reuse(p)
  <2>1. ledger' \subseteq Entries /\ IsFiniteSet(ledger')
    BY <1>2 DEF Reuse, BytesInv, TypeOK, callVars
  <2>2. used' \in [Claims -> 0 .. Total]
    BY <1>2, VramRegAssumption DEF Reuse, BytesInv, TypeOK
  <2>3. queues' \in [Claims -> BOOLEAN] /\ alive' \in [Procs -> BOOLEAN]
    BY <1>2 DEF Reuse, BytesInv, TypeOK, callVars
  <2>4. inc \in [Procs -> Nat] /\ IsFiniteSet(Procs) /\ {p} \in SUBSET Procs
    BY VramRegAssumption DEF BytesInv, TypeOK
  <2>5. \A q \in Procs : inc[q] \in Nat /\ inc[q] \in Int
    BY <2>4
  <2>6. SumFunctionOnSet(inc, Procs) = inc[p] + SumFunctionOnSet(inc, Procs \ {p})
    BY <2>4, <2>5, SumApart
  <2>7. SumFunctionOnSet(inc, Procs \ {p}) \in Nat
    <3>1. IsFiniteSet(Procs \ {p}) /\ \A q \in Procs \ {p} : inc[q] \in Nat
      BY <2>4, <2>5, FS_RemoveElement
    <3> QED
      BY <3>1, SumNat
  <2>8. inc[p] + 1 \in 0 .. MaxInc
    BY <1>2, <2>5, <2>6, <2>7, VramRegAssumption DEF Reuse, Reuses
  <2>9. inc' \in [Procs -> 0 .. MaxInc] /\ capacity' \in Capacities
    BY <1>2, <2>8 DEF Reuse, BytesInv, TypeOK
  <2>10. spare' \in [Claims -> {Blame, Second} \cup 0 .. Total]
    BY <1>2 DEF Reuse, BytesInv, TypeOK, callVars
  <2>11. pc' \in [Claims -> {"idle", "poll", "queued", "giveUp", "refused", "claimed",
                           "allocated", "committed", "freed", "bare", "bareUp"}]
    BY <1>2 DEF Reuse, BytesInv, TypeOK
  <2>12. ask' \in [Claims -> Nat]
    BY <1>2, VramRegAssumption DEF Reuse, BytesInv, TypeOK, callVars
  <2>13. TypeOK'
    BY <2>1, <2>2, <2>3, <2>9, <2>10, <2>11, <2>12 DEF TypeOK
  <2>14. UsedPhases'
    BY <1>2 DEF Reuse, BytesInv, TypeOK, UsedPhases, callVars
  <2>15. used' \in [Claims -> Nat] /\ \A d \in Claims : used'[d] <= used[d]
    BY <1>2, VramRegAssumption DEF Reuse, BytesInv, TypeOK
  <2>16. HeldFits'
    BY <2>15, NotMoreHeld
  <2>17. \A d \in Claims : Covered'[d] <= Covered[d]
    BY <1>2, VramRegAssumption DEF Reuse, BytesInv, TypeOK, UsedPhases,
       Covered, callVars
  <2>18. CoveredFits'
    BY <2>13, <2>17, NotRaised
  <2> QED
    BY <2>1, <2>13, <2>14, <2>16, <2>18 DEF BytesInv
<1> QED
  BY <1>1, <1>2

LEMMA BytesHold == Spec => []BytesInv
<1>1. Init => BytesInv
  <2> SUFFICES ASSUME Init PROVE BytesInv
    OBVIOUS
  <2>1. TypeOK
    <3>1. queues \in [Claims -> BOOLEAN] /\ alive \in [Procs -> BOOLEAN]
      BY DEF Init
    <3> QED
      BY <3>1, VramRegAssumption DEF Init, TypeOK
  <2>2. IsFiniteSet(ledger) /\ UsedPhases
    BY FS_EmptySet DEF Init, UsedPhases
  <2>3. \A c \in Claims : used[c] = 0 /\ Covered[c] = 0
    BY DEF Init, Covered
  <2>4. ASSUME NEW f, \A c \in Claims : f[c] = 0
        PROVE  SumFunctionOnSet(f, Claims) <= Total
    <3>1. SumFunctionOnSet(f, Claims) = 0
      BY <2>4, SumZero, VramRegAssumption
    <3> QED
      BY <3>1, VramRegAssumption
  <2>5. HeldFits
    BY <2>3, <2>4 DEF HeldFits
  <2>6. CoveredFits
    BY <2>3, <2>4 DEF CoveredFits
  <2> QED
    BY <2>1, <2>2, <2>5, <2>6 DEF BytesInv
<1>2. IInv /\ BytesInv /\ [Next]_vars => BytesInv'
  <2> SUFFICES ASSUME IInv, BytesInv, [Next]_vars PROVE BytesInv'
    OBVIOUS
  <2>1. CASE Next
    BY <2>1, ClaimBytes, LeaseBytes, RefusedBytes, ProcessBytes DEF Next
  <2>2. CASE UNCHANGED vars
    <3>1. Covered' = Covered
      BY <2>2 DEF Covered, vars, callVars
    <3>2. TypeOK'
      BY <2>2 DEF BytesInv, TypeOK, vars, callVars
    <3> QED
      BY <2>2, <3>1, <3>2 DEF vars, callVars, BytesInv, HeldFits, UsedPhases, CoveredFits
  <2> QED
    BY <2>1, <2>2
<1> QED
  BY <1>1, <1>2, InvHolds, PTL DEF Spec

\* The types of the ledger's state, the sizes among them: a poll reports no more than
\* the device has and a load never holds more (claim_rmw, model_vram_claim).
THEOREM VramTypeOK == Spec => []TypeOK
<1>1. BytesInv => TypeOK
  BY DEF BytesInv
<1> QED
  BY <1>1, BytesHold, PTL

\* The ledger promises no byte twice: whatever the order of claims, allocations,
\* commits, releases, kills and recycled pids, what is in use and what is pledged to
\* admitted loads exceed the device at most by what loads hold beyond their claims
\* (claim_rmw's admission test, gpu_init, which is not told the claim).
THEOREM VramPledgesCovered == Spec => []PledgesCovered
<1>1. BytesInv => PledgesCovered
  BY Accounts, VramRegAssumption DEF BytesInv, CoveredFits, PledgesCovered
<1> QED
  BY <1>1, BytesHold, PTL

\* A lease is in the ledger for as long as its runner holds it, whoever else reaps,
\* commits, releases or rolls back, and a live runner's entry goes with its claim
\* (claim_rmw, edit_rmw, reap).
THEOREM VramLedgerTells == Spec => []LedgerTells
<1>1. ASSUME IInv, NEW c \in Claims, pc[c] \in {"claimed", "allocated", "committed"}
      PROVE  {e \in Reap(ledger) : e.claim = c /\ e.state # "W"} =
             {IF pc[c] = "committed" THEN Committed(c) ELSE Entry(c, "P", ask[c])}
  <2> DEFINE lease == IF pc[c] = "committed" THEN Committed(c) ELSE Entry(c, "P", ask[c])
  <2>1. lease \in Reap(ledger) /\ lease.claim = c /\ lease.state # "W"
    BY <1>1 DEF IInv, LeasesRecorded, Incarnations, Reap, Entry, Committed
  <2>2. ASSUME NEW e \in Reap(ledger), e.claim = c, e.state # "W" PROVE e = lease
    <3>1. /\ e = [claim |-> c, inc |-> inc[Owner[c]], state |-> e.state, bytes |-> e.bytes]
          /\ e.state \in {"P", "C"}
      BY <1>1, <2>2 DEF IInv, LedgerTypes, Reap
    <3>2. CASE pc[c] = "committed"
      <4>1. e.state = "C" /\ e.bytes = 0
        BY <1>1, <2>2, <3>1, <3>2 DEF IInv, EntriesCurrent
      <4> QED
        BY <3>1, <3>2, <4>1 DEF Committed, Entry
    <3>3. CASE pc[c] # "committed"
      <4>1. e.state = "P" /\ e.bytes = ask[c]
        BY <1>1, <2>2, <3>1, <3>3 DEF IInv, EntriesCurrent
      <4> QED
        BY <3>1, <3>3, <4>1 DEF Entry
    <3> QED
      BY <3>2, <3>3
  <2> QED
    BY <2>1, <2>2
<1>2. ASSUME IInv, NEW c \in Claims, NEW e \in Reap(ledger), e.claim = c, e.state # "W",
             pc[c] \notin {"claimed", "allocated", "committed"}
      PROVE  pc[c] \in {"giveUp", "freed"}
  BY <1>2 DEF IInv, EntriesCurrent, LedgerTypes, Reap
<1>3. IInv => LedgerTells
  BY <1>1, <1>2 DEF LedgerTells
<1> QED
  BY <1>3, InvHolds, PTL

\* A marker of a live runner stands for a call that is still queueing: a wait that
\* ended, timed out or was cancelled holds nobody back.
THEOREM VramMarkersCurrent == Spec => []MarkersCurrent
<1>1. IInv => MarkersCurrent
  BY DEF IInv, EntriesCurrent, MarkersCurrent
<1> QED
  BY <1>1, InvHolds, PTL

\* Only the admission of a claim lets it hold a lease.
LEMMA ClaimedByAdmit ==
    ASSUME IInv, Next, NEW c \in Claims, pc[c] = "poll", pc'[c] = "claimed"
    PROVE  Admit(c)
<1>1. ASSUME NEW d \in Claims, Ask(d) \/ Defer(d) \/ Repoll(d) \/ StopWaiting(d) PROVE FALSE
  BY <1>1 DEF IInv, LedgerTypes, Ask, Defer, Repoll, StopWaiting
<1>2. ASSUME NEW d \in Claims, Rollback(d) \/ LeaseFail(d) \/ Allocate(d) \/ Commit(d)
                               \/ Resize(d) \/ FreeMemory(d) \/ Release(d)
      PROVE  FALSE
  BY <1>2 DEF IInv, LedgerTypes, Rollback, LeaseFail, Allocate, Commit, Resize, FreeMemory,
     Release, Over
<1>3. ASSUME NEW d \in Claims, LoadRefused(d) \/ ClaimSpare(d) \/ LoadBare(d)
                               \/ AllocateBare(d) \/ FreeBare(d)
      PROVE  FALSE
  BY <1>3 DEF IInv, LedgerTypes, LoadRefused, ClaimSpare, LoadBare, AllocateBare, FreeBare,
     Over
<1>4. ASSUME NEW p \in Procs, Kill(p) \/ Reuse(p) PROVE FALSE
  BY <1>4 DEF IInv, LedgerTypes, Kill, Reuse, Over
<1>5. ASSUME NEW d \in Claims, Admit(d) PROVE d = c
  BY <1>5 DEF IInv, LedgerTypes, Admit
<1> QED
  BY <1>1, <1>2, <1>3, <1>4, <1>5 DEF Next

\* claim_rmw admits no queueing claim past a recorded waiter of higher priority
\* whose request fits as well.
THEOREM VramPriorityRespected == Spec => PriorityRespected
<1>1. ASSUME IInv, Next, NEW c \in Claims, NEW d \in Claims,
             pc[c] = "poll", pc'[c] = "claimed", queues[c],
             pc[d] = "queued", Priority[d] > Priority[c],
             NEW e \in ledger, e.claim = d, e.state = "W"
      PROVE  ~(ask[d] <= Available(Reap(ledger)))
  <2>1. Fits(c, Seen(c))
    BY <1>1, ClaimedByAdmit DEF Admit
  <2>2. e \in Reap(ledger)
    BY <1>1 DEF IInv, QueuedFresh, Incarnations, Reap
  <2>3. e \in Seen(c) /\ e.bytes = ask[d]
    BY <1>1, <2>2 DEF Seen, IInv, EntriesCurrent
  <2>4. ~(e.bytes <= Available(Seen(c)))
    BY <1>1, <2>1, <2>3 DEF Fits, Outranked
  <2>5. {x \in Seen(c) : x.state = "P"} = {x \in Reap(ledger) : x.state = "P"}
    BY DEF Seen
  <2>6. Available(Seen(c)) = Available(Reap(ledger))
    BY <2>5 DEF Available
  <2> QED
    BY <2>3, <2>4, <2>6
<1>2. IInv /\ [Next]_vars =>
        [\A c, d \in Claims :
           /\ pc[c] = "poll" /\ pc'[c] = "claimed" /\ queues[c]
           /\ pc[d] = "queued" /\ Priority[d] > Priority[c]
           /\ \E e \in ledger : e.claim = d /\ e.state = "W"
           => ~(ask[d] <= Available(Reap(ledger)))]_vars
  BY <1>1
<1> QED
  BY <1>2, InvHolds, PTL DEF Spec, PriorityRespected

\* claim_rmw admits a claim only when it fits beside all that is in use, by loads
\* with and without a lease, and all that is pledged to other admitted loads: no
\* reap, commit, release or rollback has lost sight of one of them.
THEOREM VramAdmittedFits == Spec => AdmittedFits
<1>1. ASSUME IInv, BytesInv, Next, NEW c \in Claims,
             pc[c] = "poll", pc'[c] = "claimed", ask[c] > 0
      PROVE  SumFunctionOnSet(used, Claims) + SumFunctionOnSet(Pledged, Claims) + ask[c]
                <= Total
  BY <1>1, ClaimedByAdmit, AdmissionFits
<1>2. IInv /\ BytesInv /\ [Next]_vars =>
        [\A c \in Claims :
           pc[c] = "poll" /\ pc'[c] = "claimed" /\ ask[c] > 0
           => SumFunctionOnSet(used, Claims) + SumFunctionOnSet(Pledged, Claims) + ask[c]
                <= Total]_vars
  BY <1>1
<1> QED
  BY <1>2, InvHolds, BytesHold, PTL DEF Spec, AdmittedFits
=============================================================================
