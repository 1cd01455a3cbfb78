---------------------------- MODULE ServerProofs ----------------------------
(***************************************************************************)
(* Proofs about the server's end of a connection: the admission ring, for  *)
(* any slots, connections and sizes, and the stop of a run, for any number *)
(* of runs and stop requests.                                              *)
(***************************************************************************)
EXTENDS Admission, Drain, SequenceTheorems, TLAPS

-----------------------------------------------------------------------------
(***************************************************************************)
(* Admission for any number of connections and slots and every ring size:  *)
(* connections leave the ring in the order they entered it, and each one   *)
(* is answered and closed once.                                            *)
(***************************************************************************)

\* The Boolean variables, whose types the provers treat apart.
Flags == shutdown \in BOOLEAN /\ stop \in BOOLEAN

\* The ring's i-th entry, counted from head.
Entry(i) == (head + i - 1) % Ring

\* The ring holds what was pushed and not popped, from head on.
RingInv ==
    /\ tail = (head + count) % Ring
    /\ Len(pushed) = Len(popped) + count
    /\ \A i \in 1 .. Len(popped) : popped[i] = pushed[i]
    /\ \A i \in 1 .. count : fds[Entry(i)] = pushed[Len(popped) + i]

\* Who holds a connection at which point.
StageInv ==
    /\ afd # None <=> apc \in {"fastpath", "push"}
    /\ \A s \in Slots : sfd[s] # None <=> spc[s] = "serve"
    /\ apc \notin {"refuse", "joined"} => pending = <<>>
    /\ apc \in {"refuse", "joined"} => count = 0
    /\ apc = "joined" => pending = <<>> /\ \A s \in Slots : spc[s] = "exited"

\* Of the pushed connections the first Settled were handed to a slot or refused.
Settled == Len(popped) - Len(pending)

\* No connection is in two places, and none is forgotten.
ClosedOnce == \A c \in Conns : closes[c] \in {0, 1}

PushedOnce == \A i, j \in 1 .. Len(pushed) : pushed[i] = pushed[j] => i = j

\* The accept thread's connection is new ...
AcceptedIsNew ==
    afd # None => closes[afd] = 0 /\ \A i \in 1 .. Len(pushed) : pushed[i] # afd

\* ... a slot's is a settled one and the slot's alone ...
SlotsOwn ==
    /\ \A s \in Slots : sfd[s] # None =>
          closes[sfd[s]] = 0 /\ \E i \in 1 .. Settled : pushed[i] = sfd[s]
    /\ \A s, t \in Slots : sfd[s] # None /\ sfd[s] = sfd[t] => s = t

\* ... those queued or about to be refused are unanswered ...
RestUnanswered ==
    /\ Settled >= 0
    /\ \A i \in 1 .. Len(pending) : pending[i] = pushed[Settled + i]
    /\ \A i \in Settled + 1 .. Len(pushed) : closes[pushed[i]] = 0

\* ... and whatever is settled is answered or with a slot.
SettledAnswered ==
    \A i \in 1 .. Settled : closes[pushed[i]] = 1 \/ \E s \in Slots : sfd[s] = pushed[i]

PlacesInv ==
    /\ ClosedOnce /\ PushedOnce /\ AcceptedIsNew
    /\ SlotsOwn /\ RestUnanswered /\ SettledAnswered

IInv == TypeOK /\ RingInv /\ StageInv /\ PlacesInv
-----------------------------------------------------------------------------
\* An index that ran once past the end of the ring.
LEMMA Wrap ==
    ASSUME NEW x \in 0 .. 2 * Ring - 1
    PROVE  x % Ring = IF x < Ring THEN x ELSE x - Ring
<1>1. Ring \in Nat /\ Ring > 0
  BY AdmissionAssumption
<1> QED
  BY <1>1

\* The entries in use are entries of the ring, none of them the next free one.
LEMMA EntryRange ==
    ASSUME TypeOK, RingInv, NEW i \in 1 .. count
    PROVE  Entry(i) \in 0 .. Ring - 1 /\ (count < Ring => Entry(i) # tail)
<1>1. /\ Ring \in Nat /\ Ring > 0 /\ count \in Nat /\ count <= Ring
      /\ head \in 0 .. Ring - 1 /\ tail = (head + count) % Ring
  BY AdmissionAssumption DEF TypeOK, RingInv
<1>2. Entry(i) = IF head + i - 1 < Ring THEN head + i - 1 ELSE head + i - 1 - Ring
  BY <1>1, Wrap DEF Entry
<1>3. count < Ring => tail = IF head + count < Ring THEN head + count ELSE head + count - Ring
  BY <1>1, Wrap
<1> QED
  BY <1>1, <1>2, <1>3

\* What the shutdown takes out of the ring is the rest of what was pushed.
LEMMA RingContents ==
    ASSUME TypeOK, RingInv
    PROVE  /\ Contents \in Seq(Conns) /\ Len(Contents) = count
           /\ \A i \in 1 .. count : Contents[i] = pushed[Len(popped) + i]
           /\ pushed = popped \o Contents
<1>1. /\ count \in Nat /\ pushed \in Seq(Conns) /\ popped \in Seq(Conns)
      /\ Len(pushed) \in Nat /\ Len(popped) \in Nat
  BY AdmissionAssumption DEF TypeOK
<1>2. \A i \in 1 .. count : Contents[i] = pushed[Len(popped) + i]
  BY DEF Contents, RingInv, Entry
<1>3. \A i \in 1 .. count : Contents[i] \in Conns
  BY <1>1, <1>2 DEF RingInv
<1>4. Contents \in [1 .. count -> Conns]
  BY <1>3 DEF Contents
<1>5. Contents \in Seq(Conns) /\ Len(Contents) = count
  BY <1>1, <1>4
<1>6. /\ popped \o Contents \in Seq(Conns)
      /\ Len(popped \o Contents) = Len(pushed)
      /\ \A i \in 1 .. Len(pushed) : (popped \o Contents)[i] = pushed[i]
  <2>1. /\ Len(pushed) = Len(popped) + count
        /\ \A i \in 1 .. Len(popped) : popped[i] = pushed[i]
    BY DEF RingInv
  <2> QED
    BY <1>1, <1>2, <1>5, <2>1
<1>7. pushed = popped \o Contents
  BY <1>1, <1>6, SeqEqual
<1> QED
  BY <1>2, <1>5, <1>7

-----------------------------------------------------------------------------
LEMMA InitInv == Init => IInv
<1> SUFFICES ASSUME Init PROVE IInv
  OBVIOUS
<1> USE AdmissionAssumption DEF Init
<1>1. Flags
  BY DEF Flags
<1>2. TypeOK
  BY <1>1 DEF TypeOK, Flags
<1>3. RingInv
  BY DEF RingInv
<1>4. StageInv
  BY DEF StageInv
<1>5. PlacesInv
  BY DEF PlacesInv, ClosedOnce, PushedOnce, AcceptedIsNew, SlotsOwn, RestUnanswered,
     SettledAnswered, Settled
<1> QED
  BY <1>2, <1>3, <1>4, <1>5 DEF IInv

-----------------------------------------------------------------------------
\* Lengths and members of the sequences.
LEMMA SeqFacts ==
    ASSUME TypeOK, RingInv
    PROVE  /\ Len(pushed) \in Nat /\ Len(popped) \in Nat /\ Len(pending) \in Nat
           /\ Settled \in Int /\ Settled <= Len(pushed) /\ count \in Nat
           /\ \A i \in 1 .. Len(pushed) : pushed[i] \in Conns
BY AdmissionAssumption DEF TypeOK, RingInv, Settled

\* Steps that move no connection.
LEMMA PlacesKept ==
    ASSUME PlacesInv, UNCHANGED <<closes, pushed, popped, pending, afd, sfd>>
    PROVE  PlacesInv'
BY DEF PlacesInv, ClosedOnce, PushedOnce, AcceptedIsNew, SlotsOwn, RestUnanswered,
   SettledAnswered, Settled

\* The accept thread answers its connection itself.
LEMMA AcceptedClosed ==
    ASSUME TypeOK, RingInv, PlacesInv, afd # None, Close(afd), afd' = None,
           UNCHANGED <<pushed, popped, pending, sfd>>
    PROVE  PlacesInv'
<1>1. afd \in Conns /\ closes[afd] = 0 /\ \A i \in 1 .. Len(pushed) : pushed[i] # afd
  BY DEF TypeOK, PlacesInv, AcceptedIsNew
<1>2. closes'[afd] = 1 /\ \A c \in Conns : c # afd => closes'[c] = closes[c]
  BY <1>1 DEF TypeOK, Close
<1>3. \A i \in 1 .. Len(pushed) : closes'[pushed[i]] = closes[pushed[i]]
  BY <1>1, <1>2, SeqFacts
<1>4. Settled' = Settled
  BY DEF Settled
<1>5. ClosedOnce' /\ PushedOnce' /\ AcceptedIsNew'
  BY <1>2 DEF PlacesInv, ClosedOnce, PushedOnce, AcceptedIsNew
<1>6. SlotsOwn'
  BY <1>3, <1>4, SeqFacts DEF PlacesInv, SlotsOwn
<1>7. RestUnanswered'
  BY <1>3, <1>4, SeqFacts DEF PlacesInv, RestUnanswered
<1>8. SettledAnswered'
  BY <1>3, <1>4, SeqFacts DEF PlacesInv, SettledAnswered
<1> QED
  BY <1>5, <1>6, <1>7, <1>8 DEF PlacesInv

-----------------------------------------------------------------------------
\* The accept loop hands out, answers, queues and sheds connections.
LEMMA AcceptInv ==
    ASSUME IInv,
           RequestStop \/ Check \/ (\E c \in Backlog : Accept(c)) \/ AcceptFails
           \/ Fastpath \/ Push \/ Enqueue
              \/ LookFull \/ Shed
    PROVE  IInv'
<1> USE AdmissionAssumption DEF IInv, queueVars, acceptVars, slotVars
<1>1. CASE RequestStop
  <2>1. Flags'
    BY <1>1 DEF RequestStop, Flags, TypeOK
  <2>2. TypeOK'
    BY <1>1, <2>1 DEF RequestStop, Flags, TypeOK, StageInv
  <2>3. RingInv'
    BY <1>1 DEF RequestStop, RingInv, Entry
  <2>4. StageInv'
    BY <1>1 DEF RequestStop, TypeOK, StageInv
  <2>5. PlacesInv'
    BY <1>1, PlacesKept DEF RequestStop
  <2> QED
    BY <2>2, <2>3, <2>4, <2>5
<1>2. CASE Check
  <2>1. Flags'
    BY <1>2 DEF Check, Flags, TypeOK
  <2>2. TypeOK'
    BY <1>2, <2>1 DEF Check, Flags, TypeOK, StageInv
  <2>3. RingInv'
    BY <1>2 DEF Check, RingInv, Entry
  <2>4. StageInv'
    BY <1>2 DEF Check, TypeOK, StageInv
  <2>5. PlacesInv'
    BY <1>2, PlacesKept DEF Check
  <2> QED
    BY <2>2, <2>3, <2>4, <2>5
<1>3. ASSUME NEW c \in Backlog, Accept(c) PROVE IInv'
  <2>1. Flags'
    BY <1>3 DEF Accept, Backlog, Flags, TypeOK
  <2>2. TypeOK'
    BY <1>3, <2>1 DEF Accept, Backlog, Flags, TypeOK, StageInv
  <2>3. RingInv'
    BY <1>3 DEF Accept, Backlog, RingInv, Entry
  <2>4. StageInv'
    BY <1>3 DEF Accept, Backlog, TypeOK, StageInv
  <2>5. PlacesInv'
    BY <1>3 DEF Accept, Backlog, TypeOK, Backlog, PlacesInv, ClosedOnce, PushedOnce,
       AcceptedIsNew, SlotsOwn, RestUnanswered, SettledAnswered, Settled
  <2> QED
    BY <2>2, <2>3, <2>4, <2>5
<1>4. CASE AcceptFails
  <2>1. Flags'
    BY <1>4 DEF AcceptFails, Flags, TypeOK
  <2>2. TypeOK'
    BY <1>4, <2>1 DEF AcceptFails, Flags, TypeOK, StageInv
  <2>3. RingInv'
    BY <1>4 DEF AcceptFails, RingInv, Entry
  <2>4. StageInv'
    BY <1>4 DEF AcceptFails, TypeOK, StageInv
  <2>5. PlacesInv'
    BY <1>4, PlacesKept DEF AcceptFails
  <2> QED
    BY <2>2, <2>3, <2>4, <2>5
<1>5. CASE Fastpath
  <2>1. Flags'
    BY <1>5 DEF Fastpath, Close, Flags, TypeOK
  <2>2. TypeOK'
    BY <1>5, <2>1 DEF Fastpath, Close, Flags, TypeOK, StageInv
  <2>3. RingInv'
    BY <1>5 DEF Fastpath, Close, RingInv, Entry
  <2>4. StageInv'
    BY <1>5 DEF Fastpath, Close, TypeOK, StageInv
  <2>5. PlacesInv'
    BY <1>5, AcceptedClosed DEF Fastpath, Close, StageInv
  <2> QED
    BY <2>2, <2>3, <2>4, <2>5
<1>6. CASE Push
  <2>1. Flags'
    BY <1>6 DEF Push, Flags, TypeOK
  <2>2. TypeOK'
    BY <1>6, <2>1 DEF Push, Flags, TypeOK, StageInv
  <2>3. RingInv'
    BY <1>6 DEF Push, RingInv, Entry
  <2>4. StageInv'
    BY <1>6 DEF Push, TypeOK, StageInv
  <2>5. PlacesInv'
    BY <1>6, PlacesKept DEF Push
  <2> QED
    BY <2>2, <2>3, <2>4, <2>5
<1>7. CASE Enqueue
  <2>1. /\ afd \in Conns /\ afd # None /\ count < Limit /\ count \in Nat
        /\ head \in 0 .. Ring - 1 /\ Ring \in Nat /\ Ring > 0 /\ Limit \in 1 .. Ring
        /\ tail \in 0 .. Ring - 1 /\ tail = (head + count) % Ring
    BY <1>7 DEF Enqueue, HasRoom, TypeOK, RingInv, StageInv
  <2>2. /\ pushed' \in Seq(Conns) /\ Len(pushed') = Len(pushed) + 1
        /\ pushed'[Len(pushed) + 1] = afd
        /\ \A i \in 1 .. Len(pushed) : pushed'[i] = pushed[i]
    BY <1>7, <2>1 DEF Enqueue, TypeOK
  <2>3. UNCHANGED <<popped, pending, closes, head, sfd, Settled>> /\ pending = <<>>
    BY <1>7 DEF Enqueue, StageInv, Settled
  <2>4. TypeOK'
    <3>1. Flags'
      BY <1>7 DEF Enqueue, Flags, TypeOK
    <3>2. tail' \in 0 .. Ring - 1 /\ count' \in 0 .. Limit
      BY <1>7, <2>1 DEF Enqueue, Next1
    <3>3. asleep' \subseteq Slots
      BY <1>7 DEF Enqueue, Signal, TypeOK
    <3> QED
      BY <1>7, <2>1, <2>2, <3>1, <3>2, <3>3 DEF Enqueue, TypeOK, Flags
  <2>5. RingInv'
    <3>1. tail' = (head' + count') % Ring
      BY <1>7, <2>1, Wrap DEF Enqueue, Next1
    <3>2. \A i \in 1 .. count : Entry(i) \in 0 .. Ring - 1 /\ Entry(i) # tail
      BY <2>1, EntryRange
    <3>3. \A i \in 1 .. count : fds'[Entry(i)] = fds[Entry(i)]
      BY <1>7, <2>1, <3>2 DEF Enqueue, TypeOK
    <3>4. fds'[tail] = afd /\ tail = Entry(count + 1)
      BY <1>7, <2>1 DEF Enqueue, TypeOK, Entry
    <3>5. ASSUME NEW i \in 1 .. count + 1
          PROVE  fds'[Entry(i)] = pushed'[Len(popped) + i]
      <4>1. CASE i \in 1 .. count
        <5>1. fds[Entry(i)] = pushed[Len(popped) + i]
          BY <4>1 DEF RingInv
        <5>2. Len(popped) + i \in 1 .. Len(pushed)
          BY <4>1, SeqFacts DEF RingInv
        <5> QED
          BY <2>2, <3>3, <4>1, <5>1, <5>2
      <4>2. CASE i = count + 1
        <5>1. Len(popped) + i = Len(pushed) + 1
          BY <4>2, SeqFacts DEF RingInv
        <5> QED
          BY <2>2, <3>4, <4>2, <5>1
      <4> QED
        BY <2>1, <4>1, <4>2
    <3>6. count' = count + 1 /\ \A i : Entry(i)' = Entry(i)
      BY <1>7 DEF Enqueue, Entry
    <3>7. Len(pushed') = Len(popped') + count'
      BY <2>2, <2>3, <3>6, SeqFacts DEF RingInv
    <3>8. \A i \in 1 .. Len(popped') : popped'[i] = pushed'[i]
      BY <2>2, <2>3, SeqFacts DEF RingInv
    <3> QED
      BY <2>3, <3>1, <3>5, <3>6, <3>7, <3>8 DEF RingInv
  <2>6. StageInv'
    BY <1>7 DEF Enqueue, TypeOK, StageInv
  <2>7. PlacesInv'
    <3>1. Settled = Len(popped)
      BY <2>3 DEF Settled, TypeOK
    <3>2. ClosedOnce' /\ AcceptedIsNew'
      BY <1>7 DEF Enqueue, PlacesInv, ClosedOnce, AcceptedIsNew
    <3>3. PushedOnce'
      BY <2>1, <2>2, SeqFacts DEF PlacesInv, PushedOnce, AcceptedIsNew
    <3>4. SlotsOwn' /\ SettledAnswered'
      BY SMTT(30), <2>2, <2>3, SeqFacts DEF PlacesInv, SlotsOwn, SettledAnswered
    <3>5. RestUnanswered'
      BY <2>1, <2>2, <2>3, <3>1, SeqFacts DEF PlacesInv, RestUnanswered, AcceptedIsNew
    <3> QED
      BY <3>2, <3>3, <3>4, <3>5 DEF PlacesInv
  <2> QED
    BY <2>4, <2>5, <2>6, <2>7
<1>8. CASE LookFull
  <2>1. Flags'
    BY <1>8 DEF LookFull, Flags, TypeOK
  <2>2. TypeOK'
    BY <1>8, <2>1 DEF LookFull, Flags, TypeOK, StageInv
  <2>3. RingInv'
    BY <1>8 DEF LookFull, RingInv, Entry
  <2>4. StageInv'
    BY <1>8 DEF LookFull, TypeOK, StageInv
  <2>5. PlacesInv'
    BY <1>8, PlacesKept DEF LookFull
  <2> QED
    BY <2>2, <2>3, <2>4, <2>5
<1>9. CASE Shed
  <2>1. Flags'
    BY <1>9 DEF Shed, Close, Flags, TypeOK
  <2>2. TypeOK'
    BY <1>9, <2>1 DEF Shed, Close, Flags, TypeOK, StageInv
  <2>3. RingInv'
    BY <1>9 DEF Shed, Close, RingInv, Entry
  <2>4. StageInv'
    BY <1>9 DEF Shed, Close, TypeOK, StageInv
  <2>5. PlacesInv'
    BY <1>9, AcceptedClosed DEF Shed, Close, StageInv
  <2> QED
    BY <2>2, <2>3, <2>4, <2>5
<1> QED
  BY <1>1, <1>2, <1>3, <1>4, <1>5, <1>6, <1>7, <1>8, <1>9
-----------------------------------------------------------------------------
\* The shutdown empties the ring, refuses what was in it and joins the slots.
LEMMA ShutdownInv ==
    ASSUME IInv,
           QueueShutdown \/ Refuse \/ Join
    PROVE  IInv'
<1> USE AdmissionAssumption DEF IInv, queueVars, acceptVars, slotVars
<1>1. CASE QueueShutdown
  <2>1. /\ Contents \in Seq(Conns) /\ Len(Contents) = count
        /\ \A i \in 1 .. count : Contents[i] = pushed[Len(popped) + i]
        /\ pushed = popped \o Contents
    BY RingContents
  <2>2. popped' = pushed /\ pushed' = pushed /\ pending' = Contents /\ count' = 0
    BY <1>1, <2>1 DEF QueueShutdown
  <2>3. Settled = Len(popped) /\ Settled' = Settled
    BY <1>1, <2>1, <2>2, SeqFacts DEF QueueShutdown, StageInv, Settled, RingInv
  <2>4. TypeOK'
    <3>1. Flags'
      BY <1>1 DEF QueueShutdown, Flags, TypeOK
    <3>2. head' \in 0 .. Ring - 1 /\ count' \in 0 .. Limit
      BY <1>1 DEF QueueShutdown, TypeOK
    <3> QED
      BY <1>1, <2>1, <2>2, <3>1, <3>2 DEF QueueShutdown, TypeOK, Flags
  <2>5. RingInv'
    <3>1. tail' = (head' + count') % Ring
      <4>1. head' = tail /\ tail' = tail
        BY <1>1 DEF QueueShutdown, RingInv
      <4>2. tail \in 0 .. Ring - 1 /\ tail + 0 = tail /\ Ring \in Nat
        BY DEF TypeOK
      <4> QED
        BY <2>2, <4>1, <4>2, Wrap
    <3> QED
      BY <2>2, <3>1, SeqFacts DEF RingInv
  <2>6. StageInv'
    BY <1>1 DEF QueueShutdown, StageInv
  <2>7. PlacesInv'
    <3>1. UNCHANGED <<closes, pushed, afd, sfd>>
      BY <1>1 DEF QueueShutdown, slotVars
    <3>2. ClosedOnce' /\ PushedOnce' /\ AcceptedIsNew' /\ SlotsOwn' /\ SettledAnswered'
      BY <2>3, <3>1 DEF PlacesInv, ClosedOnce, PushedOnce, AcceptedIsNew, SlotsOwn,
         SettledAnswered
    <3>3. RestUnanswered'
      BY <2>1, <2>2, <2>3, <3>1 DEF PlacesInv, RestUnanswered
    <3> QED
      BY <3>2, <3>3 DEF PlacesInv
  <2> QED
    BY <2>4, <2>5, <2>6, <2>7
<1>2. CASE Refuse
  <2>1. Flags'
    BY <1>2 DEF Refuse, Close, Flags, TypeOK
  <2>2. TypeOK'
    BY <1>2, <2>1 DEF Refuse, Close, Flags, TypeOK, StageInv
  <2>3. RingInv'
    BY <1>2 DEF Refuse, Close, RingInv, Entry
  <2>4. StageInv'
    BY <1>2 DEF Refuse, Close, TypeOK, StageInv
  <2>5. PlacesInv'
    <3>1. /\ Len(pending) >= 1 /\ pending' \in Seq(Conns) /\ Len(pending') = Len(pending) - 1
          /\ \A i \in 1 .. Len(pending') : pending'[i] = pending[i + 1]
          /\ Head(pending) = pending[1]
      BY <1>2 DEF Refuse, TypeOK
    <3>2. Settled' = Settled + 1 /\ UNCHANGED <<pushed, popped, afd, sfd>>
      BY <1>2, <3>1, SeqFacts DEF Refuse, Settled
    <3>3. Head(pending) = pushed[Settled + 1] /\ Settled + 1 \in 1 .. Len(pushed)
      BY <3>1, SeqFacts DEF PlacesInv, RestUnanswered, Settled, RingInv
    <3>4. /\ closes[pushed[Settled + 1]] = 0 /\ closes'[pushed[Settled + 1]] = 1
          /\ \A c \in Conns : c # pushed[Settled + 1] => closes'[c] = closes[c]
      <4>1. Settled >= 0 /\ pushed[Settled + 1] \in Conns
        BY <3>3, SeqFacts DEF PlacesInv, RestUnanswered
      <4>2. Settled + 1 \in Settled + 1 .. Len(pushed)
        BY <3>3, SeqFacts
      <4>3. closes[pushed[Settled + 1]] = 0
        BY <4>2 DEF PlacesInv, RestUnanswered
      <4>4. closes' = [closes EXCEPT ![pushed[Settled + 1]] = @ + 1]
        BY <1>2, <3>3 DEF Refuse, Close
      <4> QED
        BY <4>1, <4>3, <4>4 DEF TypeOK
    <3>5. \A i \in 1 .. Len(pushed) : i # Settled + 1 =>
             closes'[pushed[i]] = closes[pushed[i]] /\ pushed[i] # pushed[Settled + 1]
      BY <3>3, <3>4, SeqFacts DEF PlacesInv, PushedOnce
    <3>6. ClosedOnce' /\ PushedOnce'
      BY <3>2, <3>4 DEF PlacesInv, ClosedOnce, PushedOnce
    <3>7. AcceptedIsNew'
      BY <3>2, <3>3, <3>4 DEF PlacesInv, AcceptedIsNew, TypeOK
    <3>8. SlotsOwn'
      BY <3>2, <3>5, SeqFacts DEF PlacesInv, SlotsOwn
    <3>9. RestUnanswered'
      <4>1. Settled' >= 0
        BY <3>2, SeqFacts DEF PlacesInv, RestUnanswered
      <4>2. ASSUME NEW i \in 1 .. Len(pending') PROVE pending'[i] = pushed[Settled' + i]
        <5>1. i + 1 \in 1 .. Len(pending)
          BY <3>1, SeqFacts
        <5>2. pending[i + 1] = pushed[Settled + (i + 1)]
          BY <5>1 DEF PlacesInv, RestUnanswered
        <5>3. Settled + (i + 1) = Settled' + i
          BY <3>2, SeqFacts
        <5> QED
          BY <3>1, <5>2, <5>3
      <4>3. ASSUME NEW i \in Settled' + 1 .. Len(pushed) PROVE closes'[pushed[i]] = 0
        <5>1. i \in Settled + 1 .. Len(pushed) /\ i \in 1 .. Len(pushed) /\ i # Settled + 1
          BY <3>2, SeqFacts DEF PlacesInv, RestUnanswered
        <5> QED
          BY <3>5, <5>1 DEF PlacesInv, RestUnanswered
      <4> QED
        BY <3>2, <4>1, <4>2, <4>3 DEF RestUnanswered
    <3>10. ASSUME NEW i \in 1 .. Settled'
           PROVE  closes'[pushed[i]] = 1 \/ \E s \in Slots : sfd[s] = pushed[i]
      <4>1. CASE i = Settled + 1
        BY <3>4, <4>1
      <4>2. CASE i # Settled + 1
        <5>1. i \in 1 .. Settled /\ i \in 1 .. Len(pushed)
          BY <3>2, <3>3, <4>2, SeqFacts DEF PlacesInv, RestUnanswered
        <5>2. closes[pushed[i]] = 1 \/ \E s \in Slots : sfd[s] = pushed[i]
          BY <5>1 DEF PlacesInv, SettledAnswered
        <5> QED
          BY <3>5, <4>2, <5>1, <5>2
      <4> QED
        BY <4>1, <4>2
    <3>11. SettledAnswered'
      BY <3>2, <3>10 DEF SettledAnswered
    <3> QED
      BY <3>6, <3>7, <3>8, <3>9, <3>11 DEF PlacesInv
  <2> QED
    BY <2>2, <2>3, <2>4, <2>5
<1>3. CASE Join
  <2>1. Flags'
    BY <1>3 DEF Join, Flags, TypeOK
  <2>2. TypeOK'
    BY <1>3, <2>1 DEF Join, Flags, TypeOK, StageInv
  <2>3. RingInv'
    BY <1>3 DEF Join, RingInv, Entry
  <2>4. StageInv'
    BY <1>3 DEF Join, TypeOK, StageInv
  <2>5. PlacesInv'
    BY <1>3, PlacesKept DEF Join
  <2> QED
    BY <2>2, <2>3, <2>4, <2>5
<1> QED
  BY <1>1, <1>2, <1>3
-----------------------------------------------------------------------------
\* A slot thread.
LEMMA SlotInv ==
    ASSUME IInv, NEW s \in Slots,
           Wait(s) \/ Spurious(s) \/ Pop(s) \/ PopShutdown(s) \/ Serve(s)
    PROVE  IInv'
<1> USE AdmissionAssumption DEF IInv, queueVars, acceptVars, slotVars
<1>1. CASE Wait(s)
  <2>1. Flags'
    BY <1>1 DEF Wait, Flags, TypeOK
  <2>2. TypeOK'
    BY <1>1, <2>1 DEF Wait, Flags, TypeOK, StageInv
  <2>3. RingInv'
    BY <1>1 DEF Wait, RingInv, Entry
  <2>4. StageInv'
    BY <1>1 DEF Wait, TypeOK, StageInv
  <2>5. PlacesInv'
    BY <1>1, PlacesKept DEF Wait
  <2> QED
    BY <2>2, <2>3, <2>4, <2>5
<1>2. CASE Spurious(s)
  <2>1. Flags'
    BY <1>2 DEF Spurious, Flags, TypeOK
  <2>2. TypeOK'
    BY <1>2, <2>1 DEF Spurious, Flags, TypeOK, StageInv
  <2>3. RingInv'
    BY <1>2 DEF Spurious, RingInv, Entry
  <2>4. StageInv'
    BY <1>2 DEF Spurious, TypeOK, StageInv
  <2>5. PlacesInv'
    BY <1>2, PlacesKept DEF Spurious
  <2> QED
    BY <2>2, <2>3, <2>4, <2>5
<1>3. CASE Pop(s)
  <2>1. /\ count \in Nat /\ count > 0 /\ head \in 0 .. Ring - 1 /\ Ring \in Nat /\ Ring > 0
        /\ count <= Ring /\ pending = <<>> /\ Settled = Len(popped)
    BY <1>3, SeqFacts DEF Pop, TypeOK, StageInv, Settled
  <2>2. fds[head] = pushed[Len(popped) + 1] /\ fds[head] \in Conns
    <3>1. Entry(1) = head /\ 1 \in 1 .. count
      BY <2>1, Wrap DEF Entry
    <3>2. fds[head] = pushed[Len(popped) + 1]
      BY <2>1, <3>1 DEF RingInv
    <3> QED
      BY <2>1, <3>2, SeqFacts DEF RingInv
  <2>3. /\ popped' \in Seq(Conns) /\ Len(popped') = Len(popped) + 1
        /\ popped'[Len(popped) + 1] = fds[head]
        /\ \A i \in 1 .. Len(popped) : popped'[i] = popped[i]
    BY <1>3, <2>2 DEF Pop, TypeOK
  <2>4. UNCHANGED <<pushed, closes, afd, pending, apc>> /\ Settled' = Settled + 1
    BY <1>3, <2>3, SeqFacts DEF Pop, Settled
  <2>5. \A t \in Slots : sfd'[t] = IF t = s THEN fds[head] ELSE sfd[t]
    BY <1>3 DEF Pop, TypeOK
  <2>6. TypeOK'
    <3>1. Flags'
      BY <1>3 DEF Pop, Flags, TypeOK
    <3>2. head' \in 0 .. Ring - 1 /\ count' \in 0 .. Limit
      BY <1>3, <2>1 DEF Pop, Next1, TypeOK
    <3> QED
      BY <1>3, <2>2, <2>3, <3>1, <3>2 DEF Pop, TypeOK, Flags
  <2>7. RingInv'
    <3>1. count' = count - 1 /\ head' = IF head = Ring - 1 THEN 0 ELSE head + 1
      BY <1>3, <2>1, Wrap DEF Pop, Next1
    <3>2. tail' = (head' + count') % Ring
      <4>1. tail' = (head + count) % Ring
        BY <1>3 DEF Pop, RingInv
      <4> QED
        BY <2>1, <3>1, <4>1, Wrap
    <3>3. \A i \in 1 .. count - 1 : Entry(i)' = Entry(i + 1)
      BY <2>1, <3>1, Wrap DEF Entry
    <3>4. ASSUME NEW i \in 1 .. count - 1
          PROVE  fds'[Entry(i)'] = pushed'[Len(popped') + i]
      <4>1. i + 1 \in 1 .. count
        BY <2>1
      <4>2. fds[Entry(i + 1)] = pushed[Len(popped) + (i + 1)]
        BY <4>1 DEF RingInv
      <4>3. Len(popped) + (i + 1) = Len(popped') + i
        BY <2>3, SeqFacts
      <4> QED
        BY <1>3, <2>4, <3>3, <4>2, <4>3 DEF Pop
    <3>5. Len(pushed') = Len(popped') + count'
      BY SMTT(30), <2>3, <2>4, <3>1, SeqFacts DEF RingInv
    <3>6. \A i \in 1 .. Len(popped') : popped'[i] = pushed'[i]
      BY <2>2, <2>3, <2>4, SeqFacts DEF RingInv
    <3> QED
      BY <3>1, <3>2, <3>4, <3>5, <3>6 DEF RingInv
  <2>8. StageInv'
    BY <1>3, <2>1, <2>2, <2>5 DEF Pop, TypeOK, StageInv
  <2>9. PlacesInv'
    <3>1. Settled + 1 \in 1 .. Len(pushed) /\ fds[head] = pushed[Settled + 1]
      BY <2>1, <2>2, SeqFacts DEF RingInv
    <3>2. ClosedOnce' /\ PushedOnce' /\ AcceptedIsNew'
      BY <2>4 DEF PlacesInv, ClosedOnce, PushedOnce, AcceptedIsNew
    <3>3. \A t \in Slots : sfd[t] # None => sfd[t] # fds[head]
      BY <3>1, SeqFacts DEF PlacesInv, SlotsOwn, PushedOnce
    <3>4. SlotsOwn'
      <4>1. closes[fds[head]] = 0
        BY <3>1, SeqFacts DEF PlacesInv, RestUnanswered
      <4>2. \A t \in Slots : sfd'[t] # None =>
               closes'[sfd'[t]] = 0 /\ \E i \in 1 .. Settled' : pushed'[i] = sfd'[t]
        <5>1. ASSUME NEW t \in Slots, t = s
              PROVE  closes'[sfd'[t]] = 0 /\ \E i \in 1 .. Settled' : pushed'[i] = sfd'[t]
          BY <2>4, <2>5, <3>1, <4>1, <5>1, SeqFacts
        <5>2. ASSUME NEW t \in Slots, t # s, sfd[t] # None
              PROVE  closes'[sfd'[t]] = 0 /\ \E i \in 1 .. Settled' : pushed'[i] = sfd'[t]
          <6>1. PICK i \in 1 .. Settled : pushed[i] = sfd[t]
            BY <5>2 DEF PlacesInv, SlotsOwn
          <6>2. i \in 1 .. Settled'
            BY <2>4, <6>1, SeqFacts
          <6> QED
            BY <2>4, <2>5, <5>2, <6>1, <6>2 DEF PlacesInv, SlotsOwn
        <5> QED
          BY <2>5, <5>1, <5>2
      <4> QED
        BY <2>5, <3>3, <4>2 DEF PlacesInv, SlotsOwn
    <3>5. RestUnanswered'
      BY <2>1, <2>4, SeqFacts DEF PlacesInv, RestUnanswered
    <3>6. SettledAnswered'
      <4>1. s \in Slots /\ sfd'[s] = pushed[Settled + 1]
        BY <2>5, <3>1
      <4>2. sfd[s] = None
        BY <1>3 DEF Pop, StageInv
      <4>3. ASSUME NEW i \in 1 .. Settled, NEW t \in Slots, sfd[t] = pushed[i]
            PROVE  sfd'[t] = pushed[i]
        BY <2>5, <4>2, <4>3, SeqFacts
      <4> QED
        BY <2>4, <3>1, <4>1, <4>3, SeqFacts DEF PlacesInv, SettledAnswered
    <3> QED
      BY <3>2, <3>4, <3>5, <3>6 DEF PlacesInv
  <2> QED
    BY <2>6, <2>7, <2>8, <2>9
<1>4. CASE PopShutdown(s)
  <2>1. Flags'
    BY <1>4 DEF PopShutdown, Flags, TypeOK
  <2>2. TypeOK'
    BY <1>4, <2>1 DEF PopShutdown, Flags, TypeOK, StageInv
  <2>3. RingInv'
    BY <1>4 DEF PopShutdown, RingInv, Entry
  <2>4. StageInv'
    BY <1>4 DEF PopShutdown, TypeOK, StageInv
  <2>5. PlacesInv'
    BY <1>4, PlacesKept DEF PopShutdown
  <2> QED
    BY <2>2, <2>3, <2>4, <2>5
<1>5. CASE Serve(s)
  <2>1. Flags'
    BY <1>5 DEF Serve, Close, Flags, TypeOK
  <2>2. TypeOK'
    BY <1>5, <2>1 DEF Serve, Close, Flags, TypeOK, StageInv
  <2>3. RingInv'
    BY <1>5 DEF Serve, Close, RingInv, Entry
  <2>4. StageInv'
    BY <1>5 DEF Serve, Close, TypeOK, StageInv
  <2>5. PlacesInv'
    <3>1. /\ sfd[s] \in Conns /\ sfd[s] # None /\ closes[sfd[s]] = 0
          /\ UNCHANGED <<pushed, popped, pending, afd, Settled>>
      BY <1>5 DEF Serve, TypeOK, StageInv, PlacesInv, SlotsOwn, Settled
    <3>2. PICK k \in 1 .. Settled : pushed[k] = sfd[s]
      BY <3>1 DEF PlacesInv, SlotsOwn
    <3>3. closes'[sfd[s]] = 1 /\ \A c \in Conns : c # sfd[s] => closes'[c] = closes[c]
      BY <1>5, <3>1 DEF Serve, Close, TypeOK
    <3>4. \A i \in 1 .. Len(pushed) : i # k => pushed[i] # sfd[s]
      BY <3>2, SeqFacts DEF PlacesInv, PushedOnce
    <3>5. \A t \in Slots : sfd'[t] = IF t = s THEN None ELSE sfd[t]
      BY <1>5 DEF Serve, TypeOK
    <3>6. ClosedOnce' /\ PushedOnce'
      BY <3>1, <3>3 DEF PlacesInv, ClosedOnce, PushedOnce
    <3>7. AcceptedIsNew'
      <4>1. k \in 1 .. Len(pushed)
        BY <3>2, SeqFacts
      <4>2. afd # None => afd \in Conns /\ afd # sfd[s]
        BY <3>2, <4>1 DEF PlacesInv, AcceptedIsNew, TypeOK
      <4> QED
        BY <3>1, <3>3, <4>2 DEF PlacesInv, AcceptedIsNew
    <3>8. SlotsOwn'
      <4>1. ASSUME NEW t \in Slots, sfd'[t] # None
            PROVE  t # s /\ sfd'[t] = sfd[t] /\ sfd[t] \in Conns /\ sfd[t] # sfd[s]
        BY SMTT(30), <3>1, <3>5, <4>1 DEF PlacesInv, SlotsOwn, TypeOK
      <4>2. \A t \in Slots : sfd'[t] # None =>
               closes'[sfd'[t]] = 0 /\ \E i \in 1 .. Settled' : pushed'[i] = sfd'[t]
        BY <3>1, <3>3, <4>1 DEF PlacesInv, SlotsOwn
      <4>3. \A t, u \in Slots : sfd'[t] # None /\ sfd'[t] = sfd'[u] => t = u
        BY <4>1 DEF PlacesInv, SlotsOwn
      <4> QED
        BY <4>2, <4>3 DEF SlotsOwn
    <3>9. RestUnanswered'
      <4>1. \A i \in Settled + 1 .. Len(pushed) : i \in 1 .. Len(pushed) /\ i # k
        BY <3>2, SeqFacts DEF PlacesInv, RestUnanswered
      <4>2. \A i \in Settled + 1 .. Len(pushed) : pushed[i] \in Conns /\ pushed[i] # sfd[s]
        BY <3>4, <4>1, SeqFacts
      <4>3. \A i \in Settled + 1 .. Len(pushed) : closes'[pushed[i]] = 0
        BY <3>3, <4>2 DEF PlacesInv, RestUnanswered
      <4> QED
        BY <3>1, <4>3 DEF PlacesInv, RestUnanswered
    <3>10. SettledAnswered'
      BY <3>1, <3>2, <3>3, <3>4, <3>5, SeqFacts DEF PlacesInv, SettledAnswered
    <3> QED
      BY <3>6, <3>7, <3>8, <3>9, <3>10 DEF PlacesInv
  <2> QED
    BY <2>2, <2>3, <2>4, <2>5
<1> QED
  BY <1>1, <1>2, <1>3, <1>4, <1>5
-----------------------------------------------------------------------------
LEMMA NextInv == IInv /\ [Next]_vars => IInv'
<1> SUFFICES ASSUME IInv, [Next]_vars PROVE IInv'
  OBVIOUS
<1>1. CASE RequestStop \/ (\E c \in Backlog : Accept(c)) \/ AcceptFails
  BY <1>1, AcceptInv
<1>2. CASE AcceptThread
  BY <1>2, AcceptInv, ShutdownInv DEF AcceptThread
<1>3. ASSUME NEW s \in Slots, Slot(s) \/ Spurious(s) PROVE IInv'
  BY <1>3, SlotInv DEF Slot
<1>4. CASE UNCHANGED vars
  <2>1. TypeOK' /\ RingInv' /\ StageInv'
    BY <1>4 DEF vars, queueVars, acceptVars, slotVars, IInv, TypeOK, RingInv, Entry, StageInv
  <2>2. PlacesInv'
    BY <1>4, PlacesKept DEF vars, acceptVars, slotVars, IInv
  <2> QED
    BY <2>1, <2>2 DEF IInv
<1> QED
  BY <1>1, <1>2, <1>3, <1>4 DEF Next, Done

LEMMA InvHolds == Spec => []IInv
BY InitInv, NextInv, PTL DEF Spec, SafeSpec

\* The ring's indices and counts stay in range: q_push never writes past the
\* queue's limit.
THEOREM AdmissionTypes == Spec => []TypeOK
<1>1. IInv => TypeOK
  BY DEF IInv
<1> QED
  BY <1>1, InvHolds, PTL

\* q_push, q_pop and queue_shutdown keep the order of arrival through every wrap
\* of the ring's indices and lose no connection.
THEOREM AdmissionQueueOrder == Spec => []QueueOrder
<1>1. IInv => QueueOrder
  BY RingContents DEF IInv, QueueOrder
<1> QED
  BY <1>1, InvHolds, PTL

\* A connection is answered and closed by one of the fast path, the shed, the
\* shutdown and the slots, and after the joins none is left over.
THEOREM AdmissionOneEnding == Spec => []OneEnding
<1>1. ASSUME IInv PROVE \A c \in Conns : closes[c] <= 1
  BY <1>1 DEF IInv, PlacesInv, ClosedOnce
<1>2. ASSUME IInv, apc = "joined"
      PROVE  afd = None /\ count = 0 /\ \A i \in 1 .. Len(pushed) : closes[pushed[i]] = 1
  <2>1. afd = None /\ count = 0 /\ pending = <<>> /\ \A s \in Slots : sfd[s] = None
    BY <1>2 DEF IInv, StageInv
  <2>2. Settled = Len(pushed)
    BY <1>2, <2>1, SeqFacts DEF IInv, RingInv, Settled
  <2>3. \A i \in 1 .. Len(pushed) : pushed[i] \in Conns
    BY <1>2, SeqFacts DEF IInv
  <2> QED
    BY <1>2, <2>1, <2>2, <2>3, AdmissionAssumption DEF IInv, PlacesInv, SettledAnswered
<1>3. IInv => OneEnding
  BY <1>1, <1>2 DEF OneEnding
<1> QED
  BY <1>3, InvHolds, PTL

-----------------------------------------------------------------------------
(***************************************************************************)
(* A drain watchdog exits the process for its own run or not at all, for   *)
(* every number of runs and of stop requests and every width of the run    *)
(* counter.  A watchdog that outlives its run compares drain_owner with    *)
(* the number of a later run, so the argument rests on the numbers being   *)
(* distinct although the counter wraps and skips two values.               *)
(***************************************************************************)

Numbers == 1 .. RunMod - 2

\* How many runs were armed since the one with number n.
Since(n) == IF n <= drain_runs THEN drain_runs - n ELSE drain_runs - n + RunMod - 2

HasNumber(r) == number[r] # 0

\* The runs that have a number are the ones armed so far, in order: none is
\* further behind the counter than there were runs since.
NumbersApart ==
    /\ \A r \in Runs : HasNumber(r) =>
          /\ r <= run /\ number[r] \in Numbers /\ drain_runs \in Numbers
          /\ Since(number[r]) <= run - r - (IF HasNumber(run) THEN 0 ELSE 1)
    /\ \A r, q \in Runs : HasNumber(r) /\ HasNumber(q) /\ r < q =>
          Since(number[q]) < Since(number[r])
    /\ mpc \in {"listener", "bounds", "start", "arm"} => run > 0 /\ number[run] = 0

\* Who owns the bound, seen from the thread in server_run.
OwnerOfRun ==
    /\ mpc \in {"idle", "listener", "bounds", "start", "arm"} => drain_owner = 0
    /\ mpc \in {"check", "accept", "unlisten", "stamp", "teardown", "release", "parked"} =>
          run > 0 /\ HasNumber(run) /\ drain_owner \in {number[run], FIRING}
    /\ mpc = "parked" => drain_owner = FIRING

\* Who owns it, seen from the watchdogs.
OwnerOfExit ==
    /\ \A r \in Runs : wpc[r] # "none" => HasNumber(r)
    /\ \A r \in Runs : wpc[r] = "fire" => run = r /\ drain_owner = FIRING

DrainIInv == DrainTypeOK /\ NumbersApart /\ OwnerOfRun /\ OwnerOfExit

-----------------------------------------------------------------------------
\* The counter takes the values from 1 to RunMod - 2 in a circle, wherever it
\* starts: 0 (released) and DRAIN_FIRING are skipped.
LEMMA NextNumberCircle ==
    ASSUME drain_runs \in Unsigned
    PROVE  /\ NextNumber \in Numbers
           /\ drain_runs \in Numbers =>
                 NextNumber = IF drain_runs = RunMod - 2 THEN 1 ELSE drain_runs + 1
<1>1. RunMod \in Nat /\ RunMod > 4
  BY DrainAssumption
<1>2. CASE drain_runs = RunMod - 1
  <2>1. (drain_runs + 1) % RunMod = 0
    BY <1>1, <1>2
  <2>2. 2 % RunMod = 2
    BY <1>1
  <2> QED
    BY <1>1, <1>2, <2>1, <2>2 DEF NextNumber, Numbers, FIRING
<1>3. CASE drain_runs = RunMod - 2
  <2>1. (drain_runs + 1) % RunMod = RunMod - 1
    BY <1>1, <1>3
  <2>2. (RunMod - 1 + 2) % RunMod = 1
    BY <1>1
  <2> QED
    BY <1>1, <1>3, <2>1, <2>2 DEF NextNumber, Numbers, FIRING
<1>4. CASE drain_runs \in 0 .. RunMod - 3
  <2>1. (drain_runs + 1) % RunMod = drain_runs + 1
    BY <1>1, <1>4
  <2> QED
    BY <1>1, <1>4, <2>1 DEF NextNumber, Numbers, FIRING
<1> QED
  BY <1>1, <1>2, <1>3, <1>4 DEF Unsigned

LEMMA DrainInitInv == DrainInit => DrainIInv
<1> SUFFICES ASSUME DrainInit PROVE DrainIInv
  OBVIOUS
<1> USE DrainAssumption DEF DrainInit
<1>1. DrainTypeOK
  <2>1. stop_requested \in BOOLEAN /\ stop_at_us \in BOOLEAN
    OBVIOUS
  <2>2. 0 \in Unsigned /\ 0 \in 0 .. NRuns
    BY DEF Unsigned
  <2> QED
    BY <2>1, <2>2 DEF DrainTypeOK
<1>2. \A r \in Runs : ~HasNumber(r)
  BY DEF HasNumber
<1> QED
  BY <1>1, <1>2 DEF DrainIInv, NumbersApart, OwnerOfRun, OwnerOfExit

\* Arming gives the run a number that no earlier run has.
LEMMA ArmInv == DrainIInv /\ Arm => DrainIInv'
<1> SUFFICES ASSUME DrainIInv, Arm PROVE DrainIInv'
  OBVIOUS
<1> USE DrainAssumption DEF DrainIInv
<1>1. /\ mpc = "arm" /\ run \in Runs /\ number[run] = 0 /\ drain_owner = 0
      /\ run' = run /\ mpc' = "check"
      /\ drain_runs' = NextNumber /\ drain_owner' = NextNumber
      /\ number' = [number EXCEPT ![run] = NextNumber]
      /\ wpc' = [wpc EXCEPT ![run] = "wait"]
  BY DEF Arm, DrainTypeOK, NumbersApart, OwnerOfRun, Runs
<1>2. drain_runs \in Unsigned /\ NextNumber \in Numbers
  BY NextNumberCircle DEF DrainTypeOK
<1>3. NextNumber \in Unsigned /\ NextNumber # 0 /\ NextNumber # FIRING
  BY <1>2 DEF Numbers, Unsigned, FIRING
<1>4. DrainTypeOK'
  BY <1>1, <1>3 DEF Arm, DrainTypeOK
<1>5. number'[run] = NextNumber /\ Since(number[run])' = 0
  BY <1>1, <1>2 DEF DrainTypeOK, Since, Numbers
<1>6. ASSUME NEW r \in Runs, r # run, HasNumber(r)'
      PROVE  /\ HasNumber(r) /\ number'[r] = number[r] /\ number[r] \in Numbers /\ r < run
             /\ Since(number[r])' = Since(number[r]) + 1
             /\ Since(number[r])' <= run - r
             /\ Since(number[r]) \in Nat
  <2>1. number'[r] = number[r] /\ HasNumber(r)
    BY <1>1, <1>6 DEF DrainTypeOK, HasNumber
  <2>2. /\ r < run /\ number[r] \in Numbers /\ drain_runs \in Numbers
        /\ Since(number[r]) <= run - r - 1 /\ run <= NRuns /\ r \in Nat /\ run \in Nat
    BY <1>1, <1>6, <2>1 DEF NumbersApart, DrainTypeOK, Runs, HasNumber
  <2>3. NextNumber = IF drain_runs = RunMod - 2 THEN 1 ELSE drain_runs + 1
    BY <2>2, <1>2, NextNumberCircle
  <2>4. Since(number[r])' = Since(number[r]) + 1 /\ Since(number[r]) \in Nat
    BY <1>1, <2>1, <2>2, <2>3 DEF Since, Numbers, Runs
  <2> QED
    BY <2>1, <2>2, <2>4
<1>7. NumbersApart'
  <2>1. HasNumber(run)'
    BY <1>1, <1>3, <1>5 DEF HasNumber
  <2>2. ASSUME NEW r \in Runs, HasNumber(r)'
        PROVE  /\ r <= run' /\ number'[r] \in Numbers /\ drain_runs' \in Numbers
               /\ Since(number[r])' <= run' - r
    <3>1. CASE r = run
      BY <1>1, <1>2, <1>5, <3>1 DEF Runs
    <3>2. CASE r # run
      BY <1>1, <1>2, <1>6, <2>2, <3>2 DEF Runs
    <3> QED
      BY <3>1, <3>2
  <2>3. ASSUME NEW r \in Runs, NEW q \in Runs, HasNumber(r)', HasNumber(q)', r < q
        PROVE  Since(number[q])' < Since(number[r])'
    <3>1. r # run
      BY <1>1, <1>6, <2>3 DEF Runs
    <3>2. CASE q = run
      <4>1. Since(number[q])' = 0
        BY <1>1, <1>5, <3>2
      <4>2. Since(number[r])' = Since(number[r]) + 1 /\ Since(number[r]) \in Nat
        BY <1>6, <2>3, <3>1
      <4> QED
        BY <4>1, <4>2
    <3>3. CASE q # run
      <4>1. Since(number[q]) < Since(number[r])
        BY <1>6, <2>3, <3>1, <3>3 DEF NumbersApart
      <4> QED
        BY <1>6, <2>3, <3>1, <3>3, <4>1
    <3> QED
      BY <3>2, <3>3
  <2> QED
    BY <1>1, <2>1, <2>2, <2>3 DEF NumbersApart, Runs
<1>8. OwnerOfRun'
  BY <1>1, <1>3, <1>5 DEF OwnerOfRun, HasNumber, Runs
<1>9. OwnerOfExit'
  <2>1. \A r \in Runs : wpc[r] # "fire"
    BY <1>1 DEF OwnerOfExit, FIRING
  <2> QED
    BY <1>1, <1>3, <1>5, <2>1 DEF OwnerOfExit, HasNumber, DrainTypeOK
<1> QED
  BY <1>4, <1>7, <1>8, <1>9

\* A watchdog whose number owns the bound is the one of the run in progress.
LEMMA OwnNumber ==
    ASSUME DrainIInv, NEW r \in Runs, wpc[r] # "none", drain_owner = number[r]
    PROVE  /\ r = run
           /\ mpc \in {"check", "accept", "unlisten", "stamp", "teardown", "release"}
<1> USE DrainAssumption DEF DrainIInv
<1>1. HasNumber(r) /\ number[r] # FIRING
  BY DEF OwnerOfExit, NumbersApart, Numbers, FIRING
<1>2. /\ mpc \in {"check", "accept", "unlisten", "stamp", "teardown", "release"}
      /\ run \in Runs /\ HasNumber(run) /\ number[r] = number[run]
  BY <1>1 DEF OwnerOfRun, HasNumber, DrainTypeOK, Runs
<1>3. r = run
  <2>1. Since(number[r]) = Since(number[run])
    BY <1>2
  <2>2. r <= run /\ r \in Int /\ run \in Int /\ Since(number[r]) \in Int
    BY <1>1, <1>2 DEF NumbersApart, Runs, Since, Numbers, DrainTypeOK
  <2> QED
    BY <1>1, <1>2, <2>1, <2>2 DEF NumbersApart
<1> QED
  BY <1>2, <1>3

\* The claim of the exit, the release of the bound and the start of the next run
\* are the steps that settle who goes first.
LEMMA DrainNextInv == DrainIInv /\ [DrainNext]_drainVars => DrainIInv'
<1> SUFFICES ASSUME DrainIInv, [DrainNext]_drainVars PROVE DrainIInv'
  OBVIOUS
<1> USE DrainAssumption DEF DrainIInv
<1>1. ASSUME NEW c \in Callers, Request(c) \/ Stamp(c) \/ CloseListener(c) PROVE DrainIInv'
  <2>1. DrainTypeOK'
    <3>1. stop_requested' \in BOOLEAN /\ stop_at_us' \in BOOLEAN
      BY <1>1 DEF Request, Stamp, CloseListener, DrainTypeOK
    <3> QED
      BY <1>1, <3>1 DEF Request, Stamp, CloseListener, DrainTypeOK
  <2>2. UNCHANGED <<drain_owner, drain_runs, mpc, run, number, wpc>>
    BY <1>1 DEF Request, Stamp, CloseListener
  <2> QED
    BY <2>1, <2>2 DEF NumbersApart, OwnerOfRun, OwnerOfExit, HasNumber, Since
<1>2. CASE Begin
  <2>1. /\ mpc = "idle" /\ run' = run + 1 /\ run' \in Runs /\ mpc' = "listener"
        /\ UNCHANGED <<number, drain_runs, drain_owner, wpc>>
    BY <1>2 DEF Begin, DrainTypeOK, Runs
  <2>2. number[run'] = 0
    BY <2>1 DEF NumbersApart, HasNumber, DrainTypeOK, Runs
  <2>3. DrainTypeOK'
    <3>1. stop_requested' \in BOOLEAN /\ stop_at_us' \in BOOLEAN
      BY <1>2 DEF Begin, DrainTypeOK
    <3> QED
      BY <1>2, <2>1, <3>1 DEF Begin, DrainTypeOK, Runs
  <2>4. NumbersApart'
    <3>1. ASSUME NEW r \in Runs, HasNumber(r)
          PROVE  r <= run' /\ Since(number[r]) <= run' - r - 1
      BY <2>1, <3>1 DEF NumbersApart, Runs, DrainTypeOK, Since, Numbers
    <3>2. \A r : HasNumber(r)' <=> HasNumber(r)
      BY <2>1 DEF HasNumber
    <3>3. \A n : Since(n)' = Since(n)
      BY <2>1 DEF Since
    <3> QED
      BY <2>1, <2>2, <3>1, <3>2, <3>3 DEF NumbersApart, HasNumber, Runs
  <2>5. OwnerOfRun'
    BY <2>1 DEF OwnerOfRun
  <2>6. OwnerOfExit'
    BY <2>1 DEF OwnerOfExit, OwnerOfRun, HasNumber, FIRING
  <2> QED
    BY <2>3, <2>4, <2>5, <2>6
<1>3. CASE ResetListener \/ BoundsInit \/ Abandon \/ Listen
  <2>1. DrainTypeOK'
    <3>1. stop_requested' \in BOOLEAN /\ stop_at_us' \in BOOLEAN
      BY <1>3 DEF ResetListener, BoundsInit, Abandon, Listen, DrainTypeOK
    <3> QED
      BY <1>3, <3>1 DEF ResetListener, BoundsInit, Abandon, Listen, DrainTypeOK
  <2>2. /\ UNCHANGED <<drain_owner, drain_runs, run, number, wpc>>
        /\ mpc \in {"listener", "bounds", "start", "arm"}
        /\ mpc' \in {"idle", "bounds", "start", "arm"}
    BY <1>3 DEF ResetListener, BoundsInit, Abandon, Listen
  <2> QED
    BY <2>1, <2>2 DEF NumbersApart, OwnerOfRun, OwnerOfExit, HasNumber, Since
<1>4. CASE Arm
  BY <1>4, ArmInv
<1>5. CASE CheckStop \/ AcceptWoken \/ Unlisten \/ Accepted \/ AcceptBroken \/ StampOwn \/ TearDown
  <2>1. DrainTypeOK'
    <3>1. stop_requested' \in BOOLEAN /\ stop_at_us' \in BOOLEAN
      BY <1>5 DEF CheckStop, AcceptWoken, Unlisten, Accepted, AcceptBroken, StampOwn, TearDown, DrainTypeOK
    <3> QED
      BY <1>5, <3>1
         DEF CheckStop, AcceptWoken, Unlisten, Accepted, AcceptBroken, StampOwn, TearDown, DrainTypeOK
  <2>2. /\ UNCHANGED <<drain_owner, drain_runs, run, number, wpc>>
        /\ mpc \in {"check", "accept", "unlisten", "stamp", "teardown"}
        /\ mpc' \in {"check", "accept", "unlisten", "stamp", "teardown", "release"}
    BY <1>5 DEF CheckStop, AcceptWoken, Unlisten, Accepted, AcceptBroken, StampOwn, TearDown
  <2> QED
    BY <2>1, <2>2 DEF NumbersApart, OwnerOfRun, OwnerOfExit, HasNumber, Since
<1>6. CASE Release
  <2>1. number[run] # FIRING /\ number[run] \in Unsigned /\ 0 \in Unsigned
    BY <1>6 DEF Release, OwnerOfRun, NumbersApart, DrainTypeOK, Numbers, FIRING, Unsigned, Runs
  <2>2. DrainTypeOK'
    BY <1>6, <2>1 DEF Release, DrainTypeOK
  <2>3. NumbersApart'
    BY <1>6 DEF Release, NumbersApart, HasNumber, Since
  <2>4. OwnerOfRun' /\ OwnerOfExit'
    BY <1>6, <2>1 DEF Release, OwnerOfRun, OwnerOfExit, HasNumber
  <2> QED
    BY <2>2, <2>3, <2>4
<1>7. ASSUME NEW r \in Runs, WaitForStop(r) \/ Countdown(r) \/ Fire(r) PROVE DrainIInv'
  BY <1>7 DEF WaitForStop, Countdown, Fire, DrainTypeOK, NumbersApart, OwnerOfRun, OwnerOfExit,
     HasNumber, Since
<1>8. ASSUME NEW r \in Runs, Claim(r) PROVE DrainIInv'
  <2>1. CASE drain_owner = number[r]
    <3>1. r = run /\ mpc \in {"check", "accept", "unlisten", "stamp", "teardown", "release"}
      BY <1>8, <2>1, OwnNumber DEF Claim
    <3>2. FIRING \in Unsigned
      BY DEF FIRING, Unsigned
    <3>3. /\ drain_owner' = FIRING /\ wpc' = [wpc EXCEPT ![r] = "fire"]
          /\ UNCHANGED <<drain_runs, mpc, run, number>>
      BY <1>8, <2>1 DEF Claim
    <3>4. DrainTypeOK'
      BY <1>8, <2>1, <3>2 DEF Claim, DrainTypeOK
    <3>5. NumbersApart'
      BY <3>3 DEF NumbersApart, HasNumber, Since
    <3>6. OwnerOfRun'
      BY <3>1, <3>3 DEF OwnerOfRun, HasNumber
    <3>7. OwnerOfExit'
      BY <1>8, <3>1, <3>3 DEF Claim, OwnerOfExit, HasNumber, DrainTypeOK
    <3> QED
      BY <3>4, <3>5, <3>6, <3>7
  <2>2. CASE drain_owner # number[r]
    BY <1>8, <2>2 DEF Claim, DrainTypeOK, NumbersApart, OwnerOfRun, OwnerOfExit, HasNumber, Since
  <2> QED
    BY <2>1, <2>2
<1>9. CASE UNCHANGED drainVars
  BY <1>9 DEF drainVars, DrainTypeOK, NumbersApart, OwnerOfRun, OwnerOfExit, HasNumber, Since
<1> QED
  BY <1>1, <1>2, <1>3, <1>4, <1>5, <1>6, <1>7, <1>8, <1>9
     DEF DrainNext, Call, AcceptLoop, Watchdog, Finished

\* A watchdog that has claimed the exit is the one of the run in progress, which
\* has not returned and will not (drain_watchdog's compare-and-swap against the
\* one at the end of server_run), for every number of runs and width of drain_runs.
THEOREM DrainExitForOwnRun == DrainSpec => []ExitForOwnRun
<1>1. DrainIInv => ExitForOwnRun
  BY DrainAssumption DEF DrainIInv, OwnerOfExit, OwnerOfRun, ExitForOwnRun, Armed, DrainTypeOK, Runs,
     FIRING
<1> QED
  BY <1>1, DrainInitInv, DrainNextInv, PTL DEF DrainSpec, DrainSafeSpec

\* The variables of the stop protocol keep their types; the run counter stays an
\* unsigned however often it wraps.
THEOREM DrainTypes == DrainSpec => []DrainTypeOK
<1>1. DrainIInv => DrainTypeOK
  BY DEF DrainIInv
<1> QED
  BY <1>1, DrainInitInv, DrainNextInv, PTL DEF DrainSpec, DrainSafeSpec
=============================================================================
