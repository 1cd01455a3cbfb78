---------------------------- MODULE DeviceProofs ----------------------------
(***************************************************************************)
(* Proofs about the device's turns and what a batched turn computes: the   *)
(* ticket turnstile, with its refinement, for any set of threads, and the  *)
(* microbatches of model_batch_decode for every batch size.                *)
(***************************************************************************)
EXTENDS Turnstile, BatchDecode, FiniteSetTheorems, SequenceTheorems, TLAPS

-----------------------------------------------------------------------------
(***************************************************************************)
(* The device turn is exclusive and FIFO for every number of threads and   *)
(* every ticket width: TicketsInOrder is inductive, and OneHolder follows  *)
(* from it because two holders would own the same ticket.                  *)
(***************************************************************************)

\* Unsigned arithmetic of the two counters: an increment stays in range.
LEMMA IncType ==
    ASSUME TicketMod \in Nat \ {0}, NEW m \in Tickets
    PROVE  Inc(m) \in Tickets
BY DEF Inc, Tickets

\* Ahead counts the increments between two tickets, below the ticket width.
LEMMA AheadType ==
    ASSUME TicketMod \in Nat \ {0}, NEW a \in Tickets, NEW b \in Tickets
    PROVE  /\ Ahead(a, b) \in 0 .. TicketMod - 1
           /\ Ahead(a, b) = 0 <=> a = b
BY DEF Ahead, Tickets

\* Two tickets as far ahead of the displayed one are the same ticket.
LEMMA AheadInjective ==
    ASSUME TicketMod \in Nat \ {0},
           NEW a \in Tickets, NEW b \in Tickets, NEW c \in Tickets,
           Ahead(a, c) = Ahead(b, c)
    PROVE  a = b
BY DEF Ahead, Tickets

\* Drawing a ticket lengthens the queue by one, as long as it does not wrap
\* onto the displayed ticket.
LEMMA AheadTake ==
    ASSUME TicketMod \in Nat \ {0}, NEW a \in Tickets, NEW b \in Tickets,
           Ahead(a, b) < TicketMod - 1
    PROVE  Ahead(Inc(a), b) = Ahead(a, b) + 1
BY DEF Ahead, Inc, Tickets

\* Advancing the display brings every other ticket one step nearer.
LEMMA AheadGive ==
    ASSUME TicketMod \in Nat \ {0}, NEW a \in Tickets, NEW b \in Tickets, a # b
    PROVE  Ahead(a, Inc(b)) = Ahead(a, b) - 1
BY DEF Ahead, Inc, Tickets

\* The threads holding a ticket are finitely many, fewer than the tickets.
LEMMA LiveFinite ==
    /\ IsFiniteSet(Threads)
    /\ TicketMod \in Nat \ {0}
    /\ Cardinality(Threads) \in Nat
    /\ Cardinality(Threads) < TicketMod
    /\ IsFiniteSet(Live)
    /\ Cardinality(Live) \in Nat
    /\ Cardinality(Live) <= Cardinality(Threads)
<1>1. IsFiniteSet(Threads) /\ TicketMod \in Nat /\ Cardinality(Threads) < TicketMod
  BY TurnstileAssumption
<1>2. Cardinality(Threads) \in Nat
  BY <1>1, FS_CardinalityType
<1>3. Live \subseteq Threads
  BY DEF Live
<1>4. IsFiniteSet(Live) /\ Cardinality(Live) <= Cardinality(Threads)
  BY <1>1, <1>3, FS_Subset
<1>5. Cardinality(Live) \in Nat
  BY <1>4, FS_CardinalityType
<1> QED
  BY <1>1, <1>2, <1>4, <1>5

-----------------------------------------------------------------------------
\* No ticket is out when the scheduler starts.
LEMMA InitInv == Init => IInv
<1> SUFFICES ASSUME Init PROVE IInv
  OBVIOUS
<1> USE DEF Init
<1>1. TicketMod \in Nat \ {0}
  BY LiveFinite
<1>2. TypeOK
  BY <1>1 DEF TypeOK, Tickets
<1>3. Live = {}
  BY DEF Live
<1>4. Cardinality(Live) = 0
  BY <1>3, FS_EmptySet
<1>5. Ahead(dev_next, dev_serving) = 0
  BY DEF Ahead
<1> QED
  BY <1>2, <1>3, <1>4, <1>5 DEF IInv, TicketsInOrder

\* dev_take's draw puts the thread at the end of the queue.
LEMMA TakeInv ==
    ASSUME IInv, NEW t \in Threads, Take(t)
    PROVE  IInv'
<1> USE DEF IInv
<1>0. TicketMod \in Nat \ {0}
  BY LiveFinite
<1>1. /\ turn[t] = "out" /\ dev_serving' = dev_serving
      /\ dev_next' = Inc(dev_next)
      /\ ticket' = [ticket EXCEPT ![t] = dev_next]
      /\ turn' = [turn EXCEPT ![t] = "waiting"]
  BY DEF Take
<1>2. TypeOK'
  BY <1>0, <1>1, IncType DEF TypeOK
<1>3. t \notin Live /\ Live' = Live \cup {t}
  BY <1>1 DEF Live, TypeOK
<1>4. Cardinality(Live') = Cardinality(Live) + 1
  BY <1>3, LiveFinite, FS_AddElement
<1>5. Cardinality(Live') <= Cardinality(Threads)
  <2>1. Live' \subseteq Threads
    BY DEF Live
  <2> QED
    BY <2>1, LiveFinite, FS_Subset
<1> DEFINE len == Ahead(dev_next, dev_serving)
<1>6. len = Cardinality(Live) /\ len < TicketMod - 1 /\ len \in Nat
  BY <1>4, <1>5, LiveFinite DEF TicketsInOrder
<1>7. Ahead(dev_next', dev_serving') = len + 1
  BY <1>0, <1>1, <1>6, AheadTake DEF TypeOK
<1>8. ASSUME NEW s \in Live' PROVE Ahead(ticket'[s], dev_serving') <= len
  <2>1. CASE s = t
    BY <1>1, <1>6, <2>1 DEF TypeOK
  <2>2. CASE s # t
    <3>1. s \in Live /\ ticket'[s] = ticket[s] /\ ticket[s] \in Tickets
      BY <1>1, <1>3, <2>2 DEF TypeOK, Live
    <3> QED
      BY <1>0, <1>1, <1>6, <3>1, AheadType DEF TypeOK, TicketsInOrder
  <2> QED
    BY <2>1, <2>2
<1>9. ASSUME NEW r \in Live', NEW s \in Live', ticket'[r] = ticket'[s]
      PROVE  r = s
  <2>1. ASSUME NEW u \in Live PROVE ticket[u] # dev_next
    <3>1. Ahead(ticket[u], dev_serving) < len
      BY DEF TicketsInOrder
    <3> QED
      BY <1>6, <3>1
  <2> QED
    BY <1>1, <1>3, <1>9, <2>1 DEF TypeOK, TicketsInOrder, Live
<1>10. ASSUME NEW s \in Threads, turn'[s] = "holding"
       PROVE  ticket'[s] = dev_serving'
  BY <1>1, <1>10 DEF TypeOK, TicketsInOrder
<1>11. \A s \in Live' : Ahead(ticket'[s], dev_serving') < len + 1
  <2> SUFFICES ASSUME NEW s \in Live'
               PROVE  Ahead(ticket'[s], dev_serving') < len + 1
    OBVIOUS
  <2>1. ticket'[s] \in Tickets /\ dev_serving' \in Tickets
    BY <1>2 DEF TypeOK, Live
  <2>2. Ahead(ticket'[s], dev_serving') \in Nat
    BY <1>0, <2>1, AheadType
  <2> QED
    BY <1>6, <1>8, <2>2
<1> QED
  BY <1>2, <1>4, <1>6, <1>7, <1>9, <1>10, <1>11 DEF TicketsInOrder

\* dev_take returning moves nobody in the queue.
LEMMA EnterInv ==
    ASSUME IInv, NEW t \in Threads, Enter(t)
    PROVE  IInv'
<1> USE DEF IInv
<1>1. /\ turn[t] = "waiting" /\ ticket[t] = dev_serving
      /\ turn' = [turn EXCEPT ![t] = "holding"]
      /\ UNCHANGED <<dev_next, dev_serving, ticket>>
  BY DEF Enter
<1>2. TypeOK'
  BY <1>1 DEF TypeOK
<1>3. Live' = Live
  BY <1>1 DEF Live, TypeOK
<1> QED
  BY <1>1, <1>2, <1>3 DEF TicketsInOrder, TypeOK

\* dev_give removes the holder, whose ticket was the one on display.
LEMMA GiveInv ==
    ASSUME IInv, NEW t \in Threads, Give(t)
    PROVE  IInv'
<1> USE DEF IInv
<1>0. TicketMod \in Nat \ {0}
  BY LiveFinite
<1>1. /\ turn[t] = "holding" /\ dev_serving' = Inc(dev_serving)
      /\ turn' = [turn EXCEPT ![t] = "out"]
      /\ dev_next' = dev_next /\ ticket' = ticket
  BY DEF Give
<1>2. TypeOK'
  BY <1>0, <1>1, IncType DEF TypeOK
<1>3. t \in Live /\ Live' = Live \ {t}
  BY <1>1 DEF Live, TypeOK
<1>4. Cardinality(Live') = Cardinality(Live) - 1
  BY <1>3, LiveFinite, FS_RemoveElement
<1>5. ticket[t] = dev_serving
  BY <1>1 DEF TicketsInOrder
<1> DEFINE len == Ahead(dev_next, dev_serving)
<1>6. len = Cardinality(Live) /\ len \in Nat
  BY LiveFinite DEF TicketsInOrder
<1>7. Ahead(ticket[t], dev_serving) = 0
  BY <1>0, <1>5, AheadType DEF TypeOK
<1>8. len > 0
  BY <1>3, <1>6, <1>7 DEF TicketsInOrder
<1>9. dev_next # dev_serving
  BY <1>0, <1>8, AheadType DEF TypeOK
<1>10. Ahead(dev_next', dev_serving') = len - 1
  BY <1>0, <1>1, <1>9, AheadGive DEF TypeOK
<1>11. ASSUME NEW s \in Live'
       PROVE  Ahead(ticket'[s], dev_serving') < len - 1
  <2>1. s \in Live /\ s # t /\ ticket[s] \in Tickets
    BY <1>3 DEF Live, TypeOK
  <2>2. ticket[s] # dev_serving
    BY <1>3, <1>5, <2>1 DEF TicketsInOrder
  <2>3. Ahead(ticket[s], dev_serving) < len
    BY <2>1 DEF TicketsInOrder
  <2>4. Ahead(ticket[s], dev_serving) \in Nat
    BY <1>0, <2>1, AheadType DEF TypeOK
  <2>5. Ahead(ticket'[s], dev_serving') = Ahead(ticket[s], dev_serving) - 1
    BY <1>0, <1>1, <2>1, <2>2, AheadGive DEF TypeOK
  <2> HIDE DEF len
  <2> QED
    BY <1>6, <2>3, <2>4, <2>5
<1>12. \A r, s \in Live' : ticket'[r] = ticket'[s] => r = s
  BY <1>1, <1>3 DEF TicketsInOrder
<1>13. \A s \in Threads : turn'[s] = "holding" => ticket'[s] = dev_serving'
  <2> SUFFICES ASSUME NEW s \in Threads, turn'[s] = "holding" PROVE FALSE
    OBVIOUS
  <2>1. s # t /\ turn[s] = "holding"
    BY <1>1 DEF TypeOK
  <2>2. s \in Live /\ ticket[s] = dev_serving
    BY <2>1 DEF TicketsInOrder, Live
  <2> QED
    BY <1>3, <1>5, <2>1, <2>2 DEF TicketsInOrder
<1> QED
  BY <1>2, <1>4, <1>6, <1>10, <1>11, <1>12, <1>13 DEF TicketsInOrder

\* TicketsInOrder, with the types, is preserved by every step.
LEMMA StepInv == IInv /\ [Next]_turnVars => IInv'
<1> SUFFICES ASSUME IInv, [Next]_turnVars PROVE IInv'
  OBVIOUS
<1>1. CASE UNCHANGED turnVars
  BY <1>1 DEF turnVars, IInv, TypeOK, TicketsInOrder, Live
<1>2. ASSUME NEW t \in Threads, Take(t) PROVE IInv'
  BY <1>2, TakeInv
<1>3. ASSUME NEW t \in Threads, Enter(t) PROVE IInv'
  BY <1>3, EnterInv
<1>4. ASSUME NEW t \in Threads, Give(t) PROVE IInv'
  BY <1>4, GiveInv
<1> QED
  BY <1>1, <1>2, <1>3, <1>4 DEF Next

\* The counters, tickets and turns keep their types whatever the threads do
\* (dev_take, dev_give), and the outstanding tickets stay consecutive,
\* distinct and as many as the threads that wait or hold.
THEOREM TurnstileCorrect == SafeSpec => [](TypeOK /\ TicketsInOrder)
<1>1. IInv => TypeOK /\ TicketsInOrder
  BY DEF IInv
<1> QED
  BY <1>1, InitInv, StepInv, PTL DEF SafeSpec

\* Two threads are never between dev_take and dev_give at once: the exclusion
\* a CUDA graph capture depends on (scheduler.c, the comment on dev_mu).
THEOREM TurnstileExclusive == SafeSpec => []OneHolder
<1>1. IInv => OneHolder
  BY DEF IInv, OneHolder, TicketsInOrder, Live
<1> QED
  BY <1>1, InitInv, StepInv, PTL DEF SafeSpec
-----------------------------------------------------------------------------
(* The turnstile implements the abstract queue: a thread's place in it is    *)
(* the distance of its ticket from the displayed one.                        *)

\* Every place up to the last is taken.
NoGap == \A k \in 0 .. Cardinality(Live) - 1 : \E t \in Live : Place(t) = k

QInv == IInv /\ NoGap

\* The places are those of a queue: different threads have different ones.
LEMMA Places ==
    ASSUME IInv
    PROVE  /\ \A t \in Live : Place(t) \in 0 .. Cardinality(Live) - 1
           /\ \A s, t \in Live : Place(s) = Place(t) => s = t
<1>1. TicketMod \in Nat \ {0} /\ Cardinality(Live) \in Nat
  BY LiveFinite
<1>2. \A t \in Live : ticket[t] \in Tickets /\ Place(t) \in Nat
  BY <1>1, AheadType DEF IInv, TypeOK, Live, Place
<1>3. \A t \in Live : Place(t) < Cardinality(Live)
  BY DEF IInv, TicketsInOrder, Place
<1>4. \A s, t \in Live : Place(s) = Place(t) => s = t
  BY <1>1, <1>2, AheadInjective DEF IInv, TypeOK, TicketsInOrder, Place
<1> QED
  BY <1>1, <1>2, <1>3, <1>4

\* What a draw and a give do to the places.
LEMMA TakePlaces ==
    ASSUME IInv, NEW t \in Threads, Take(t)
    PROVE  /\ t \notin Live /\ Live' = Live \cup {t}
           /\ Cardinality(Live') = Cardinality(Live) + 1
           /\ Place(t)' = Cardinality(Live)
           /\ \A s \in Live : Place(s)' = Place(s)
<1>1. t \notin Live /\ Live' = Live \cup {t}
  BY DEF IInv, TypeOK, Take, Live
<1>2. Cardinality(Live') = Cardinality(Live) + 1
  BY <1>1, LiveFinite, FS_AddElement
<1>3. ticket'[t] = dev_next /\ dev_serving' = dev_serving
  BY DEF IInv, TypeOK, Take
<1>4. Place(t)' = Cardinality(Live)
  BY <1>3 DEF IInv, TicketsInOrder, Place
<1>5. \A s \in Live : ticket'[s] = ticket[s]
  BY <1>1 DEF IInv, TypeOK, Take, Live
<1> QED
  BY <1>1, <1>2, <1>3, <1>4, <1>5 DEF Place

LEMMA GivePlaces ==
    ASSUME IInv, NEW t \in Threads, Give(t)
    PROVE  /\ t \in Live /\ Place(t) = 0 /\ Live' = Live \ {t}
           /\ Cardinality(Live') = Cardinality(Live) - 1
           /\ \A s \in Live' : Place(s)' = Place(s) - 1
<1>0. TicketMod \in Nat \ {0}
  BY LiveFinite
<1>1. t \in Live /\ Live' = Live \ {t}
  BY DEF IInv, TypeOK, Give, Live
<1>2. Cardinality(Live') = Cardinality(Live) - 1
  BY <1>1, LiveFinite, FS_RemoveElement
<1>3. ticket[t] = dev_serving
  BY DEF IInv, TicketsInOrder, Give
<1>4. Place(t) = 0
  BY <1>0, <1>3, AheadType DEF IInv, TypeOK, Place
<1>5. ASSUME NEW s \in Live' PROVE Place(s)' = Place(s) - 1
  <2>1. s \in Live /\ s # t /\ ticket[s] \in Tickets /\ ticket'[s] = ticket[s]
    BY <1>1 DEF IInv, TypeOK, Give, Live
  <2>2. ticket[s] # dev_serving
    BY <1>1, <1>3, <2>1 DEF IInv, TicketsInOrder
  <2> QED
    BY <1>0, <2>1, <2>2, AheadGive DEF IInv, TypeOK, Give, Place
<1> QED
  BY <1>1, <1>2, <1>4, <1>5

LEMMA NoGapStep == QInv /\ [Next]_turnVars => NoGap'
<1> SUFFICES ASSUME QInv, [Next]_turnVars PROVE NoGap'
  OBVIOUS
<1>0. Cardinality(Live) \in Nat
  BY LiveFinite
<1>1. ASSUME NEW t \in Threads, Take(t) PROVE NoGap'
  <2>1. ASSUME NEW k \in 0 .. Cardinality(Live') - 1
        PROVE  \E s \in Live' : Place(s)' = k
    <3>1. CASE k = Cardinality(Live)
      BY <1>1, <3>1, TakePlaces DEF QInv
    <3>2. CASE k # Cardinality(Live)
      <4>1. k \in 0 .. Cardinality(Live) - 1
        BY <1>0, <1>1, <3>2, TakePlaces DEF QInv
      <4>2. PICK s \in Live : Place(s) = k
        BY <4>1 DEF QInv, NoGap
      <4> QED
        BY <1>1, <4>2, TakePlaces DEF QInv
    <3> QED
      BY <3>1, <3>2
  <2> QED
    BY <2>1 DEF NoGap
<1>2. ASSUME NEW t \in Threads, Enter(t) PROVE NoGap'
  <2>1. Live' = Live /\ UNCHANGED <<ticket, dev_serving>>
    BY <1>2 DEF QInv, IInv, TypeOK, Enter, Live
  <2> QED
    BY <2>1 DEF QInv, NoGap, Place
<1>3. ASSUME NEW t \in Threads, Give(t) PROVE NoGap'
  <2>1. ASSUME NEW k \in 0 .. Cardinality(Live') - 1
        PROVE  \E s \in Live' : Place(s)' = k
    <3>1. k + 1 \in 0 .. Cardinality(Live) - 1 /\ k + 1 # 0 /\ k + 1 - 1 = k
      BY <1>0, <1>3, GivePlaces DEF QInv
    <3>2. PICK s \in Live : Place(s) = k + 1
      BY <3>1 DEF QInv, NoGap
    <3>3. s \in Live'
      BY <1>3, <3>1, <3>2, GivePlaces DEF QInv
    <3> QED
      BY <1>3, <3>1, <3>2, <3>3, GivePlaces DEF QInv
  <2> QED
    BY <2>1 DEF NoGap
<1>4. CASE UNCHANGED turnVars
  BY <1>4 DEF turnVars, QInv, NoGap, Live, Place
<1> QED
  BY <1>1, <1>2, <1>3, <1>4 DEF Next

\* The mapped queue lists the threads by their places.
Listed ==
    /\ queue \in Seq(Threads) /\ Len(queue) = Cardinality(Live)
    /\ \A k \in 1 .. Len(queue) : queue[k] \in Live
    /\ \A k \in 1 .. Len(queue), t \in Live : queue[k] = t <=> Place(t) = k - 1

LEMMA QueueListed == QInv => Listed
<1> SUFFICES ASSUME QInv PROVE Listed
  OBVIOUS
<1>1. Cardinality(Live) \in Nat
  BY LiveFinite
<1>2. ASSUME NEW k \in 1 .. Cardinality(Live)
      PROVE  queue[k] \in Live /\ Place(queue[k]) = k - 1
  <2>1. k - 1 \in 0 .. Cardinality(Live) - 1
    BY <1>1
  <2>2. PICK t \in Live : Place(t) = k - 1
    BY <2>1 DEF QInv, NoGap
  <2>3. \A s \in Live : Place(s) = k - 1 => s = t
    BY <2>2, Places DEF QInv
  <2>4. /\ queue[k] \in Live
        /\ \A s \in Live : Place(s) = k - 1 => s = queue[k]
    BY <2>3 DEF queue
  <2> QED
    BY <2>2, <2>4
<1>3. queue \in [1 .. Cardinality(Live) -> Threads]
  BY <1>2 DEF queue, Live
<1>4. queue \in Seq(Threads) /\ Len(queue) = Cardinality(Live)
  BY <1>1, <1>3
<1>5. \A k \in 1 .. Len(queue), t \in Live : queue[k] = t <=> Place(t) = k - 1
  BY <1>2, <1>4, Places DEF QInv
<1> QED
  BY <1>2, <1>4, <1>5 DEF Listed

-----------------------------------------------------------------------------
LEMMA InitRefines == Init => Queue!Init
<1> SUFFICES ASSUME Init PROVE Queue!Init
  OBVIOUS
<1>1. Live = {}
  BY DEF Init, Live
<1>2. Cardinality(Live) = 0
  BY <1>1, FS_EmptySet
<1>3. queue = <<>>
  BY <1>2 DEF queue
<1> QED
  BY <1>3 DEF Init, Queue!Init

\* dev_take's draw asks for the device: the thread goes to the end of the queue.
LEMMA TakeRefines ==
    ASSUME QInv, Listed, Listed', NEW t \in Threads, Take(t)
    PROVE  Queue!Ask(t)
<1>0. Cardinality(Live) \in Nat
  BY LiveFinite
<1>1. /\ t \notin Live /\ Live' = Live \cup {t}
      /\ Cardinality(Live') = Cardinality(Live) + 1
      /\ Ahead(ticket'[t], dev_serving') = Cardinality(Live)
      /\ \A s \in Live : Ahead(ticket'[s], dev_serving') = Place(s)
  BY TakePlaces DEF QInv, Place
<1>2. /\ queue \in Seq(Threads) /\ Len(queue) = Cardinality(Live)
      /\ \A k \in 1 .. Len(queue) : queue[k] \in Live
      /\ \A k \in 1 .. Len(queue), s \in Live : queue[k] = s <=> Place(s) = k - 1
  BY DEF Listed
<1>3. /\ queue' \in Seq(Threads) /\ Len(queue') = Cardinality(Live')
      /\ \A k \in 1 .. Len(queue'), s \in Live' :
            queue'[k] = s <=> Ahead(ticket'[s], dev_serving') = k - 1
  BY DEF Listed, Place
<1>5. ~Queue!Queued(t)
  BY <1>1, <1>2 DEF Queue!Queued
<1>6. queue' = Append(queue, t)
  <2>1. Append(queue, t) \in Seq(Threads) /\ Len(Append(queue, t)) = Len(queue')
    BY <1>1, <1>2, <1>3
  <2>2. ASSUME NEW k \in 1 .. Len(queue') PROVE queue'[k] = Append(queue, t)[k]
    <3>1. CASE k = Len(queue) + 1
      <4>0. k - 1 = Cardinality(Live) /\ t \in Live'
        BY <1>0, <1>1, <1>2, <3>1
      <4>1. queue'[k] = t
        BY <1>1, <1>3, <4>0
      <4> QED
        BY <1>2, <3>1, <4>1
    <3>2. CASE k # Len(queue) + 1
      <4>1. k \in 1 .. Len(queue) /\ Append(queue, t)[k] = queue[k]
        BY <1>0, <1>1, <1>2, <1>3, <3>2
      <4>2. queue[k] \in Live /\ Place(queue[k]) = k - 1
        BY <1>2, <4>1
      <4>3. queue'[k] = queue[k]
        BY <1>1, <1>3, <4>2
      <4> QED
        BY <4>1, <4>3
    <3> QED
      BY <3>1, <3>2
  <2> QED
    BY <1>3, <2>1, <2>2, SeqEqual
<1>7. (\E s \in Threads : turn'[s] = "holding") = (\E s \in Threads : turn[s] = "holding")
  BY DEF QInv, IInv, TypeOK, Take
<1> QED
  BY <1>5, <1>6, <1>7 DEF Queue!Ask

\* A waiter that finds its ticket on display is the queue's first, and owns.
LEMMA EnterRefines ==
    ASSUME QInv, Listed, NEW t \in Threads, Enter(t)
    PROVE  Queue!Own(t)
<1>0. Cardinality(Live) \in Nat /\ TicketMod \in Nat \ {0}
  BY LiveFinite
<1>1. t \in Live /\ Live' = Live /\ UNCHANGED <<ticket, dev_serving>>
  BY DEF QInv, IInv, TypeOK, Enter, Live
<1>2. Place(t) = 0
  BY <1>0, AheadType DEF QInv, IInv, TypeOK, Enter, Place
<1>3. Cardinality(Live) # 0
  BY <1>0, <1>1, <1>2, Places DEF QInv
<1>4. queue # <<>> /\ Head(queue) = t
  <2>1. 1 \in 1 .. Len(queue)
    BY <1>0, <1>3 DEF Listed
  <2>2. queue[1] = t
    BY <1>1, <1>2, <2>1 DEF Listed
  <2> QED
    BY <2>1, <2>2 DEF Listed
<1>5. queue' = queue
  BY <1>1 DEF queue, Place
<1>6. \A s \in Threads : turn[s] # "holding"
  <2> SUFFICES ASSUME NEW s \in Threads, turn[s] = "holding" PROVE FALSE
    OBVIOUS
  <2>1. s \in Live /\ ticket[s] = ticket[t]
    BY DEF QInv, IInv, TicketsInOrder, Live, Enter
  <2> QED
    BY <1>1, <2>1 DEF QInv, IInv, TicketsInOrder, Enter
<1>7. turn'[t] = "holding"
  BY DEF QInv, IInv, TypeOK, Enter
<1>8. (\E s \in Threads : turn'[s] = "holding") = TRUE
  BY <1>7
<1> QED
  BY <1>4, <1>5, <1>6, <1>8 DEF Queue!Own

\* dev_give takes the queue's first out and leaves the others in their order.
LEMMA GiveRefines ==
    ASSUME QInv, Listed, Listed', NEW t \in Threads, Give(t)
    PROVE  Queue!GiveBack(t)
<1>0. Cardinality(Live) \in Nat
  BY LiveFinite
<1>1. /\ t \in Live /\ Place(t) = 0 /\ Live' = Live \ {t}
      /\ Cardinality(Live') = Cardinality(Live) - 1
      /\ \A s \in Live' : Ahead(ticket'[s], dev_serving') = Place(s) - 1
  BY GivePlaces DEF QInv, Place
<1>2. /\ queue \in Seq(Threads) /\ Len(queue) = Cardinality(Live)
      /\ \A k \in 1 .. Len(queue) : queue[k] \in Live
      /\ \A k \in 1 .. Len(queue), s \in Live : queue[k] = s <=> Place(s) = k - 1
  BY DEF Listed
<1>3. /\ queue' \in Seq(Threads) /\ Len(queue') = Cardinality(Live')
      /\ \A k \in 1 .. Len(queue'), s \in Live' :
            queue'[k] = s <=> Ahead(ticket'[s], dev_serving') = k - 1
  BY DEF Listed, Place
<1>4. Cardinality(Live) # 0
  BY <1>0, <1>1, Places DEF QInv
<1>5. queue # <<>> /\ Head(queue) = t
  <2>1. 1 \in 1 .. Len(queue)
    BY <1>0, <1>2, <1>4
  <2>2. queue[1] = t
    BY <1>1, <1>2, <2>1
  <2> QED
    BY <1>2, <2>1, <2>2
<1>6. queue' = Tail(queue)
  <2>1. Tail(queue) \in Seq(Threads) /\ Len(Tail(queue)) = Len(queue')
    BY <1>0, <1>1, <1>2, <1>3, <1>5
  <2>2. ASSUME NEW k \in 1 .. Len(queue') PROVE queue'[k] = Tail(queue)[k]
    <3>1. k + 1 \in 1 .. Len(queue) /\ k + 1 # 1 /\ k + 1 - 1 = k
      BY <1>0, <1>1, <1>2, <1>3
    <3>2. Tail(queue)[k] = queue[k + 1]
      BY <1>2, <1>5, <2>1, <2>2, <3>1
    <3>3. queue[k + 1] \in Live /\ Place(queue[k + 1]) = k
      BY <1>2, <3>1
    <3>4. queue[k + 1] \in Live'
      BY <1>0, <1>1, <3>1, <3>3
    <3> DEFINE u == queue[k + 1]
    <3>5. u \in Live' /\ Ahead(ticket'[u], dev_serving') = k - 1
      BY <1>1, <3>3, <3>4
    <3> HIDE DEF u
    <3>6. queue'[k] = u
      BY <1>3, <3>5
    <3> QED
      BY <3>2, <3>6 DEF u
  <2> QED
    BY <1>3, <2>1, <2>2, SeqEqual
<1>7. \A s \in Threads : turn'[s] # "holding"
  <2> SUFFICES ASSUME NEW s \in Threads, turn'[s] = "holding" PROVE FALSE
    OBVIOUS
  <2>1. s # t /\ turn[s] = "holding" /\ turn[t] = "holding"
    BY DEF QInv, IInv, TypeOK, Give
  <2>2. s \in Live /\ ticket[s] = dev_serving /\ ticket[t] = dev_serving
    BY <2>1 DEF QInv, IInv, TicketsInOrder, Live
  <2> QED
    BY <1>1, <2>1, <2>2 DEF QInv, IInv, TicketsInOrder
<1>8. \E s \in Threads : turn[s] = "holding"
  BY DEF Give
<1>9. (\E s \in Threads : turn'[s] = "holding") = FALSE
  BY <1>7
<1> QED
  BY <1>5, <1>6, <1>8, <1>9 DEF Queue!GiveBack

\* Every step of the turnstile is a step of the queue or leaves it as it is.
LEMMA StepRefines ==
    QInv /\ Listed /\ Listed' /\ [Next]_turnVars => [Queue!Next]_(Queue!queueVars)
<1> SUFFICES ASSUME QInv, Listed, Listed', [Next]_turnVars
             PROVE  [Queue!Next]_(Queue!queueVars)
  OBVIOUS
<1>1. ASSUME NEW t \in Threads, Take(t) PROVE Queue!Next
  BY <1>1, TakeRefines DEF Queue!Next
<1>2. ASSUME NEW t \in Threads, Enter(t) PROVE Queue!Next
  BY <1>2, EnterRefines DEF Queue!Next
<1>3. ASSUME NEW t \in Threads, Give(t) PROVE Queue!Next
  BY <1>3, GiveRefines DEF Queue!Next
<1>4. CASE UNCHANGED turnVars
  BY <1>4 DEF turnVars, queue, Live, Place, Queue!queueVars
<1> QED
  BY <1>1, <1>2, <1>3, <1>4 DEF Next

\* The turnstile of dev_take and dev_give hands the device over in the order
\* in which the threads drew their tickets, one at a time: its steps are those
\* of the abstract queue, for every number of threads and across the wrap of
\* the counters.
THEOREM TurnstileRefinesQueue == SafeSpec => Queue!SafeSpec
<1>1. Init => NoGap
  <2> SUFFICES ASSUME Init PROVE NoGap
    OBVIOUS
  <2>1. Live = {}
    BY DEF Init, Live
  <2>2. Cardinality(Live) = 0
    BY <2>1, FS_EmptySet
  <2> QED
    BY <2>2 DEF NoGap
<1>2. Init => QInv
  BY <1>1, InitInv DEF QInv
<1>3. QInv /\ [Next]_turnVars => QInv'
  BY StepInv, NoGapStep DEF QInv
<1> QED
  BY <1>2, <1>3, QueueListed, InitRefines, StepRefines, PTL DEF SafeSpec, Queue!SafeSpec

-----------------------------------------------------------------------------
(***************************************************************************)
(* The microbatch split is correct for every number of ready sequences and *)
(* every microbatch size.  RowsHome is not inductive: a row left in the    *)
(* backend's buffer survives only because no microbatch follows it, which  *)
(* is what BufferIsLast adds.                                              *)
(***************************************************************************)

\* A microbatch is between one sequence and BatchMax, within the step.
LEMMA TakeBounds ==
    ASSUME n \in Nat, done \in Nat, done < n
    PROVE  /\ TakeRows \in 1 .. BatchMax
           /\ done + TakeRows <= n
BY BatchDecodeAssumption DEF TakeRows

\* The split starts with nothing decoded, so every row decoded is home.
LEMMA BatchInitInv == BatchInit => BatchIInv
BY BatchDecodeAssumption
   DEF BatchInit, BatchIInv, BatchTypeOK, RowsHome, BufferIsLast, Rows, Stale, Read

\* A launch writes the microbatch's rows at their lanes and keeps the types.
LEMMA LaunchWrites ==
    ASSUME BatchIInv, Launch, done < n
    PROVE  /\ lane' \in [Rows -> 1 .. BatchMax]
           /\ buf' \in [1 .. BatchMax -> 0 .. MaxReady]
           /\ \A i \in Micro : buf'[lane'[i]] = i
<1> USE BatchDecodeAssumption
<1>1. /\ n \in Nat /\ done \in Nat /\ n <= MaxReady
      /\ TakeRows \in 1 .. BatchMax /\ done + TakeRows <= n
  BY TakeBounds DEF BatchIInv, BatchTypeOK
<1>2. lane' \in [Rows -> 1 .. BatchMax]
  BY SMTT(30), <1>1 DEF BatchIInv, BatchTypeOK, Launch, Micro, Rows
<1>3. buf' \in [1 .. BatchMax -> 0 .. MaxReady]
  BY <1>1 DEF BatchIInv, BatchTypeOK, Launch
<1>4. \A i \in Micro : buf'[lane'[i]] = i
  <2> SUFFICES ASSUME NEW i \in Micro PROVE buf'[lane'[i]] = i
    OBVIOUS
  <2>1. lane'[i] = i - done /\ i - done \in 1 .. BatchMax /\ i - done <= TakeRows
    BY <1>1 DEF Launch, Micro, Rows
  <2> QED BY <2>1, <1>1 DEF Launch, Micro, Rows
<1> QED BY <1>2, <1>3, <1>4

\* Every step of model_batch_decode keeps the rows already decoded readable.
LEMMA BatchNextInv == BatchIInv /\ [BatchNext]_vars => BatchIInv'
<1> SUFFICES ASSUME BatchIInv, [BatchNext]_vars PROVE BatchIInv'
  OBVIOUS
<1> USE BatchDecodeAssumption
<1>1. CASE Start
  BY SMTT(30), <1>1 DEF Start, BatchIInv, BatchTypeOK, RowsHome, BufferIsLast, Rows, Stale, Read
<1>2. CASE MicroHeld
  <2>1. done < n /\ n \in Nat /\ done \in Nat /\ n <= MaxReady
    BY <1>2, TakeBounds DEF MicroHeld, BatchIInv, BatchTypeOK, TakeRows
  <2>2. /\ TakeRows \in 1 .. BatchMax /\ done' = done + TakeRows /\ done' <= n
        /\ done' < n /\ n' = n /\ pc' = pc /\ pc = "decoding"
    BY <1>2, <2>1, TakeBounds DEF MicroHeld
  <2>3. /\ lane' \in [Rows -> 1 .. BatchMax]
        /\ buf' \in [1 .. BatchMax -> 0 .. MaxReady]
        /\ \A i \in Micro : buf'[lane'[i]] = i
    BY <1>2, <2>1, LaunchWrites DEF MicroHeld
  <2>4. /\ hold' \in [Rows -> 0 .. MaxReady]
        /\ \A i \in Rows : hold'[i] = IF i \in Micro THEN i ELSE hold[i]
    BY <1>2, <2>1, <2>2, <2>3 DEF MicroHeld, BatchIInv, BatchTypeOK, Rows, Micro
  <2>5. BatchTypeOK'
    BY <1>2, <2>1, <2>2, <2>3, <2>4 DEF MicroHeld, BatchIInv, BatchTypeOK
  <2>6. \A i \in Rows : i <= done' =>
          /\ out'[i] # "buf"
          /\ Read(i)' = i
    <3> SUFFICES ASSUME NEW i \in Rows, i <= done'
                 PROVE  out'[i] # "buf" /\ Read(i)' = i
      OBVIOUS
    <3>1. CASE i \in Micro
      <4>1. out'[i] = "hold"
        BY <1>2, <3>1 DEF MicroHeld, Micro
      <4> QED BY <3>1, <4>1, <2>4 DEF Read
    <3>2. CASE i \notin Micro
      <4>1. i <= done
        BY <3>2, <2>1, <2>2 DEF Micro, Rows
      <4>2. out[i] # "buf" /\ Read(i) = i
        BY <4>1, <2>1, <2>2 DEF BatchIInv, RowsHome, BufferIsLast
      <4>3. out'[i] = out[i] /\ hold'[i] = hold[i] /\ own'[i] = own[i]
        BY <1>2, <3>2, <2>4 DEF MicroHeld
      <4> QED BY <4>2, <4>3 DEF Read
    <3> QED BY <3>1, <3>2
  <2> QED BY <2>5, <2>6 DEF BatchIInv, RowsHome, BufferIsLast, Rows
<1>3. CASE HoldFail
  <2>1. done < n
    BY <1>3, TakeBounds DEF HoldFail, BatchIInv, BatchTypeOK, TakeRows
  <2>2. /\ lane' \in [Rows -> 1 .. BatchMax]
        /\ buf' \in [1 .. BatchMax -> 0 .. MaxReady]
    BY <1>3, <2>1, LaunchWrites DEF HoldFail
  <2> QED BY <1>3, <2>2 DEF HoldFail, BatchIInv, BatchTypeOK, RowsHome, BufferIsLast
<1>4. CASE MicroLast
  <2>1. done < n /\ n \in Nat /\ done \in Nat /\ done' = n /\ n' = n
        /\ pc' = pc /\ pc = "decoding" /\ done + TakeRows = n
    BY <1>4 DEF MicroLast, BatchIInv, BatchTypeOK
  <2>2. /\ lane' \in [Rows -> 1 .. BatchMax]
        /\ buf' \in [1 .. BatchMax -> 0 .. MaxReady]
        /\ \A i \in Micro : buf'[lane'[i]] = i
    BY <1>4, <2>1, LaunchWrites DEF MicroLast
  <2>3. BatchTypeOK'
    BY <1>4, <2>1, <2>2 DEF MicroLast, BatchIInv, BatchTypeOK
  <2>4. \A i \in Rows : i <= done' => Read(i)' = i
    <3> SUFFICES ASSUME NEW i \in Rows, i <= done' PROVE Read(i)' = i
      OBVIOUS
    <3>1. CASE i \in Micro
      <4>1. out'[i] = "buf"
        BY <1>4, <3>1 DEF MicroLast, Micro
      <4> QED BY <3>1, <4>1, <2>2 DEF Read
    <3>2. CASE i \notin Micro
      <4>1. i <= done
        BY <3>2, <2>1, TakeBounds DEF Micro, Rows
      <4>2. out[i] # "buf" /\ Read(i) = i
        BY <4>1, <2>1 DEF BatchIInv, RowsHome, BufferIsLast
      <4>3. out'[i] = out[i] /\ hold'[i] = hold[i] /\ own'[i] = own[i]
        BY <1>4, <3>2 DEF MicroLast
      <4> QED BY <4>2, <4>3 DEF Read
    <3> QED BY <3>1, <3>2
  <2> QED BY <2>1, <2>3, <2>4 DEF BatchIInv, RowsHome, BufferIsLast
<1>5. CASE Fallback
  <2>1. /\ done < n /\ n \in Nat /\ done \in Nat /\ n <= MaxReady
        /\ TakeRows \in 1 .. BatchMax /\ done' = done + TakeRows /\ done' <= n
        /\ n' = n /\ pc' = pc /\ pc = "decoding"
    BY <1>5, TakeBounds DEF Fallback, BatchIInv, BatchTypeOK
  <2>2. BatchTypeOK'
    <3>1. own' \in [Rows -> 0 .. MaxReady]
      BY <1>5 DEF Fallback, BatchIInv, BatchTypeOK, Rows
    <3>2. out' \in [Rows -> {"unset", "buf", "hold", "own"}]
      BY <1>5 DEF Fallback, BatchIInv, BatchTypeOK
    <3> QED BY <1>5, <2>1, <3>1, <3>2 DEF Fallback, BatchIInv, BatchTypeOK
  <2>3. \A i \in Rows : i <= done' => out'[i] # "buf" /\ Read(i)' = i
    <3> SUFFICES ASSUME NEW i \in Rows, i <= done'
                 PROVE  out'[i] # "buf" /\ Read(i)' = i
      OBVIOUS
    <3>1. CASE i \in Micro
      <4>1. out'[i] = "own" /\ own'[i] = i
        BY <1>5, <3>1 DEF Fallback, Micro
      <4> QED BY <4>1 DEF Read
    <3>2. CASE i \notin Micro
      <4>1. i <= done
        BY <3>2, <2>1 DEF Micro, Rows
      <4>2. out[i] # "buf" /\ Read(i) = i
        BY <4>1, <2>1 DEF BatchIInv, RowsHome, BufferIsLast
      <4>3. out'[i] = out[i] /\ hold'[i] = hold[i] /\ own'[i] = own[i]
        BY <1>5, <3>2 DEF Fallback
      <4> QED BY <4>2, <4>3 DEF Read
    <3> QED BY <3>1, <3>2
  <2> QED BY <2>2, <2>3 DEF BatchIInv, RowsHome, BufferIsLast, Rows
<1>6. CASE FallbackFail
  <2>1. own' \in [Rows -> 0 .. MaxReady]
    BY <1>6 DEF FallbackFail, BatchIInv, BatchTypeOK, Rows
  <2>2. out' \in [Rows -> {"unset", "buf", "hold", "own"}]
    BY <1>6 DEF FallbackFail, BatchIInv, BatchTypeOK
  <2> QED BY <1>6, <2>1, <2>2
          DEF FallbackFail, BatchIInv, BatchTypeOK, RowsHome, BufferIsLast
<1>7. CASE Return
  BY <1>7 DEF Return, BatchIInv, BatchTypeOK, RowsHome, BufferIsLast, Read
<1>8. CASE UNCHANGED vars
  BY <1>8 DEF vars, BatchIInv, BatchTypeOK, RowsHome, BufferIsLast, Read
<1> QED BY <1>1, <1>2, <1>3, <1>4, <1>5, <1>6, <1>7, <1>8 DEF BatchNext

\* model_batch_decode never hands a sequence another one's logits, and rows
\* are left in the backend's buffer only by the last microbatch, for every
\* batch size and every number of ready sequences.
THEOREM BatchDecodeCorrect == BatchSpec => [](BatchTypeOK /\ RowsHome /\ BufferIsLast)
<1>1. BatchSpec => []BatchIInv
  BY BatchInitInv, BatchNextInv, PTL DEF BatchSpec
<1>2. BatchIInv => BatchTypeOK /\ RowsHome /\ BufferIsLast
  BY DEF BatchIInv
<1> QED BY <1>1, <1>2, PTL
=============================================================================
