----------------------------- MODULE ShmProofs -----------------------------
(***************************************************************************)
(* Facts about the constants and the operations of Shm, for every module   *)
(* that uses the services.                                                 *)
(***************************************************************************)
EXTENDS Shm, FiniteSetTheorems, TLAPS

LEMMA Bounds ==
  /\ MaxLoans \in Nat /\ BufferSize \in Nat \ {0} /\ BorrowedMax \in Nat
  /\ MaxSessions \in Nat /\ MaxItems \in Nat
  /\ IsFiniteSet(Subs) /\ Cardinality(Subs) \in Nat
  BY ShmAssumption, FS_CardinalityType DEF ShmAssumption

\* Send appends one sample to the rings and may drop their oldest.
LEMMA SendType ==
  ASSUME NEW sm \in Sample, NEW overflow \in BOOLEAN, ShmTypeOK, Send(sm, overflow)
  PROVE  loans' \subseteq Slots /\ ring' \in [Subs -> Seq(Sample)]
  BY Bounds DEF Send, ShmTypeOK, RingFull

\* A step of a subscriber's ports, by whatever program they belong to.
PortStep(s) ==
  \/ Attach(s) \/ Detach(s) \/ Receive(s) \/ (\E sm \in borrowed[s] : Release(s, sm))
  \/ Park(s) \/ Wake(s) \/ WaitTimeout(s)

\* It keeps the types of the service.
LEMMA PortType ==
  ASSUME NEW s \in Subs, ShmTypeOK, PortStep(s)
  PROVE  ShmTypeOK'
<1>1. CASE Attach(s) BY <1>1 DEF Attach, ShmTypeOK
<1>2. CASE Detach(s) BY <1>2 DEF Detach, ShmTypeOK
<1>3. CASE Receive(s)
  <2>1. Head(ring[s]) \in Sample /\ Tail(ring[s]) \in Seq(Sample)
    BY <1>3 DEF Receive, ShmTypeOK
  <2>2. ring' \in [Subs -> Seq(Sample)]
    BY <1>3, <2>1 DEF Receive, ShmTypeOK
  <2>3. borrowed' \in [Subs -> SUBSET Sample]
    BY <1>3, <2>1 DEF Receive, ShmTypeOK
  <2>4. seen' \in [Subs -> 0..MaxItems]
    <3>1. Head(ring[s]).item \in 0..MaxItems
      BY <2>1, Bounds DEF Sample, Items
    <3> QED BY <1>3, <3>1 DEF Receive, ShmTypeOK
  <2> QED BY <1>3, <2>2, <2>3, <2>4 DEF Receive, ShmTypeOK
<1>4. CASE \E sm \in borrowed[s] : Release(s, sm) BY <1>4 DEF Release, ShmTypeOK
<1>5. CASE Park(s) BY <1>5 DEF Park, ShmTypeOK
<1>6. CASE Wake(s) BY <1>6 DEF Wake, ShmTypeOK
<1>7. CASE WaitTimeout(s) BY <1>7 DEF WaitTimeout, ShmTypeOK
<1> QED BY <1>1, <1>2, <1>3, <1>4, <1>5, <1>6, <1>7 DEF PortStep

----------------------------------------------------------------------------
\* What is in flight: only a send adds to it.

LEMMA QueuedTail ==
  ASSUME NEW q \in Seq(Sample), q # <<>>
  PROVE  \A i \in 1..Len(Tail(q)) : \E j \in 1..Len(q) : Tail(q)[i] = q[j]
<1> SUFFICES ASSUME NEW i \in 1..Len(Tail(q))
             PROVE  \E j \in 1..Len(q) : Tail(q)[i] = q[j]
  OBVIOUS
<1>1. i + 1 \in 1..Len(q) /\ Tail(q)[i] = q[i + 1] OBVIOUS
<1> QED BY <1>1

LEMMA TakeFlight ==
  ASSUME NEW s \in Subs, ShmTypeOK, ring[s] # <<>>,
         ring' = [ring EXCEPT ![s] = Tail(@)],
         \A r \in Subs : borrowed'[r] \subseteq borrowed[r] \cup {Head(ring[s])}
  PROVE  InFlight' \subseteq InFlight /\ Head(ring[s]) \in InFlight
<1>1. ring[s] \in Seq(Sample) /\ Head(ring[s]) = ring[s][1] /\ 1 \in 1..Len(ring[s])
  BY DEF ShmTypeOK
<1>2. Head(ring[s]) \in InFlight
  BY <1>1 DEF InFlight, Queued
<1>3. ASSUME NEW r \in Subs, NEW i \in 1..Len(ring'[r])
      PROVE  \E j \in 1..Len(ring[r]) : ring'[r][i] = ring[r][j]
  <2>1. CASE r = s
    <3>1. ring'[r] = Tail(ring[s])
      BY <2>1 DEF ShmTypeOK
    <3> QED BY <1>1, <1>3, <2>1, <3>1, QueuedTail
  <2>2. CASE r # s
    BY <1>3, <2>2 DEF ShmTypeOK
  <2> QED BY <2>1, <2>2
<1>4. \A r \in Subs : Queued(r)' \subseteq Queued(r)
  BY <1>3 DEF Queued
<1>5. \A r \in Subs : borrowed[r] \subseteq InFlight /\ Queued(r) \subseteq InFlight
  BY DEF InFlight
<1>6. \A r \in Subs : borrowed'[r] \subseteq InFlight /\ Queued(r)' \subseteq InFlight
  BY <1>2, <1>4, <1>5
<1> QED BY <1>2, <1>6 DEF InFlight

LEMMA DropFlight ==
  ASSUME \A r \in Subs : borrowed'[r] \subseteq borrowed[r] /\ (ring'[r] = ring[r] \/ ring'[r] = <<>>)
  PROVE  InFlight' \subseteq InFlight
<1>1. \A r \in Subs : Queued(r)' \subseteq Queued(r)
  BY DEF Queued
<1> QED BY <1>1 DEF InFlight

LEMMA PortFlight ==
  ASSUME NEW s \in Subs, ShmTypeOK, PortStep(s)
  PROVE  InFlight' \subseteq InFlight
<1>1. CASE Receive(s)
  <2>1. \A r \in Subs : borrowed'[r] \subseteq borrowed[r] \cup {Head(ring[s])}
    BY <1>1 DEF Receive, ShmTypeOK
  <2> QED BY <1>1, <2>1, TakeFlight DEF Receive
<1>2. CASE Detach(s)
  BY <1>2, DropFlight DEF Detach, ShmTypeOK
<1>3. CASE \E sm \in borrowed[s] : Release(s, sm)
  BY <1>3, DropFlight DEF Release, ShmTypeOK
<1>4. CASE UNCHANGED <<ring, borrowed>>
  BY <1>4, DropFlight
<1> QED BY <1>1, <1>2, <1>3, <1>4 DEF PortStep, Attach, Park, Wake, WaitTimeout

----------------------------------------------------------------------------
\* Order: the items of q rise, and from above n.
Rising(n, q) ==
  \A k \in 1..Len(q) : n < q[k].item /\ \A l \in 1..(k - 1) : q[l].item < q[k].item

\* A subscriber still has to read what is newer than all it has read, in order.
RingOrder == \A s \in Subs : Rising(seen[s], ring[s])

LEMMA RisingTail ==
  ASSUME NEW q \in Seq(Sample), q # <<>>, NEW n \in Int, Rising(n, q)
  PROVE  Rising(n, Tail(q)) /\ Rising(Head(q).item, Tail(q)) /\ n < Head(q).item
<1>1. /\ Head(q) = q[1] /\ 1 \in 1..Len(q)
      /\ \A k \in 1..Len(Tail(q)) :
           /\ k + 1 \in 1..Len(q) /\ Tail(q)[k] = q[k + 1] /\ 1 \in 1..((k + 1) - 1)
           /\ \A l \in 1..(k - 1) : l + 1 \in 1..((k + 1) - 1) /\ Tail(q)[l] = q[l + 1]
  OBVIOUS
<1> QED BY <1>1 DEF Rising

LEMMA RisingAppend ==
  ASSUME NEW q \in Seq(Sample), NEW n \in Int, NEW e, Rising(n, q), n < e.item,
         \A k \in 1..Len(q) : q[k].item < e.item
  PROVE  Rising(n, Append(q, e))
<1>1. /\ Len(Append(q, e)) = Len(q) + 1 /\ Append(q, e)[Len(q) + 1] = e /\ Len(q) \in Nat
      /\ \A k \in 1..Len(q) : Append(q, e)[k] = q[k]
  OBVIOUS
<1>2. ASSUME NEW k \in 1..(Len(q) + 1)
      PROVE  /\ n < Append(q, e)[k].item
             /\ \A l \in 1..(k - 1) : Append(q, e)[l].item < Append(q, e)[k].item
  <2>1. CASE k \in 1..Len(q)
    BY <1>1, <2>1 DEF Rising
  <2>2. CASE k = Len(q) + 1
    BY <1>1, <2>2
  <2> QED BY <1>1, <2>1, <2>2
<1> QED BY <1>1, <1>2 DEF Rising

\* A sample newer than all that was sent keeps the order, whatever it overwrites.
LEMMA SendRises ==
  ASSUME NEW sm \in Sample, NEW overflow \in BOOLEAN, ShmTypeOK, RingOrder,
         Send(sm, overflow), seen' = seen,
         \A s \in Subs : seen[s] < sm.item /\ \A k \in 1..Len(ring[s]) : ring[s][k].item < sm.item
  PROVE  RingOrder'
<1> SUFFICES ASSUME NEW s \in Subs PROVE Rising(seen[s], ring'[s])
  BY DEF RingOrder
<1>1. ring[s] \in Seq(Sample) /\ seen[s] \in Int /\ Rising(seen[s], ring[s])
  BY Bounds DEF ShmTypeOK, RingOrder
<1>2. CASE ring'[s] = ring[s]
  BY <1>1, <1>2
<1>3. CASE ring'[s] = Append(ring[s], sm)
  BY <1>1, <1>3, RisingAppend
<1>4. CASE ring[s] # <<>> /\ ring'[s] = Append(Tail(ring[s]), sm)
  <2>1. Tail(ring[s]) \in Seq(Sample) /\ Rising(seen[s], Tail(ring[s]))
    BY <1>1, <1>4, RisingTail
  <2>2. \A k \in 1..Len(Tail(ring[s])) : Tail(ring[s])[k].item < sm.item
    <3>1. \A k \in 1..Len(Tail(ring[s])) :
            k + 1 \in 1..Len(ring[s]) /\ Tail(ring[s])[k] = ring[s][k + 1]
      BY <1>1, <1>4
    <3> QED BY <3>1
  <2> QED BY <1>1, <1>4, <2>1, <2>2, RisingAppend
<1>5. RingFull(s) => ring[s] # <<>>
  BY <1>1, Bounds DEF RingFull
<1> QED BY <1>2, <1>3, <1>4, <1>5 DEF Send

\* So does a sample that is taken from a ring.
LEMMA TakeRises ==
  ASSUME NEW s \in Subs, ShmTypeOK, RingOrder, ring[s] # <<>>,
         ring' = [ring EXCEPT ![s] = Tail(@)],
         seen' = [seen EXCEPT ![s] = Head(ring[s]).item]
  PROVE  RingOrder' /\ seen[s] < seen'[s]
<1>1. ring[s] \in Seq(Sample) /\ seen[s] \in Int /\ Rising(seen[s], ring[s])
  BY Bounds DEF ShmTypeOK, RingOrder
<1>2. Rising(Head(ring[s]).item, Tail(ring[s])) /\ seen[s] < Head(ring[s]).item
  BY <1>1, RisingTail
<1>3. /\ ring'[s] = Tail(ring[s]) /\ seen'[s] = Head(ring[s]).item
      /\ \A r \in Subs : r # s => ring'[r] = ring[r] /\ seen'[r] = seen[r]
  BY DEF ShmTypeOK
<1> QED BY <1>2, <1>3 DEF RingOrder

LEMMA PortRises ==
  ASSUME NEW s \in Subs, ShmTypeOK, RingOrder, PortStep(s)
  PROVE  RingOrder'
<1>1. CASE Receive(s)
  BY <1>1, TakeRises DEF Receive
<1>2. CASE Detach(s)
  <2>1. /\ ring'[s] = <<>> /\ seen' = seen
        /\ \A r \in Subs : r # s => ring'[r] = ring[r]
    BY <1>2 DEF Detach, ShmTypeOK
  <2>2. \A r \in Subs : Rising(seen[r], ring'[r])
    BY <2>1 DEF RingOrder, Rising
  <2> QED BY <2>1, <2>2 DEF RingOrder
<1>3. CASE ring' = ring /\ seen' = seen
  BY <1>3 DEF RingOrder
<1> QED BY <1>1, <1>2, <1>3 DEF PortStep, Attach, Release, Park, Wake, WaitTimeout

----------------------------------------------------------------------------
\* Nothing unread is lost by a send that does not overflow, nor by a step of a port
\* other than the reader's departure.
Unlost(s) == Queued(s) \subseteq Queued(s)' \cup borrowed'[s]

LEMMA SendKeepsUnread ==
  ASSUME NEW sm, NEW s \in attached, ShmTypeOK, Send(sm, FALSE)
  PROVE  Unlost(s)
<1>1. s \in Subs /\ ring[s] \in Seq(Sample)
  BY DEF ShmTypeOK
<1>2. ring'[s] = Append(ring[s], sm)
  BY <1>1 DEF Send
<1>3. \A k \in 1..Len(ring[s]) : k \in 1..Len(ring'[s]) /\ ring'[s][k] = ring[s][k]
  BY <1>1, <1>2
<1> QED BY <1>3 DEF Unlost, Queued

LEMMA PortKeepsUnread ==
  ASSUME NEW r \in Subs, NEW s \in attached \cap attached', ShmTypeOK, PortStep(r)
  PROVE  Unlost(s)
<1>1. s \in Subs /\ ring[s] \in Seq(Sample)
  BY DEF ShmTypeOK
<1>2. CASE ring'[s] = ring[s]
  BY <1>2 DEF Unlost, Queued
<1>3. CASE Receive(s)
  <2>1. /\ ring[s] # <<>> /\ ring'[s] = Tail(ring[s])
        /\ Head(ring[s]) \in borrowed'[s]
    BY <1>1, <1>3 DEF Receive, ShmTypeOK
  <2>2. \A k \in 1..Len(ring[s]) :
          \/ ring[s][k] = Head(ring[s])
          \/ k - 1 \in 1..Len(ring'[s]) /\ ring'[s][k - 1] = ring[s][k]
    BY <1>1, <2>1
  <2> QED BY <2>1, <2>2 DEF Unlost, Queued
<1>4. CASE Receive(r) /\ r # s
  BY <1>1, <1>2, <1>4 DEF Receive, ShmTypeOK
<1>5. CASE Detach(r)
  BY <1>1, <1>2, <1>5 DEF Detach, ShmTypeOK
<1> QED BY <1>2, <1>3, <1>4, <1>5 DEF PortStep, Attach, Release, Park, Wake, WaitTimeout

=============================================================================
