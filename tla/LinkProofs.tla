----------------------------- MODULE LinkProofs -----------------------------
(***************************************************************************)
(* DeliveredAsPushed of Link, for every value of the constants: what an    *)
(* iceoryx2src pushes downstream is what entered the iceoryx2sink; and     *)
(* DownstreamIntact, when the sink's pipeline keeps one pool buffer alive: *)
(* it stays that for as long as downstream keeps it.                       *)
(***************************************************************************)
EXTENDS Link, SinkChannelProofs

\* create holds one frame exactly while it delivers it: one it has borrowed, the
\* last it has read, with the caps it remembers.
FrameInHand ==
  /\ create \in [pc : Source!InPcs, sample : SUBSET Sample, changed : BOOLEAN]
  /\ create.pc = "deliver" <=> create.sample # {}
  /\ create.sample \subseteq borrowed[Me]
  /\ \A sm \in create.sample : ~sm.eos /\ sm.caps = last_caps /\ sm.item = seen[Me]

\* create is over whenever the element is not running, and it waits on the
\* listener only from its receive loop.
SrcCalls ==
  /\ srcCtl \in {"flushed", "inactive", "stopped"} => create.pc = "idle"
  /\ Me \in parked => create.pc = "receive"

\* The pad has the caps create remembers, unless they are about to be set or the
\* pad is being deactivated.
PadRemembers ==
  /\ srcCtl \in {"run", "flush", "flushed"} /\ ~(create.pc = "deliver" /\ create.changed)
       => pad = last_caps
  /\ srcCtl = "stopped" => pad = 0

\* What was delivered is a frame the upstream pushed, under the caps it was pushed
\* with; it was read before, and before the one in hand.
Log ==
  \A k \in 1..Len(delivered) :
    /\ delivered[k].item \in Items /\ Filled(delivered[k].item)
    /\ delivered[k].under = buf[delivered[k].item].caps
    /\ delivered[k].item <= seen[Me]
    /\ create.pc = "deliver" => delivered[k].item < seen[Me]

LogRises ==
  \A k \in 1..Len(delivered) : k > 1 => delivered[k - 1].item < delivered[k].item

SourceInv ==
  /\ delivered \in Seq(Source!Frame)
  /\ FrameInHand /\ SrcCalls /\ PadRemembers /\ Log /\ LogRises

LinkInv == OrderInv /\ SourceInv

----------------------------------------------------------------------------
\* The basic facts.

LEMMA MeIsAll == Me \in Subs /\ Subs = {Me}
  BY LinkAssumption DEF LinkAssumption

LEMMA LinkBasics ==
  ASSUME LinkInv
  PROVE  /\ OrderInv /\ SourceInv /\ HeaderInv /\ BufInv /\ TypeOK /\ ShmTypeOK /\ RingOrder
         /\ ring[Me] \in Seq(Sample) /\ borrowed[Me] \subseteq Sample
         /\ borrowed[Me] \subseteq InFlight
         /\ borrowed \in [Subs -> SUBSET Sample]
         /\ delivered \in Seq(Source!Frame) /\ seen[Me] \in Int
         /\ SentNos \subseteq Nat
<1>1. OrderInv /\ SourceInv /\ HeaderInv /\ BufInv /\ TypeOK /\ ShmTypeOK /\ RingOrder
      /\ SentNos \subseteq Nat
  BY OrderBasics DEF LinkInv, OrderInv, TypeOK
<1>2. /\ ring[Me] \in Seq(Sample) /\ borrowed[Me] \subseteq Sample /\ seen[Me] \in Int
      /\ borrowed \in [Subs -> SUBSET Sample]
  BY <1>1, MeIsAll, Bounds DEF ShmTypeOK
<1>3. borrowed[Me] \subseteq InFlight
  BY MeIsAll DEF InFlight
<1> QED BY <1>1, <1>2, <1>3 DEF SourceInv

LEMMA SrcIdle ==
  /\ Source!Idle \in [pc : Source!InPcs, sample : SUBSET Sample, changed : BOOLEAN]
  /\ Source!Idle.pc = "idle" /\ Source!Idle.sample = {}
  BY DEF Source!Idle, Source!InPcs

LEMMA LinkStart == LinkInit => LinkInv
<1> SUFFICES ASSUME LinkInit PROVE LinkInv
  OBVIOUS
<1>1. OrderInv
  BY OrderInit DEF LinkInit
<1>2. /\ create = Source!Idle /\ delivered = <<>> /\ pad = 0 /\ last_caps = 0
      /\ srcCtl = "stopped"
  BY DEF LinkInit, Source!Init
<1>3. parked = {}
  BY DEF LinkInit, Init, ShmInit
<1>4. FrameInHand /\ SrcCalls /\ PadRemembers /\ Log /\ LogRises
  BY <1>2, <1>3, SrcIdle DEF FrameInHand, SrcCalls, PadRemembers, Log, LogRises
<1>5. delivered \in Seq(Source!Frame)
  BY <1>2
<1> QED BY <1>1, <1>4, <1>5 DEF LinkInv, SourceInv

----------------------------------------------------------------------------
\* The sink's steps leave the source alone, and what it delivered is pushed already.

LEMMA SinkKeepsReader ==
  ASSUME SinkStep
  PROVE  UNCHANGED <<borrowed, parked, seen>>
<1>1. CASE Application \/ Upstream \/ Drop
  BY <1>1 DEF Application, Start, Stop, Unlock, UnlockStop, FlushStop, Upstream,
     PushCaps, PushEos, PushSystem, Produce, ProposeAllocation, AcquireBegin, AllocBuffer,
     AllocFails, FillAndPush, Drop, HandleDrop, shmVars
<1>2. CASE Streaming
  BY <1>2 DEF Streaming, Render, RenderBegin, AwaitConnection, AwaitFlushing, RenderRefused,
     TakeLoan, ZeroCopySend, ZeroCopyNotify, CopyStart, CopyLoan, CopyLoanFails, CopySend,
     CopyNotify, SendFails, NotifyFails, FlushItem, SetCaps, PublishEos, EosSend, EosNotify,
     shmVars
<1> QED BY <1>1, <1>2 DEF SinkStep

LEMMA SinkStepInv == LinkInv /\ SinkStep => LinkInv'
<1> SUFFICES ASSUME LinkInv, SinkStep PROVE LinkInv'
  OBVIOUS
<1>1. Next /\ UNCHANGED <<last_caps, create, srcCtl, pad, delivered>>
  BY DEF SinkStep, Next, srcVars
<1>2. OrderInv'
  BY <1>1, OrderStep, LinkBasics
<1>3. \A i \in Items : Filled(i) => FilledNext(i) /\ buf'[i].caps = buf[i].caps
  BY <1>1, StepSettles, LinkBasics DEF Settles
<1>4. FrameInHand'
  BY <1>1, SinkKeepsReader, LinkBasics DEF SourceInv, FrameInHand
<1>5. SrcCalls' /\ PadRemembers' /\ LogRises'
  BY <1>1, SinkKeepsReader, LinkBasics DEF SourceInv, SrcCalls, PadRemembers, LogRises
<1>6. Log'
  BY <1>1, <1>3, SinkKeepsReader, LinkBasics DEF SourceInv, Log, Filled, FilledNext
<1> QED BY <1>1, <1>2, <1>4, <1>5, <1>6, LinkBasics DEF LinkInv, SourceInv

----------------------------------------------------------------------------
\* The source's steps leave the sink alone, and only take from its rings.

LEMMA SourceKeepsHeaders ==
  ASSUME HeaderInv, UNCHANGED sinkVars, ShmTypeOK', InFlight' \subseteq InFlight
  PROVE  HeaderInv'
<1>1. UNCHANGED <<started, publisher, caps, registry, unlocked, clients, counters, render, flow,
                  session, ctl, input, next, upcaps, ended, pool, acq, buf, pixels, published>>
  BY DEF sinkVars, elementVars, streamVars, upVars, histVars
<1>2. TypeOK'
  BY <1>1 DEF HeaderInv, BufInv, TypeOK, FlagTypeOK, ElementTypeOK, StreamTypeOK, InHand,
     UpstreamTypeOK, PipelineTypeOK, HistoryTypeOK
<1>3. Buffers'
  BY <1>1 DEF HeaderInv, BufInv, Buffers, Filled
<1>4. Phases' /\ NoCapsYet' /\ StampedCaps'
  BY <1>1 DEF HeaderInv, Phases, NoCapsYet, StampedCaps
<1>5. InputCaps'
  BY <1>1 DEF HeaderInv, InputCaps
<1>6. FlightCaps'
  BY <1>1 DEF HeaderInv, FlightCaps, Filled
<1> QED BY <1>2, <1>3, <1>4, <1>5, <1>6 DEF HeaderInv, BufInv

LEMMA SourceKeepsOrder ==
  ASSUME OrderInv, UNCHANGED sinkVars, ShmTypeOK', RingOrder', InFlight' \subseteq InFlight,
         \A s \in Subs : seen'[s] \in SentNos
  PROVE  OrderInv'
<1>1. UNCHANGED <<render, input, next, buf>>
  BY DEF sinkVars, streamVars, upVars
<1>2. HeaderInv'
  BY SourceKeepsHeaders DEF OrderInv
<1> QED BY <1>1, <1>2, OrderSame

LEMMA SourceDrops ==
  ASSUME LinkInv, UNCHANGED sinkVars, Source!TakeAndDrop, ring[Me] # <<>>
  PROVE  OrderInv' /\ seen[Me] < seen'[Me] /\ borrowed' = borrowed
<1>1. /\ ring' = [ring EXCEPT ![Me] = Tail(@)]
      /\ seen' = [seen EXCEPT ![Me] = Head(ring[Me]).item]
      /\ UNCHANGED <<loans, borrowed, attached, event, parked>>
  BY DEF Source!TakeAndDrop, Source!Received
<1>2. RingOrder' /\ seen[Me] < seen'[Me]
  BY <1>1, TakeRises, LinkBasics, MeIsAll
<1>3. InFlight' \subseteq InFlight /\ Head(ring[Me]) \in InFlight
  BY <1>1, TakeFlight, LinkBasics, MeIsAll
<1>4. Head(ring[Me]) \in Sample /\ Tail(ring[Me]) \in Seq(Sample)
  BY LinkBasics
<1>5. Head(ring[Me]).item \in 0..MaxItems
  BY <1>4, Bounds DEF Sample, Items
<1>6. ShmTypeOK'
  BY <1>1, <1>4, <1>5, LinkBasics, MeIsAll DEF ShmTypeOK
<1>7. \A s \in Subs : seen'[s] \in SentNos
  BY <1>1, <1>3, LinkBasics, MeIsAll DEF SentNos, ShmTypeOK
<1> QED BY <1>1, <1>2, <1>3, <1>6, <1>7, SourceKeepsOrder, LinkBasics

LEMMA SourcePort ==
  ASSUME LinkInv, UNCHANGED sinkVars, PortStep(Me)
  PROVE  /\ OrderInv'
         /\ Receive(Me) => seen'[Me] = Head(ring[Me]).item /\ seen[Me] < seen'[Me]
                           /\ borrowed'[Me] = borrowed[Me] \cup {Head(ring[Me])}
         /\ ~Receive(Me) => seen' = seen
<1>1. ShmTypeOK' /\ RingOrder' /\ InFlight' \subseteq InFlight
  BY PortType, PortRises, PortFlight, LinkBasics, MeIsAll
<1>2. CASE Receive(Me)
  <2>1. /\ seen'[Me] = Head(ring[Me]).item /\ Head(ring[Me]) \in InFlight
        /\ borrowed'[Me] = borrowed[Me] \cup {Head(ring[Me])}
    <3>1. \A r \in Subs : borrowed'[r] \subseteq borrowed[r] \cup {Head(ring[Me])}
      BY <1>2, LinkBasics, MeIsAll DEF Receive, ShmTypeOK
    <3> QED BY <1>2, <3>1, TakeFlight, LinkBasics, MeIsAll DEF Receive, ShmTypeOK
  <2>2. seen[Me] < seen'[Me]
    BY <1>2, TakeRises, LinkBasics, MeIsAll DEF Receive
  <2>3. \A s \in Subs : seen'[s] \in SentNos
    BY <2>1, MeIsAll DEF SentNos
  <2> QED BY <1>1, <1>2, <2>1, <2>2, <2>3, SourceKeepsOrder, LinkBasics
<1>3. CASE ~Receive(Me)
  <2>1. seen' = seen
    BY <1>3 DEF PortStep, Attach, Detach, Release, Park, Wake, WaitTimeout
  <2>2. \A s \in Subs : seen'[s] \in SentNos
    BY <2>1 DEF SentNos
  <2> QED BY <1>1, <1>3, <2>1, <2>2, SourceKeepsOrder, LinkBasics
<1> QED BY <1>2, <1>3

LEMMA SourceStays ==
  ASSUME LinkInv, UNCHANGED sinkVars, UNCHANGED shmVars
  PROVE  OrderInv' /\ seen' = seen /\ borrowed' = borrowed
<1>1. UNCHANGED <<loans, ring, borrowed, attached, event, parked, seen>>
  BY DEF shmVars
<1>2. ShmTypeOK' /\ RingOrder' /\ InFlight' = InFlight
  BY <1>1, InFlightSame, LinkBasics DEF ShmTypeOK, RingOrder
<1>3. \A s \in Subs : seen'[s] \in SentNos
  BY <1>1 DEF SentNos
<1> QED BY <1>1, <1>2, <1>3, SourceKeepsOrder, LinkBasics

LEMMA SourceReleases ==
  ASSUME LinkInv, UNCHANGED sinkVars, Source!DropHand
  PROVE  OrderInv' /\ seen' = seen
<1>1. /\ borrowed' = [borrowed EXCEPT ![Me] = @ \ create.sample]
      /\ UNCHANGED <<loans, ring, attached, event, parked, seen>>
  BY DEF Source!DropHand
<1>2. ShmTypeOK' /\ RingOrder'
  BY <1>1, LinkBasics, MeIsAll DEF ShmTypeOK, RingOrder
<1>3. InFlight' \subseteq InFlight
  BY <1>1, DropFlight, LinkBasics
<1>4. \A s \in Subs : seen'[s] \in SentNos
  BY <1>1 DEF SentNos
<1> QED BY <1>1, <1>2, <1>3, <1>4, SourceKeepsOrder, LinkBasics

----------------------------------------------------------------------------
\* The steps of the source.

\* A step that leaves the source without a frame in hand and delivers nothing.
LEMMA NothingInHand ==
  ASSUME LinkInv, OrderInv', UNCHANGED sinkVars,
         create' \in [pc : Source!InPcs, sample : SUBSET Sample, changed : BOOLEAN],
         create'.sample = {}, create'.pc # "deliver", delivered' = delivered,
         seen[Me] <= seen'[Me], seen'[Me] \in Int, SrcCalls', PadRemembers'
  PROVE  LinkInv'
<1>1. buf' = buf
  BY DEF sinkVars
<1>2. FrameInHand'
  BY DEF FrameInHand
<1>3. Log'
  <2>1. \A k \in 1..Len(delivered) : delivered[k].item \in Int
    BY Bounds, LinkBasics DEF SourceInv, Log, Items
  <2> QED BY <1>1, <2>1, LinkBasics DEF SourceInv, Log, Filled
<1>4. LogRises'
  BY LinkBasics DEF SourceInv, LogRises
<1> QED BY <1>2, <1>3, <1>4, LinkBasics DEF LinkInv, SourceInv

LEMMA SeenNext == OrderInv' => seen'[Me] \in Int
<1>1. OrderInv => seen[Me] \in Int
  BY OrderBasics, MeIsAll, Bounds DEF TypeOK, ShmTypeOK
<1>2. (OrderInv => seen[Me] \in Int)'
  BY <1>1, PTL
<1> QED BY <1>2

\* The application of the source.
LEMMA SourceApplicationInv ==
  LinkInv /\ Source!Application /\ UNCHANGED sinkVars => LinkInv'
<1> SUFFICES ASSUME LinkInv, Source!Application, UNCHANGED sinkVars PROVE LinkInv'
  OBVIOUS
<1> USE LinkBasics
<1>1. create' = create /\ delivered' = delivered
  BY DEF Source!Application, Source!Start, Source!Unlock, Source!UnlockStop, Source!FlushStop,
     Source!Stop
<1>2. OrderInv' /\ seen' = seen
  <2>1. CASE Source!Start
    <3>1. PortStep(Me) /\ ~Receive(Me)
      BY <2>1 DEF Source!Start, Source!Attach, Attach, PortStep, Receive
    <3> QED BY <3>1, SourcePort
  <2>2. CASE Source!Stop
    <3>1. Detach(Me)
      BY <2>2 DEF Source!Stop, Source!Detach, Detach
    <3>2. Receive(Me) => attached' = attached /\ Me \in attached
      BY DEF Receive
    <3>3. ~Receive(Me)
      BY <3>1, <3>2 DEF Detach
    <3> QED BY <3>1, <3>3, SourcePort DEF PortStep
  <2>3. CASE UNCHANGED shmVars
    BY <2>3, SourceStays
  <2> QED BY <2>1, <2>2, <2>3
          DEF Source!Application, Source!Unlock, Source!UnlockStop, Source!FlushStop,
              Source!shmVars, shmVars
<1>3. parked' \subseteq parked
  BY DEF Source!Application, Source!Start, Source!Unlock, Source!UnlockStop, Source!FlushStop,
     Source!Stop, Source!Attach, Source!Detach, Source!shmVars
<1>4. SrcCalls' /\ PadRemembers'
  BY <1>1, <1>3 DEF Source!Application, Source!Start, Source!Unlock, Source!UnlockStop,
     Source!FlushStop, Source!Stop, Source!fields, SourceInv, SrcCalls, PadRemembers
<1>5. CASE create.pc # "deliver"
  <2>1. create' \in [pc : Source!InPcs, sample : SUBSET Sample, changed : BOOLEAN]
        /\ create'.sample = {} /\ create'.pc # "deliver"
    BY <1>1, <1>5 DEF SourceInv, FrameInHand
  <2>2. seen[Me] <= seen'[Me] /\ seen'[Me] \in Int
    BY <1>2
  <2> QED BY <1>1, <1>2, <1>4, <2>1, <2>2, NothingInHand
<1>6. CASE create.pc = "deliver"
  <2>1. Source!Unlock
    BY <1>6 DEF Source!Application, Source!Start, Source!UnlockStop, Source!FlushStop,
       Source!Stop, SourceInv, SrcCalls
  <2>2. UNCHANGED <<borrowed, seen, last_caps, buf>>
    BY <2>1 DEF Source!Unlock, Source!shmVars, sinkVars
  <2>3. FrameInHand' /\ Log' /\ LogRises'
    BY <1>1, <2>2 DEF SourceInv, FrameInHand, Log, LogRises, Filled
  <2> QED BY <1>1, <1>2, <1>4, <2>3 DEF LinkInv, SourceInv
<1> QED BY <1>5, <1>6

\* create without a frame in hand, and without what it might have received.
LEMMA SourceLoopInv ==
  ASSUME LinkInv, UNCHANGED sinkVars,
         \/ Source!CreateBegin \/ Source!Flushing \/ Source!Check \/ Source!ReceiveFails
         \/ Source!Wait \/ Source!Notified \/ Source!TimedOut
         \/ Source!ReceiveEos \/ Source!ReceiveMalformed \/ Source!ReceiveCapless
  PROVE  LinkInv'
<1> USE LinkBasics
<1> DEFINE Create == [pc : Source!InPcs, sample : SUBSET Sample, changed : BOOLEAN]
<1>1. /\ create \in Create
      /\ create.pc # "deliver" => create.sample = {}
      /\ Me \in parked => create.pc = "receive"
  BY DEF SourceInv, FrameInHand, SrcCalls
<1>2. create.pc # "deliver"
  BY <1>1 DEF Source!CreateBegin, Source!Flushing, Source!Check, Source!ReceiveFails, Source!Wait,
     Source!Notified, Source!TimedOut, Source!Wake, Source!WaitTimeout,
     Source!ReceiveEos, Source!ReceiveMalformed, Source!ReceiveCapless, Source!IsFrame,
     Source!CanReceive, Source!Receiving
<1>3. UNCHANGED <<srcCtl, pad, last_caps, delivered>>
  BY DEF Source!CreateBegin, Source!Flushing, Source!Check, Source!ReceiveFails, Source!Wait,
     Source!Notified, Source!TimedOut, Source!WaitEnds, Source!ReceiveEos,
     Source!ReceiveMalformed, Source!ReceiveCapless, Source!Return, Source!fields,
     Source!baseVars
<1>4. create' = Source!Idle \/ create' = [create EXCEPT !.pc = "check"]
      \/ create' = [create EXCEPT !.pc = "receive"] \/ create' = create
  BY DEF Source!CreateBegin, Source!Flushing, Source!Check, Source!ReceiveFails, Source!Wait,
     Source!Notified, Source!TimedOut, Source!WaitEnds, Source!ReceiveEos,
     Source!ReceiveMalformed, Source!ReceiveCapless, Source!Return
<1>5. create' \in Create /\ create'.sample = {} /\ create'.pc # "deliver"
  BY <1>1, <1>2, <1>4, SrcIdle DEF Source!InPcs
<1>6. create.pc # "idle" \/ srcCtl = "run"
  BY <1>1 DEF Source!CreateBegin, Source!Flushing, Source!Check, Source!ReceiveFails, Source!Wait,
     Source!Notified, Source!TimedOut, Source!Wake, Source!WaitTimeout,
     Source!ReceiveEos, Source!ReceiveMalformed, Source!ReceiveCapless, Source!IsFrame,
     Source!CanReceive, Source!Receiving
<1>7. Me \in parked' => create'.pc = "receive"
  <2>1. CASE Source!CreateBegin \/ Source!Flushing \/ Source!Check \/ Source!ReceiveFails
    BY <1>1, <2>1 DEF Source!CreateBegin, Source!Flushing, Source!Check, Source!ReceiveFails,
       Source!Receiving, Source!shmVars
  <2>2. CASE Source!Wait
    BY <2>2 DEF Source!Wait
  <2>3. CASE Source!Notified \/ Source!TimedOut
    BY <2>3 DEF Source!Notified, Source!TimedOut, Source!Wake, Source!WaitTimeout
  <2>4. CASE Source!ReceiveEos \/ Source!ReceiveMalformed \/ Source!ReceiveCapless
    BY <2>4 DEF Source!ReceiveEos, Source!ReceiveMalformed, Source!ReceiveCapless,
       Source!IsFrame, Source!CanReceive, Source!Receiving, Source!TakeAndDrop
  <2> QED BY <2>1, <2>2, <2>3, <2>4
<1>8. SrcCalls' /\ PadRemembers'
  BY <1>2, <1>3, <1>5, <1>6, <1>7 DEF SourceInv, SrcCalls, PadRemembers
<1>9. OrderInv' /\ seen[Me] <= seen'[Me]
  <2>1. CASE UNCHANGED shmVars
    BY <2>1, SourceStays
  <2>2. CASE Source!Wait
    <3>1. PortStep(Me) /\ ~Receive(Me)
      BY <2>2 DEF Source!Wait, Source!Park, Park, PortStep, Receive
    <3> QED BY <3>1, SourcePort
  <2>3. CASE Source!Notified \/ Source!TimedOut
    <3>1. PortStep(Me) /\ ~Receive(Me)
      BY <2>3 DEF Source!Notified, Source!TimedOut, Source!Wake, Source!WaitTimeout, Wake,
         WaitTimeout, PortStep, Receive
    <3> QED BY <3>1, SourcePort
  <2>4. CASE Source!ReceiveEos \/ Source!ReceiveMalformed \/ Source!ReceiveCapless
    <3>1. Source!TakeAndDrop /\ ring[Me] # <<>>
      BY <2>4 DEF Source!ReceiveEos, Source!ReceiveMalformed, Source!ReceiveCapless,
         Source!IsFrame, Source!CanReceive, Source!Receiving
    <3>2. OrderInv' /\ seen[Me] < seen'[Me]
      BY <3>1, SourceDrops
    <3> QED BY <3>2, SeenNext
  <2> QED BY <2>1, <2>2, <2>3, <2>4 DEF Source!CreateBegin, Source!Flushing, Source!Check,
          Source!ReceiveFails, Source!shmVars, shmVars
<1>10. seen'[Me] \in Int
  BY <1>9, SeenNext
<1> HIDE DEF Create
<1> QED BY <1>3, <1>5, <1>8, <1>9, <1>10, NothingInHand DEF Create

\* The frame received is new, and has the caps create now remembers.
LEMMA SourceReceivesInv ==
  ASSUME LinkInv, UNCHANGED sinkVars, Source!ReceiveFrame
  PROVE  LinkInv'
<1> USE LinkBasics
<1>1. Receive(Me) /\ create.pc = "receive" /\ Me \notin parked
  <2>1. Source!Cardinality(borrowed[Me]) = Cardinality(borrowed[Me])
    BY DEF Source!Cardinality, Cardinality
  <2> QED BY <2>1 DEF Source!ReceiveFrame, Source!IsFrame, Source!CanReceive, Source!Receiving,
          Source!Receive, Receive
<1>2. /\ OrderInv' /\ seen'[Me] = Head(ring[Me]).item /\ seen[Me] < seen'[Me]
      /\ borrowed'[Me] = borrowed[Me] \cup {Head(ring[Me])}
  BY <1>1, SourcePort DEF PortStep
<1>3. Head(ring[Me]) \in Sample /\ ~Head(ring[Me]).eos
  BY <1>1 DEF Receive, Source!ReceiveFrame, Source!IsFrame, Source!Received
<1>4. /\ create'.pc = "deliver" /\ create'.sample = {Head(ring[Me])}
      /\ create' \in [pc : Source!InPcs, sample : SUBSET Sample, changed : BOOLEAN]
      /\ create'.changed = (Head(ring[Me]).caps # last_caps)
      /\ last_caps' = Head(ring[Me]).caps
  BY <1>3 DEF Source!ReceiveFrame, Source!Received, Source!InPcs
<1>5. UNCHANGED <<srcCtl, pad, delivered, buf, parked>>
  BY <1>1 DEF Source!ReceiveFrame, Source!baseVars, sinkVars, Receive
<1>6. FrameInHand'
  BY <1>2, <1>3, <1>4 DEF FrameInHand
<1>7. SrcCalls'
  BY <1>1, <1>4, <1>5 DEF SourceInv, SrcCalls
<1>8. PadRemembers'
  BY <1>1, <1>4, <1>5 DEF SourceInv, PadRemembers, SrcCalls
<1>9. Log' /\ LogRises'
  <2>1. \A k \in 1..Len(delivered) : delivered[k].item \in Int
    BY Bounds DEF SourceInv, Log, Items
  <2>2. seen'[Me] \in Int
    BY <1>2, SeenNext
  <2> QED BY <1>2, <1>5, <2>1, <2>2 DEF SourceInv, Log, LogRises, Filled
<1>10. delivered' \in Seq(Source!Frame)
  BY <1>5
<1> QED BY <1>2, <1>6, <1>7, <1>8, <1>9, <1>10 DEF LinkInv, SourceInv

LEMMA SourceFreesInv ==
  ASSUME LinkInv, UNCHANGED sinkVars, Source!FreeBuffer
  PROVE  LinkInv'
<1> USE LinkBasics
<1>1. PICK sm \in borrowed[Me] \ create.sample : Release(Me, sm)
  BY DEF Source!FreeBuffer, Source!Release, Release
<1>2. OrderInv' /\ seen' = seen
  <2>1. PortStep(Me) /\ ring' = ring
    BY <1>1 DEF PortStep, Release
  <2>2. ~Receive(Me)
    <3>1. Receive(Me) => borrowed'[Me] = borrowed[Me] \cup {Head(ring[Me])}
      BY MeIsAll DEF Receive
    <3> QED BY <1>1, <3>1, MeIsAll DEF Release
  <2> QED BY <2>1, <2>2, SourcePort
<1>3. create.sample \subseteq borrowed'[Me] /\ parked' = parked
  BY <1>1, MeIsAll DEF Release, SourceInv, FrameInHand
<1>4. UNCHANGED <<last_caps, create, srcCtl, pad, delivered, buf>>
  BY DEF Source!FreeBuffer, Source!fields, Source!baseVars, sinkVars
<1>5. FrameInHand'
  BY <1>2, <1>3, <1>4 DEF SourceInv, FrameInHand
<1>6. SrcCalls' /\ PadRemembers' /\ LogRises'
  BY <1>3, <1>4 DEF SourceInv, SrcCalls, PadRemembers, LogRises
<1>7. Log'
  BY <1>2, <1>4 DEF SourceInv, Log, Filled
<1>8. delivered' \in Seq(Source!Frame)
  BY <1>4
<1> QED BY <1>2, <1>5, <1>6, <1>7, <1>8 DEF LinkInv, SourceInv

\* create ends with the frame in hand: one that is pushed finds its own caps on the
\* pad, and all that was pushed before is older.
LEMMA SourceDeliversInv ==
  ASSUME LinkInv, UNCHANGED sinkVars,
         Source!Deliver \/ Source!DeliverFlushing \/ Source!DeliverRefused
  PROVE  LinkInv'
<1> USE LinkBasics
<1>1. /\ create.pc = "deliver" /\ Me \notin parked
      /\ srcCtl \notin {"flushed", "inactive", "stopped"}
  BY DEF Source!Deliver, Source!DeliverFlushing, Source!DeliverRefused, SourceInv, SrcCalls
<1>2. /\ create'.pc = "idle" /\ create'.sample = {}
      /\ create' \in [pc : Source!InPcs, sample : SUBSET Sample, changed : BOOLEAN]
      /\ UNCHANGED <<last_caps, srcCtl, buf>>
  BY SrcIdle DEF Source!Deliver, Source!DeliverFlushing, Source!DeliverRefused, Source!Return,
     Source!fields, sinkVars
<1>3. OrderInv' /\ seen' = seen /\ parked' = parked
  <2>1. CASE Source!Deliver
    BY <2>1, SourceStays DEF Source!Deliver, Source!shmVars, shmVars
  <2>2. CASE Source!DeliverFlushing \/ Source!DeliverRefused
    <3>1. Source!DropHand
      BY <2>2 DEF Source!DeliverFlushing, Source!DeliverRefused
    <3> QED BY <3>1, SourceReleases DEF Source!DropHand
  <2> QED BY <2>1, <2>2
<1>4. srcCtl \in {"run", "flush"} => Source!CapsSet = last_caps
  BY <1>1 DEF Source!CapsSet, SourceInv, PadRemembers
<1>5. srcCtl \in {"run", "flush"} => pad' = last_caps
  BY <1>4 DEF Source!Deliver, Source!DeliverFlushing, Source!DeliverRefused, Source!SetCapsFails
<1>6. FrameInHand' /\ SrcCalls' /\ PadRemembers'
  BY <1>1, <1>2, <1>3, <1>5 DEF FrameInHand, SrcCalls, PadRemembers
<1>7. \A k \in 1..Len(delivered) :
        /\ delivered[k].item \in Items /\ Filled(delivered[k].item)
        /\ delivered[k].under = buf[delivered[k].item].caps
        /\ delivered[k].item < seen[Me]
  BY <1>1 DEF SourceInv, Log
<1>8. CASE delivered' = delivered
  <2>1. Log' /\ LogRises'
    BY <1>2, <1>3, <1>7, <1>8 DEF SourceInv, Log, LogRises, Filled
  <2> QED BY <1>3, <1>6, <1>8, <2>1 DEF LinkInv, SourceInv
<1>9. CASE Source!Deliver
  <2>1. PICK sm \in create.sample :
          delivered' = Append(delivered, [item |-> sm.item, caps |-> sm.caps,
                                          under |-> Source!CapsSet])
    BY <1>9 DEF Source!Deliver
  <2>2. sm \in Sample /\ sm \in InFlight /\ ~sm.eos /\ sm.caps = last_caps /\ sm.item = seen[Me]
    BY DEF SourceInv, FrameInHand
  <2>3. Filled(sm.item) /\ sm.caps = buf[sm.item].caps
    BY <2>2 DEF HeaderInv, FlightCaps
  <2>4. Source!CapsSet = sm.caps
    BY <1>4, <1>9, <2>2 DEF Source!Deliver
  <2> DEFINE f == [item |-> sm.item, caps |-> sm.caps, under |-> Source!CapsSet]
  <2>5. f \in Source!Frame /\ f.item = sm.item /\ f.under = sm.caps /\ sm.item \in Items
    BY <2>2, <2>4 DEF Sample, Source!Frame, Source!Items, Items
  <2>6. delivered' = Append(delivered, f)
    BY <2>1
  <2> HIDE DEF f
  <2>7. /\ delivered' \in Seq(Source!Frame) /\ Len(delivered') = Len(delivered) + 1
        /\ delivered'[Len(delivered) + 1] = f /\ Len(delivered) \in Nat
        /\ \A k \in 1..Len(delivered) : delivered'[k] = delivered[k]
    BY <2>5, <2>6
  <2>8. Log'
    <3>1. ASSUME NEW k \in 1..Len(delivered')
          PROVE  /\ delivered'[k].item \in Items /\ Filled(delivered'[k].item)
                 /\ delivered'[k].under = buf[delivered'[k].item].caps
                 /\ delivered'[k].item <= seen[Me]
      <4>1. CASE k \in 1..Len(delivered)
        <5>1. delivered'[k].item \in Int
          BY <1>7, <2>7, <4>1, Bounds DEF Items
        <5> QED BY <1>7, <2>7, <4>1, <5>1
      <4>2. CASE k = Len(delivered) + 1
        BY <2>2, <2>3, <2>5, <2>7, <4>2
      <4> QED BY <2>7, <4>1, <4>2
    <3> QED BY <1>2, <1>3, <3>1 DEF Log, Filled
  <2>9. LogRises'
    <3>1. ASSUME NEW k \in 1..Len(delivered'), k > 1
          PROVE  delivered'[k - 1].item < delivered'[k].item
      <4>1. CASE k \in 1..Len(delivered)
        <5>1. delivered'[k] = delivered[k] /\ delivered'[k - 1] = delivered[k - 1]
          <6>1. k - 1 \in 1..Len(delivered)
            BY <2>7, <3>1, <4>1
          <6>2. \A j \in 1..Len(delivered) : delivered'[j] = delivered[j]
            BY <2>7
          <6> QED BY <4>1, <6>1, <6>2
        <5> QED BY <3>1, <4>1, <5>1 DEF SourceInv, LogRises
      <4>2. CASE k = Len(delivered) + 1
        <5>1. k - 1 \in 1..Len(delivered) /\ delivered'[k] = f
          BY <2>7, <3>1, <4>2
        <5> QED BY <1>7, <2>2, <2>5, <2>7, <5>1
      <4> QED BY <2>7, <4>1, <4>2
    <3> QED BY <3>1 DEF LogRises
  <2> QED BY <1>3, <1>6, <2>7, <2>8, <2>9 DEF LinkInv, SourceInv
<1> QED BY <1>8, <1>9 DEF Source!DeliverFlushing, Source!DeliverRefused

LEMMA SrcStepInv == LinkInv /\ SrcStep => LinkInv'
<1> SUFFICES ASSUME LinkInv, SrcStep PROVE LinkInv'
  OBVIOUS
<1>1. UNCHANGED sinkVars
  BY DEF SrcStep
<1>2. CASE SrcApplication
  BY <1>1, <1>2, SourceApplicationInv DEF SrcApplication, Source!Application
<1>3. CASE Source!Streaming \/ Source!TimedOut \/ Source!FreeBuffer
  BY <1>1, <1>3, SourceLoopInv, SourceReceivesInv, SourceDeliversInv, SourceFreesInv
  DEF Source!Streaming
<1> QED BY <1>2, <1>3 DEF SrcStep

LEMMA LinkStep == LinkInv /\ [LinkNext]_linkVars => LinkInv'
<1> SUFFICES ASSUME LinkInv, [LinkNext]_linkVars PROVE LinkInv'
  OBVIOUS
<1>1. CASE LinkNext
  BY <1>1, SinkStepInv, SrcStepInv DEF LinkNext
<1>2. CASE UNCHANGED linkVars
  <2>1. UNCHANGED <<vars, last_caps, create, srcCtl, pad, delivered, borrowed, seen, parked, buf>>
    BY <1>2 DEF linkVars, srcVars, vars, shmVars
  <2>2. OrderInv'
    BY <2>1, OrderStep, LinkBasics
  <2>3. FrameInHand' /\ SrcCalls' /\ PadRemembers' /\ Log' /\ LogRises'
    BY <2>1, LinkBasics DEF SourceInv, FrameInHand, SrcCalls, PadRemembers, Log, LogRises, Filled
  <2> QED BY <2>1, <2>2, <2>3, LinkBasics DEF LinkInv, SourceInv
<1> QED BY <1>1, <1>2

----------------------------------------------------------------------------
\* What leaves the source is what entered the sink, each frame at most once, in
\* order and under the caps it was pushed with, for every depth of the ring, with
\* or without overflow, any number of frames, renegotiations, live buffers, flushes,
\* restarts of either end and whatever fails (sink.rs:492-497, source.rs:381-398).
THEOREM LinkDelivers == LinkSpec => []DeliveredAsPushed
<1>1. LinkInv => DeliveredAsPushed
  BY DEF LinkInv, SourceInv, Log, LogRises, DeliveredAsPushed
<1> QED BY <1>1, LinkStart, LinkStep, PTL DEF LinkSpec

----------------------------------------------------------------------------
\* What downstream holds.

\* Only what was delivered is held, and no end of stream.
HeldDelivered == \A sm \in borrowed[Me] \ create.sample : Delivered(sm.item) /\ ~sm.eos

\* The source takes no loan and puts nothing in flight, and what it borrows it has
\* in hand until it delivers it.
LEMMA SourceTakes ==
  ASSUME LinkInv, SrcStep
  PROVE  /\ loans' = loans /\ InFlight' \subseteq InFlight
         /\ \/ Source!Deliver /\ borrowed' = borrowed
            \/ /\ borrowed'[Me] \ create'.sample \subseteq borrowed[Me] \ create.sample
               /\ delivered' = delivered
<1> USE LinkBasics
<1> DEFINE Keeps == /\ borrowed'[Me] \ create'.sample \subseteq borrowed[Me] \ create.sample
                    /\ delivered' = delivered
           Takes == loans' = loans /\ InFlight' \subseteq InFlight
<1>1. ASSUME PortStep(Me) PROVE Takes
  <2>1. InFlight' \subseteq InFlight
    BY <1>1, PortFlight, MeIsAll
  <2>2. loans' = loans
    BY <1>1 DEF PortStep, Attach, Detach, Receive, Release, Park, Wake, WaitTimeout
  <2> QED BY <2>1, <2>2
<1>2. UNCHANGED shmVars => Takes /\ borrowed' = borrowed
  BY InFlightSame DEF shmVars
<1>3. CASE Source!Application
  <2>1. create' = create /\ delivered' = delivered
    BY <1>3 DEF Source!Application, Source!Start, Source!Unlock, Source!UnlockStop,
       Source!FlushStop, Source!Stop
  <2>2. Attach(Me) \/ Detach(Me) \/ UNCHANGED shmVars
    BY <1>3 DEF Source!Application, Source!Start, Source!Unlock, Source!UnlockStop,
       Source!FlushStop, Source!Stop, Source!Attach, Source!Detach, Attach, Detach,
       Source!shmVars, shmVars
  <2>3. borrowed'[Me] \subseteq borrowed[Me]
    BY <2>2, MeIsAll DEF Attach, Detach, shmVars
  <2>4. Takes
    BY <1>1, <1>2, <2>2 DEF PortStep
  <2> HIDE DEF Takes
  <2>5. Keeps
    BY <2>1, <2>3
  <2> QED BY <2>4, <2>5 DEF Takes
<1>4. CASE \/ Source!CreateBegin \/ Source!Flushing \/ Source!Check \/ Source!ReceiveFails
           \/ Source!Wait \/ Source!Notified \/ Source!TimedOut
  <2>1. Park(Me) \/ Wake(Me) \/ WaitTimeout(Me) \/ UNCHANGED shmVars
    BY <1>4 DEF Source!CreateBegin, Source!Flushing, Source!Check, Source!ReceiveFails,
       Source!Wait, Source!Notified, Source!TimedOut, Source!Park, Source!Wake,
       Source!WaitTimeout, Park, Wake, WaitTimeout, Source!shmVars, shmVars
  <2>2. Takes /\ borrowed' = borrowed
    <3>1. Takes
      BY <1>1, <1>2, <2>1 DEF PortStep
    <3>2. borrowed' = borrowed
      BY <2>1 DEF Park, Wake, WaitTimeout, shmVars
    <3> QED BY <3>1, <3>2
  <2>3. delivered' = delivered
    BY <1>4 DEF Source!CreateBegin, Source!Flushing, Source!Check, Source!ReceiveFails,
       Source!Wait, Source!Notified, Source!TimedOut, Source!WaitEnds, Source!Return,
       Source!baseVars
  <2>4. create.sample = {}
    BY <1>4 DEF Source!CreateBegin, Source!Flushing, Source!Check, Source!ReceiveFails,
       Source!Receiving, Source!Wait, Source!Notified, Source!TimedOut, Source!Wake,
       Source!WaitTimeout, SourceInv, FrameInHand, SrcCalls
  <2> QED BY <2>2, <2>3, <2>4
<1>5. CASE Source!ReceiveEos \/ Source!ReceiveMalformed \/ Source!ReceiveCapless
  <2>1. Source!TakeAndDrop /\ ring[Me] # <<>> /\ create.sample = {} /\ delivered' = delivered
    BY <1>5 DEF Source!ReceiveEos, Source!ReceiveMalformed, Source!ReceiveCapless,
       Source!IsFrame, Source!CanReceive, Source!Receiving, Source!baseVars, SourceInv,
       FrameInHand
  <2>2. /\ ring' = [ring EXCEPT ![Me] = Tail(@)]
        /\ UNCHANGED <<loans, borrowed>>
    BY <2>1 DEF Source!TakeAndDrop
  <2>3. InFlight' \subseteq InFlight
    BY <2>1, <2>2, TakeFlight, MeIsAll
  <2> QED BY <2>1, <2>2, <2>3
<1>6. CASE Source!ReceiveFrame
  <2>1. Receive(Me) /\ create.pc = "receive" /\ create'.sample = {Head(ring[Me])}
        /\ delivered' = delivered
    <3>1. Source!Cardinality(borrowed[Me]) = Cardinality(borrowed[Me])
      BY DEF Source!Cardinality, Cardinality
    <3> QED BY <1>6, <3>1 DEF Source!ReceiveFrame, Source!IsFrame, Source!CanReceive,
            Source!Receiving, Source!Received, Source!Receive, Receive, Source!baseVars
  <2>2. create.sample = {} /\ borrowed'[Me] = borrowed[Me] \cup {Head(ring[Me])}
    BY <2>1, MeIsAll DEF SourceInv, FrameInHand, Receive
  <2>3. Takes
    BY <1>1, <2>1 DEF PortStep
  <2> HIDE DEF Takes
  <2>4. Keeps
    BY <2>1, <2>2
  <2> QED BY <2>3, <2>4 DEF Takes
<1>7. CASE Source!FreeBuffer
  <2>1. PICK sm \in borrowed[Me] \ create.sample : Release(Me, sm)
    BY <1>7 DEF Source!FreeBuffer, Source!Release, Release
  <2>2. Takes
    BY <1>1, <2>1 DEF PortStep
  <2> HIDE DEF Takes
  <2>3. create' = create /\ delivered' = delivered
    BY <1>7 DEF Source!FreeBuffer, Source!baseVars
  <2>4. Keeps
    BY <2>1, <2>3, MeIsAll DEF Release
  <2> QED BY <2>2, <2>4 DEF Takes
<1>8. CASE Source!DeliverFlushing \/ Source!DeliverRefused
  <2>1. Source!DropHand /\ delivered' = delivered
    BY <1>8 DEF Source!DeliverFlushing, Source!DeliverRefused
  <2>2. /\ borrowed' = [borrowed EXCEPT ![Me] = @ \ create.sample]
        /\ UNCHANGED <<loans, ring>>
    BY <2>1 DEF Source!DropHand
  <2>3. \A r \in Subs : borrowed'[r] \subseteq borrowed[r] /\ ring'[r] = ring[r]
    BY <2>2
  <2>4. InFlight' \subseteq InFlight
    BY <2>3, DropFlight
  <2> QED BY <2>1, <2>2, <2>4, MeIsAll
<1>9. CASE Source!Deliver
  <2>1. UNCHANGED shmVars
    BY <1>9 DEF Source!Deliver, Source!shmVars, shmVars
  <2> QED BY <1>2, <1>9, <2>1
<1> QED BY <1>3, <1>4, <1>5, <1>6, <1>7, <1>8, <1>9
        DEF SrcStep, SrcApplication, Source!Application, Source!Streaming

LEMMA HeldStep == LinkInv /\ HeldDelivered /\ [LinkNext]_linkVars => HeldDelivered'
<1> SUFFICES ASSUME LinkInv, HeldDelivered, [LinkNext]_linkVars PROVE HeldDelivered'
  OBVIOUS
<1> USE LinkBasics
<1>1. CASE SinkStep \/ UNCHANGED linkVars
  <2>1. UNCHANGED <<borrowed, create, delivered>>
    BY <1>1, SinkKeepsReader DEF SinkStep, srcVars, linkVars, vars, shmVars
  <2> QED BY <2>1 DEF HeldDelivered, Delivered
<1>2. CASE SrcStep /\ ~Source!Deliver
  <2>1. /\ borrowed'[Me] \ create'.sample \subseteq borrowed[Me] \ create.sample
        /\ delivered' = delivered
    BY <1>2, SourceTakes
  <2> QED BY <2>1 DEF HeldDelivered, Delivered
<1>3. CASE SrcStep /\ Source!Deliver
  <2>1. borrowed' = borrowed
    BY <1>3 DEF Source!Deliver, Source!shmVars
  <2>2. PICK sm \in create.sample :
          delivered' = Append(delivered, [item |-> sm.item, caps |-> sm.caps,
                                          under |-> Source!CapsSet])
    BY <1>3 DEF Source!Deliver
  <2> DEFINE f == [item |-> sm.item, caps |-> sm.caps, under |-> Source!CapsSet]
  <2>3. f.item = sm.item
    OBVIOUS
  <2>4. delivered' = Append(delivered, f) /\ delivered \in Seq(Source!Frame)
    BY <2>2
  <2> HIDE DEF f
  <2>5. /\ Len(delivered') = Len(delivered) + 1 /\ Len(delivered) \in Nat
        /\ delivered'[Len(delivered) + 1] = f
        /\ \A k \in 1..Len(delivered) : delivered'[k] = delivered[k]
    BY <2>4
  <2>6. Delivered(sm.item)' /\ \A i : Delivered(i) => Delivered(i)'
    <3>1. Len(delivered) + 1 \in 1..Len(delivered')
      BY <2>5
    <3>2. Delivered(sm.item)'
      BY <2>3, <2>5, <3>1 DEF Delivered
    <3>3. 1..Len(delivered) \subseteq 1..Len(delivered')
      BY <2>5
    <3> QED BY <2>5, <3>2, <3>3 DEF Delivered
  <2>7. \A x \in create.sample : x.item = sm.item /\ ~x.eos
    BY DEF SourceInv, FrameInHand
  <2>8. ASSUME NEW x \in borrowed[Me] PROVE Delivered(x.item)' /\ ~x.eos
    BY <2>6, <2>7 DEF HeldDelivered
  <2> QED BY <2>1, <2>8 DEF HeldDelivered
<1> QED BY <1>1, <1>2, <1>3 DEF LinkNext

\* What keeps frames safe in the sink is out of the source's reach.
LEMMA LinkFrames ==
  ASSUME MaxLive <= 1, LinkInv, FrameInv, [LinkNext]_linkVars
  PROVE  FrameInv'
<1>1. CASE SinkStep \/ UNCHANGED linkVars
  <2>1. [Next]_vars
    BY <1>1 DEF SinkStep, Next, linkVars
  <2> QED BY <2>1, FrameInvStep
<1>2. CASE SrcStep
  <2>1. TypeOK'
    <3>1. LinkInv'
      BY <1>2, SrcStepInv
    <3> QED BY <3>1 DEF LinkInv, OrderInv, HeaderInv, BufInv
  <2>2. loans' = loans /\ InFlight' \subseteq InFlight
    BY <1>2, SourceTakes
  <2>3. UNCHANGED <<registry, render, input, next, acq, buf, pixels>>
    BY <1>2 DEF SrcStep, sinkVars, elementVars, streamVars, upVars, histVars
  <2>4. LoanInv'
    BY <2>1, <2>2, <2>3 DEF FrameInv, LoanInv, NoLeakedLoan, Fresh, Live, Pooled, InHand
  <2>5. OneHandle' /\ HandleNamesLoan' /\ InputOrder' /\ RenderHolds'
    BY <2>3 DEF FrameInv, OneHandle, HandleNamesLoan, InputOrder, RenderHolds, Pooled
  <2>6. LoansUnread' /\ FrameIntact'
    BY <2>2, <2>3 DEF FrameInv, LoansUnread, FrameIntact, InFlightSlots
  <2> QED BY <2>4, <2>5, <2>6 DEF FrameInv
<1> QED BY <1>1, <1>2 DEF LinkNext

\* With one pool buffer of the sink alive at a time, what downstream of the source
\* holds shows the frame that was pushed to the sink for as long as it holds it,
\* through flushes and restarts of the sink and whatever fails there
\* (pool.rs:4-7, source.rs:53-55).
THEOREM DownstreamStaysIntact ==
  ASSUME MaxLive <= 1
  PROVE  LinkSpec => []DownstreamIntact
<1> DEFINE IInv == LinkInv /\ FrameInv /\ HeldDelivered
<1>1. LinkInit => IInv
  <2>1. LinkInit => LinkInv /\ FrameInv
    BY LinkStart, FrameInit DEF LinkInit
  <2>2. LinkInit => borrowed[Me] = {}
    BY MeIsAll DEF LinkInit, Init, ShmInit
  <2> QED BY <2>1, <2>2 DEF HeldDelivered
<1>2. IInv /\ [LinkNext]_linkVars => IInv'
  BY LinkStep, LinkFrames, HeldStep
<1>3. IInv => DownstreamIntact
  <2> SUFFICES ASSUME IInv, NEW sm \in borrowed[Me] \ create.sample
               PROVE  Delivered(sm.item) /\ pixels[sm.slot] = sm.item
    BY DEF DownstreamIntact
  <2>1. sm \in InFlight /\ Delivered(sm.item) /\ ~sm.eos
    BY LinkBasics DEF HeldDelivered
  <2> QED BY <2>1 DEF FrameInv, FrameIntact
<1> QED BY <1>1, <1>2, <1>3, PTL DEF LinkSpec

=============================================================================
