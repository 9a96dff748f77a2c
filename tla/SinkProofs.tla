----------------------------- MODULE SinkProofs -----------------------------
(***************************************************************************)
(* Invariance theorems of Sink for every value of the constants.           *)
(***************************************************************************)
EXTENDS Sink, ShmProofs

----------------------------------------------------------------------------
\* Facts about the constants and the operators the actions are built from.

\* A buffer the pipeline is done with keeps its slot and its caps.
LEMMA DoneType ==
  ASSUME NEW i \in Items, buf \in [Items -> Buffer]
  PROVE  /\ Done(i) \in [Items -> Buffer]
         /\ \A j \in Items : /\ Done(i)[j].slot = buf[j].slot
                             /\ Done(i)[j].caps = buf[j].caps
                             /\ j # i => Done(i)[j] = buf[j]
         /\ Done(i)[i].st \in {"gone", "sent", "held"}
         /\ Pooled(i) => Done(i)[i].st # "gone"
  BY DEF Done, Buffer, BufferStates

\* Removing the head of the input leaves a well-formed input.
LEMMA InputTail ==
  ASSUME input \in Seq(Pushed), input # <<>>
  PROVE  Head(input) \in Pushed /\ Tail(input) \in Seq(Pushed)
  OBVIOUS

LEMMA RingOverflowType == RingOverflow \in BOOLEAN
  BY SinkAssumption DEF SinkAssumption, RingOverflow

\* Counting a frame on either path keeps the counters natural numbers.
LEMMA CountType ==
  ASSUME counters \in [sent : Nat, zero : Nat, copied : Nat],
         NEW path \in {"zero", "copied"}, Count(path)
  PROVE  counters' \in [sent : Nat, zero : Nat, copied : Nat]
<1>1. CASE path = "zero"
  <2>1. counters' = [sent |-> counters.sent + 1, zero |-> counters.zero + 1,
                      copied |-> counters.copied]
    BY <1>1 DEF Count
  <2> QED BY <2>1
<1>2. CASE path = "copied"
  <2>1. counters' = [sent |-> counters.sent + 1, zero |-> counters.zero,
                      copied |-> counters.copied + 1]
    BY <1>2 DEF Count
  <2> QED BY <2>1
<1> QED BY <1>1, <1>2

\* num-clients never exceeds the number of subscribers.
LEMMA PollType ==
  ASSUME TypeOK
  PROVE  PollClients \in 0..Cardinality(Subs)
  BY Bounds, FS_Subset, FS_CardinalityType, FS_EmptySet
     DEF TypeOK, ShmTypeOK, PollClients

\* A subscriber's step keeps the types of the service.
LEMMA SubscriberType ==
  ASSUME NEW s \in Subs, ShmTypeOK, Subscriber(s)
  PROVE  ShmTypeOK'
  BY PortType DEF Subscriber, PortStep

----------------------------------------------------------------------------
\* Type correctness.

\* A step keeps the types of what it leaves alone.
LEMMA TypeFrame ==
  ASSUME TypeOK
  PROVE  /\ UNCHANGED shmVars => ShmTypeOK'
         /\ UNCHANGED elementVars => ElementTypeOK'
         /\ UNCHANGED <<started, publisher, unlocked, ended>> => FlagTypeOK'
         /\ UNCHANGED streamVars => StreamTypeOK'
         /\ UNCHANGED upVars => UpstreamTypeOK'
         /\ UNCHANGED histVars => HistoryTypeOK'
<1>1. UNCHANGED shmVars => ShmTypeOK'
  BY DEF TypeOK, ShmTypeOK, shmVars
<1>2. UNCHANGED elementVars => ElementTypeOK'
  BY DEF TypeOK, ElementTypeOK, elementVars
<1>3. UNCHANGED streamVars => StreamTypeOK'
  BY DEF TypeOK, StreamTypeOK, streamVars, InHand
<1>4. UNCHANGED upVars => UpstreamTypeOK'
  BY DEF TypeOK, UpstreamTypeOK, upVars
<1>5. UNCHANGED histVars => HistoryTypeOK'
  BY DEF TypeOK, HistoryTypeOK, histVars
<1>6. UNCHANGED <<started, publisher, unlocked, ended>> => FlagTypeOK'
  BY DEF TypeOK, FlagTypeOK
<1> QED BY <1>1, <1>2, <1>3, <1>4, <1>5, <1>6

\* The caps pushed again after a flush or a restart are one item at most.
LEMMA StickyType == TypeOK => StickyCaps \in Seq(Pushed)
<1> SUFFICES ASSUME TypeOK PROVE StickyCaps \in Seq(Pushed)
  OBVIOUS
<1>1. CASE upcaps = 0
  BY <1>1 DEF StickyCaps
<1>2. CASE upcaps # 0
  <2>1. [kind |-> "caps", item |-> upcaps] \in Pushed
    BY <1>2, Bounds DEF TypeOK, UpstreamTypeOK, Pushed, Items
  <2> QED BY <1>2, <2>1 DEF StickyCaps
<1> QED BY <1>1, <1>2

\* An idle streaming thread is well typed.
LEMMA IdleType == Idle \in RenderState /\ Idle.pc = "idle"
  BY Bounds DEF Idle, RenderState, RenderPcs

\* The initial state is well typed.
LEMMA TypeInit == Init => TypeOK
<1> SUFFICES ASSUME Init PROVE TypeOK
  OBVIOUS
<1> USE Bounds DEF Init
<1>1. ShmTypeOK BY DEF ShmInit, ShmTypeOK
<1>2. FlagTypeOK BY DEF FlagTypeOK
<1>7. ElementTypeOK BY DEF ElementTypeOK
<1>3. StreamTypeOK BY IdleType DEF StreamTypeOK, InHand
<1>4. UpstreamTypeOK BY DEF UpstreamTypeOK
<1>5. PipelineTypeOK BY DEF PipelineTypeOK, NoBuffer, Buffer, BufferStates
<1>6. HistoryTypeOK BY DEF HistoryTypeOK
<1> QED BY <1>1, <1>2, <1>3, <1>4, <1>5, <1>6, <1>7 DEF TypeOK

\* The application's calls are well typed.
LEMMA TypeApplication == TypeOK /\ Application => TypeOK'
<1> SUFFICES ASSUME TypeOK, Application PROVE TypeOK'
  OBVIOUS
<1>1. CASE Start
  <2>1. ShmTypeOK' /\ StreamTypeOK' BY <1>1, TypeFrame DEF Start
  <2>2. ElementTypeOK' BY <1>1, Bounds DEF Start, TypeOK, ElementTypeOK
  <2>3. UpstreamTypeOK' BY <1>1 DEF Start, TypeOK, UpstreamTypeOK
  <2>4. PipelineTypeOK'
    BY <1>1, Bounds, StickyType DEF Start, TypeOK, PipelineTypeOK
  <2>5. HistoryTypeOK' BY <1>1 DEF Start, TypeOK, HistoryTypeOK
  <2>9. FlagTypeOK'
    BY <1>1 DEF Start, TypeOK, FlagTypeOK
  <2> QED BY <2>1, <2>2, <2>3, <2>4, <2>5, <2>9 DEF TypeOK
<1>2. CASE Stop
  <2>1. ShmTypeOK' /\ StreamTypeOK' /\ UpstreamTypeOK' /\ HistoryTypeOK'
    BY <1>2, TypeFrame DEF Stop
  <2>2. ElementTypeOK' BY <1>2, Bounds DEF Stop, TypeOK, ElementTypeOK
  <2>3. PipelineTypeOK' BY <1>2 DEF Stop, TypeOK, PipelineTypeOK
  <2>9. FlagTypeOK'
    BY <1>2 DEF Stop, TypeOK, FlagTypeOK, upVars
  <2> QED BY <2>1, <2>2, <2>3, <2>9 DEF TypeOK
<1>3. CASE Unlock
  <2>1. ShmTypeOK' /\ StreamTypeOK' /\ UpstreamTypeOK' /\ HistoryTypeOK'
    BY <1>3, TypeFrame DEF Unlock
  <2>2. ElementTypeOK' BY <1>3 DEF Unlock, TypeOK, ElementTypeOK
  <2>3. PipelineTypeOK' BY <1>3 DEF Unlock, TypeOK, PipelineTypeOK
  <2>9. FlagTypeOK'
    BY <1>3 DEF Unlock, TypeOK, FlagTypeOK, upVars
  <2> QED BY <2>1, <2>2, <2>3, <2>9 DEF TypeOK
<1>4. CASE UnlockStop
  <2>1. ShmTypeOK' /\ StreamTypeOK' /\ UpstreamTypeOK' /\ HistoryTypeOK'
    BY <1>4, TypeFrame DEF UnlockStop
  <2>2. ElementTypeOK' BY <1>4 DEF UnlockStop, TypeOK, ElementTypeOK
  <2>3. PipelineTypeOK' BY <1>4 DEF UnlockStop, TypeOK, PipelineTypeOK
  <2>9. FlagTypeOK'
    BY <1>4 DEF UnlockStop, TypeOK, FlagTypeOK, upVars
  <2> QED BY <2>1, <2>2, <2>3, <2>9 DEF TypeOK
<1>5. CASE FlushStop
  <2>1. ShmTypeOK' /\ ElementTypeOK' /\ StreamTypeOK' /\ HistoryTypeOK'
    BY <1>5, TypeFrame DEF FlushStop
  <2>2. UpstreamTypeOK' BY <1>5 DEF FlushStop, TypeOK, UpstreamTypeOK
  <2>3. PipelineTypeOK' BY <1>5, StickyType DEF FlushStop, TypeOK, PipelineTypeOK
  <2>9. FlagTypeOK'
    BY <1>5 DEF FlushStop, TypeOK, FlagTypeOK, elementVars
  <2> QED BY <2>1, <2>2, <2>3, <2>9 DEF TypeOK
<1> QED BY <1>1, <1>2, <1>3, <1>4, <1>5 DEF Application

\* The streaming thread's steps between two frames are well typed.
LEMMA TypeStreaming == TypeOK /\ (FlushItem \/ SetCaps \/ PublishEos \/ EosSend \/ EosNotify) => TypeOK'
<1> SUFFICES ASSUME TypeOK, FlushItem \/ SetCaps \/ PublishEos \/ EosSend \/ EosNotify PROVE TypeOK'
  OBVIOUS
<1>1. CASE FlushItem
  <2>8. Head(input) \in Pushed /\ Tail(input) \in Seq(Pushed)
    BY <1>1, InputTail DEF FlushItem, TypeOK, PipelineTypeOK
  <2>9. buf' \in [Items -> Buffer]
    BY <1>1, <2>8, DoneType DEF FlushItem, TypeOK, PipelineTypeOK, Pushed
  <2>1. ShmTypeOK' /\ ElementTypeOK' /\ StreamTypeOK' /\ UpstreamTypeOK' /\ HistoryTypeOK'
    BY <1>1, TypeFrame DEF FlushItem
  <2>2. FlagTypeOK'
    BY <1>1 DEF FlushItem, TypeOK, FlagTypeOK, elementVars, upVars
  <2>3. PipelineTypeOK'
    BY <1>1, <2>8, <2>9 DEF FlushItem, TypeOK, PipelineTypeOK
  <2> QED BY <2>1, <2>2, <2>3 DEF TypeOK
<1>2. CASE SetCaps
  <2>8. Head(input) \in Pushed /\ Tail(input) \in Seq(Pushed)
    BY <1>2, InputTail DEF SetCaps, Take, TypeOK, PipelineTypeOK
  <2>9. caps' \in 0..MaxItems
    BY <1>2, <2>8, Bounds DEF SetCaps, Pushed, Items
  <2>1. ShmTypeOK' /\ StreamTypeOK' /\ UpstreamTypeOK' /\ HistoryTypeOK'
    BY <1>2, TypeFrame DEF SetCaps
  <2>2. FlagTypeOK'
    BY <1>2 DEF SetCaps, TypeOK, FlagTypeOK, upVars
  <2>3. ElementTypeOK'
    BY <1>2, <2>9 DEF SetCaps, TypeOK, ElementTypeOK
  <2>4. PipelineTypeOK'
    BY <1>2, <2>8 DEF SetCaps, TypeOK, PipelineTypeOK, Take
  <2> QED BY <2>1, <2>2, <2>3, <2>4 DEF TypeOK
<1>3. CASE PublishEos
  <2>8. Head(input) \in Pushed /\ Tail(input) \in Seq(Pushed)
    BY <1>3, InputTail DEF PublishEos, Take, TypeOK, PipelineTypeOK
  <2>9. \/ UNCHANGED render
        \/ \E x \in Slots : render' = [Idle EXCEPT !.pc = "esend", !.item = Head(input).item,
                                                !.slot = x]
    BY <1>3 DEF PublishEos, Free
  <2>1. ElementTypeOK' /\ UpstreamTypeOK'
    BY <1>3, TypeFrame DEF PublishEos
  <2>2. ShmTypeOK'
    BY <1>3 DEF PublishEos, TypeOK, ShmTypeOK, Loan, Free
  <2>3. FlagTypeOK'
    BY <1>3 DEF PublishEos, TypeOK, FlagTypeOK, elementVars, upVars
  <2>4. StreamTypeOK'
    <3>1. CASE UNCHANGED render
      BY <1>3, <3>1 DEF PublishEos, TypeOK, StreamTypeOK, InHand
    <3>2. CASE \E x \in Slots : render' = [Idle EXCEPT !.pc = "esend",
                                              !.item = Head(input).item, !.slot = x]
      <4>1. PICK x \in Slots : render' = [Idle EXCEPT !.pc = "esend",
                                              !.item = Head(input).item, !.slot = x]
        BY <3>2
      <4>2. Head(input).item \in Items /\ Head(input).item \in 0..MaxItems
        BY <2>8, Bounds DEF Pushed, Items
      <4>3. render' = [pc |-> "esend", item |-> Head(input).item, slot |-> x, caps |-> 0]
        BY <4>1 DEF Idle
      <4>5. 0 \in 0..MaxItems
        BY Bounds
      <4>4. render' \in RenderState /\ render'.item \in Items /\ render'.slot \in Slots
        BY <4>2, <4>3, <4>5 DEF RenderState, RenderPcs
      <4> QED BY <1>3, <4>4 DEF PublishEos, TypeOK, StreamTypeOK, InHand
    <3> QED BY <2>9, <3>1, <3>2
  <2>5. PipelineTypeOK'
    BY <1>3, <2>8 DEF PublishEos, TypeOK, PipelineTypeOK, Take
  <2>6. HistoryTypeOK'
    BY <1>3 DEF PublishEos, TypeOK, HistoryTypeOK
  <2> QED BY <2>1, <2>2, <2>3, <2>4, <2>5, <2>6 DEF TypeOK
<1>4. CASE EosSend
  <2>8. [slot |-> render.slot, item |-> render.item, caps |-> 0, eos |-> TRUE] \in Sample
    BY <1>4, Bounds DEF EosSend, TypeOK, StreamTypeOK, InHand, Sample, RenderState
  <2>9. loans' \subseteq Slots /\ ring' \in [Subs -> Seq(Sample)]
    BY <1>4, <2>8, RingOverflowType, SendType DEF EosSend, TypeOK
  <2>1. ElementTypeOK' /\ UpstreamTypeOK'
    BY <1>4, TypeFrame DEF EosSend
  <2>2. ShmTypeOK'
    BY <1>4, <2>9 DEF EosSend, TypeOK, ShmTypeOK
  <2>3. FlagTypeOK'
    BY <1>4 DEF EosSend, TypeOK, FlagTypeOK, elementVars, upVars
  <2>4. StreamTypeOK'
    BY <1>4 DEF EosSend, TypeOK, StreamTypeOK, RenderState, RenderPcs, InHand
  <2>5. PipelineTypeOK'
    BY <1>4 DEF EosSend, TypeOK, PipelineTypeOK
  <2>6. HistoryTypeOK'
    BY <1>4 DEF EosSend, TypeOK, HistoryTypeOK
  <2> QED BY <2>1, <2>2, <2>3, <2>4, <2>5, <2>6 DEF TypeOK
<1>5. CASE EosNotify
  <2>1. ElementTypeOK' /\ UpstreamTypeOK' /\ HistoryTypeOK'
    BY <1>5, TypeFrame DEF EosNotify
  <2>2. ShmTypeOK'
    BY <1>5 DEF EosNotify, TypeOK, ShmTypeOK, Notify
  <2>3. FlagTypeOK'
    BY <1>5 DEF EosNotify, TypeOK, FlagTypeOK, elementVars, upVars
  <2>4. StreamTypeOK'
    BY <1>5, IdleType DEF EosNotify, TypeOK, StreamTypeOK, InHand
  <2>5. PipelineTypeOK'
    BY <1>5 DEF EosNotify, TypeOK, PipelineTypeOK
  <2> QED BY <2>1, <2>2, <2>3, <2>4, <2>5 DEF TypeOK
<1> QED BY <1>1, <1>2, <1>3, <1>4, <1>5

\* The steps of render are well typed.
LEMMA TypeRender == TypeOK /\ Render => TypeOK'
<1> SUFFICES ASSUME TypeOK, Render PROVE TypeOK'
  OBVIOUS
<1>1. CASE RenderBegin
  <2>8. Head(input) \in Pushed /\ Tail(input) \in Seq(Pushed)
    BY <1>1, InputTail DEF RenderBegin, Take, TypeOK, PipelineTypeOK
  <2>7. /\ render' \in RenderState /\ render'.pc = "await" /\ render'.item = Head(input).item
    <3>1. render' = [pc |-> "await", item |-> Head(input).item, slot |-> NoSlot, caps |-> 0]
      BY <1>1 DEF RenderBegin, Idle
    <3>2. Head(input).item \in 0..MaxItems /\ 0 \in 0..MaxItems
      BY <2>8, Bounds DEF Pushed, Items
    <3> QED BY <3>1, <3>2 DEF RenderState, RenderPcs
  <2>9. buf' \in [Items -> Buffer]
    BY <1>1, <2>8 DEF RenderBegin, TypeOK, PipelineTypeOK, Pushed, Buffer, BufferStates
  <2>1. ShmTypeOK' /\ ElementTypeOK' /\ UpstreamTypeOK' /\ HistoryTypeOK'
    BY <1>1, TypeFrame DEF RenderBegin
  <2>2. FlagTypeOK'
    BY <1>1 DEF RenderBegin, TypeOK, FlagTypeOK, elementVars, upVars
  <2>3. StreamTypeOK'
    BY <1>1, <2>7, <2>8 DEF RenderBegin, TypeOK, StreamTypeOK, InHand, Pushed
  <2>4. PipelineTypeOK'
    BY <1>1, <2>8, <2>9 DEF RenderBegin, TypeOK, PipelineTypeOK, Take
  <2> QED BY <2>1, <2>2, <2>3, <2>4 DEF TypeOK
<1>2. CASE AwaitConnection
  <2>9. /\ render' \in RenderState /\ render'.pc \in {"await", "take"}
        /\ render'.item = render.item
    BY <1>2 DEF AwaitConnection, TypeOK, StreamTypeOK, RenderState, RenderPcs
  <2>1. ShmTypeOK' /\ UpstreamTypeOK' /\ HistoryTypeOK'
    BY <1>2, TypeFrame DEF AwaitConnection, RenderFrame
  <2>2. FlagTypeOK'
    BY <1>2 DEF AwaitConnection, RenderFrame, TypeOK, FlagTypeOK, upVars, RenderFrame
  <2>3. ElementTypeOK'
    BY <1>2, PollType DEF AwaitConnection, RenderFrame, TypeOK, ElementTypeOK
  <2>4. StreamTypeOK'
    BY <1>2, <2>9 DEF AwaitConnection, RenderFrame, TypeOK, StreamTypeOK, InHand
  <2>5. PipelineTypeOK'
    BY <1>2 DEF AwaitConnection, RenderFrame, TypeOK, PipelineTypeOK, RenderFrame
  <2> QED BY <2>1, <2>2, <2>3, <2>4, <2>5 DEF TypeOK
<1>3. CASE AwaitFlushing
  <2>9. buf' \in [Items -> Buffer]
    BY <1>3, DoneType DEF AwaitFlushing, Return, TypeOK, StreamTypeOK, PipelineTypeOK
  <2>1. ShmTypeOK' /\ ElementTypeOK' /\ UpstreamTypeOK' /\ HistoryTypeOK'
    BY <1>3, TypeFrame DEF AwaitFlushing, RenderFrame
  <2>2. FlagTypeOK'
    BY <1>3 DEF AwaitFlushing, RenderFrame, TypeOK, FlagTypeOK, elementVars, upVars
  <2>3. StreamTypeOK'
    BY <1>3, IdleType DEF AwaitFlushing, RenderFrame, TypeOK, StreamTypeOK, Return, InHand
  <2>4. PipelineTypeOK'
    BY <1>3, <2>9 DEF AwaitFlushing, RenderFrame, TypeOK, PipelineTypeOK
  <2> QED BY <2>1, <2>2, <2>3, <2>4 DEF TypeOK
<1>4. CASE RenderRefused
  <2>9. buf' \in [Items -> Buffer]
    BY <1>4, DoneType DEF RenderRefused, Return, TypeOK, StreamTypeOK, PipelineTypeOK
  <2>1. ShmTypeOK' /\ ElementTypeOK' /\ UpstreamTypeOK' /\ HistoryTypeOK'
    BY <1>4, TypeFrame DEF RenderRefused, RenderFrame
  <2>2. FlagTypeOK'
    BY <1>4 DEF RenderRefused, RenderFrame, TypeOK, FlagTypeOK, elementVars, upVars
  <2>3. StreamTypeOK'
    BY <1>4, IdleType DEF RenderRefused, RenderFrame, TypeOK, StreamTypeOK, Return, InHand
  <2>4. PipelineTypeOK'
    BY <1>4, <2>9 DEF RenderRefused, RenderFrame, TypeOK, PipelineTypeOK
  <2> QED BY <2>1, <2>2, <2>3, <2>4 DEF TypeOK
<1>5. CASE TakeLoan
  <2>9. /\ render' \in RenderState /\ render'.pc = "zsend"
        /\ render'.item = render.item /\ render'.slot \in Slots
    BY <1>5 DEF TakeLoan, Registered, TypeOK, ElementTypeOK, StreamTypeOK, RenderState, RenderPcs
  <2>1. ShmTypeOK' /\ UpstreamTypeOK' /\ HistoryTypeOK'
    BY <1>5, TypeFrame DEF TakeLoan, RenderFrame
  <2>2. FlagTypeOK'
    BY <1>5 DEF TakeLoan, RenderFrame, TypeOK, FlagTypeOK, upVars
  <2>3. ElementTypeOK'
    BY <1>5 DEF TakeLoan, RenderFrame, TypeOK, ElementTypeOK
  <2>4. StreamTypeOK'
    BY <1>5, <2>9 DEF TakeLoan, RenderFrame, TypeOK, StreamTypeOK, InHand
  <2>5. PipelineTypeOK'
    BY <1>5 DEF TakeLoan, RenderFrame, TypeOK, PipelineTypeOK, Buffer, BufferStates, StreamTypeOK
  <2> QED BY <2>1, <2>2, <2>3, <2>4, <2>5 DEF TypeOK
<1>6. CASE CopyStart
  <2>9. /\ render' \in RenderState /\ render'.pc = "cloan"
        /\ render'.item = render.item
    BY <1>6 DEF CopyStart, TypeOK, ElementTypeOK, StreamTypeOK, RenderState, RenderPcs
  <2>1. ShmTypeOK' /\ ElementTypeOK' /\ UpstreamTypeOK' /\ HistoryTypeOK'
    BY <1>6, TypeFrame DEF CopyStart, RenderFrame
  <2>2. FlagTypeOK'
    BY <1>6 DEF CopyStart, RenderFrame, TypeOK, FlagTypeOK, elementVars, upVars
  <2>3. StreamTypeOK'
    BY <1>6, <2>9 DEF CopyStart, RenderFrame, TypeOK, StreamTypeOK, InHand
  <2>4. PipelineTypeOK'
    BY <1>6 DEF CopyStart, RenderFrame, TypeOK, PipelineTypeOK
  <2> QED BY <2>1, <2>2, <2>3, <2>4 DEF TypeOK
<1>7. CASE ZeroCopySend
  <2>8. FrameSample \in Sample
    BY <1>7 DEF ZeroCopySend, FrameSample, TypeOK, StreamTypeOK, InHand, Sample, RenderState
  <2>9. loans' \subseteq Slots /\ ring' \in [Subs -> Seq(Sample)]
    BY <1>7, <2>8, RingOverflowType, SendType DEF ZeroCopySend, TypeOK
  <2>1. ElementTypeOK' /\ UpstreamTypeOK'
    BY <1>7, TypeFrame DEF ZeroCopySend, RenderFrame
  <2>2. ShmTypeOK'
    BY <1>7, <2>9 DEF ZeroCopySend, RenderFrame, TypeOK, ShmTypeOK
  <2>3. FlagTypeOK'
    BY <1>7 DEF ZeroCopySend, RenderFrame, TypeOK, FlagTypeOK, elementVars, upVars
  <2>4. StreamTypeOK'
    BY <1>7 DEF ZeroCopySend, RenderFrame, TypeOK, StreamTypeOK, RenderState, RenderPcs, InHand
  <2>5. PipelineTypeOK'
    BY <1>7 DEF ZeroCopySend, RenderFrame, TypeOK, PipelineTypeOK
  <2>6. HistoryTypeOK'
    BY <1>7 DEF ZeroCopySend, RenderFrame, TypeOK, HistoryTypeOK
  <2> QED BY <2>1, <2>2, <2>3, <2>4, <2>5, <2>6 DEF TypeOK
<1>8. CASE CopyLoan
  <2>9. /\ render' \in RenderState /\ render'.pc = "csend"
        /\ render'.item = render.item /\ render'.slot \in Slots
    BY <1>8 DEF CopyLoan, Free, TypeOK, StreamTypeOK, RenderState, RenderPcs
  <2>1. ElementTypeOK' /\ UpstreamTypeOK' /\ HistoryTypeOK'
    BY <1>8, TypeFrame DEF CopyLoan, RenderFrame
  <2>2. ShmTypeOK'
    BY <1>8 DEF CopyLoan, RenderFrame, TypeOK, ShmTypeOK, Loan, Free
  <2>3. FlagTypeOK'
    BY <1>8 DEF CopyLoan, RenderFrame, TypeOK, FlagTypeOK, elementVars, upVars
  <2>4. StreamTypeOK'
    BY <1>8, <2>9 DEF CopyLoan, RenderFrame, TypeOK, StreamTypeOK, InHand
  <2>5. PipelineTypeOK'
    BY <1>8 DEF CopyLoan, RenderFrame, TypeOK, PipelineTypeOK
  <2> QED BY <2>1, <2>2, <2>3, <2>4, <2>5 DEF TypeOK
<1>9. CASE CopyLoanFails
  <2>9. buf' \in [Items -> Buffer]
    BY <1>9, DoneType DEF CopyLoanFails, Return, TypeOK, StreamTypeOK, PipelineTypeOK
  <2>1. ShmTypeOK' /\ ElementTypeOK' /\ UpstreamTypeOK' /\ HistoryTypeOK'
    BY <1>9, TypeFrame DEF CopyLoanFails, RenderFrame
  <2>2. FlagTypeOK'
    BY <1>9 DEF CopyLoanFails, RenderFrame, TypeOK, FlagTypeOK, elementVars, upVars
  <2>3. StreamTypeOK'
    BY <1>9, IdleType DEF CopyLoanFails, RenderFrame, TypeOK, StreamTypeOK, Return, InHand
  <2>4. PipelineTypeOK'
    BY <1>9, <2>9 DEF CopyLoanFails, RenderFrame, TypeOK, PipelineTypeOK
  <2> QED BY <2>1, <2>2, <2>3, <2>4 DEF TypeOK
<1>10. CASE CopySend
  <2>8. FrameSample \in Sample
    BY <1>10 DEF CopySend, FrameSample, TypeOK, StreamTypeOK, InHand, Sample, RenderState
  <2>9. loans' \subseteq Slots /\ ring' \in [Subs -> Seq(Sample)]
    BY <1>10, <2>8, RingOverflowType, SendType DEF CopySend, TypeOK
  <2>7. Content(render.item) \in 0..MaxItems
    BY <1>10, Bounds DEF CopySend, Content, Pooled, TypeOK, StreamTypeOK, PipelineTypeOK, HistoryTypeOK, Buffer, Items
  <2>1. ElementTypeOK' /\ UpstreamTypeOK'
    BY <1>10, TypeFrame DEF CopySend, RenderFrame
  <2>2. ShmTypeOK'
    BY <1>10, <2>9 DEF CopySend, RenderFrame, TypeOK, ShmTypeOK
  <2>3. FlagTypeOK'
    BY <1>10 DEF CopySend, RenderFrame, TypeOK, FlagTypeOK, elementVars, upVars
  <2>4. StreamTypeOK'
    BY <1>10 DEF CopySend, RenderFrame, TypeOK, StreamTypeOK, RenderState, RenderPcs, InHand
  <2>5. PipelineTypeOK'
    BY <1>10 DEF CopySend, RenderFrame, TypeOK, PipelineTypeOK
  <2>6. HistoryTypeOK'
    <3>1. pixels' \in [Slots -> 0..MaxItems]
      BY <1>10, <2>7 DEF CopySend, TypeOK, HistoryTypeOK
    <3>2. published' \in Nat
      BY <1>10 DEF CopySend, TypeOK, HistoryTypeOK
    <3> QED BY <3>1, <3>2 DEF HistoryTypeOK
  <2> QED BY <2>1, <2>2, <2>3, <2>4, <2>5, <2>6 DEF TypeOK
<1>11. CASE SendFails
  <2>9. buf' \in [Items -> Buffer]
    BY <1>11, DoneType DEF SendFails, Return, TypeOK, StreamTypeOK, PipelineTypeOK
  <2>1. ElementTypeOK' /\ UpstreamTypeOK'
    BY <1>11, TypeFrame DEF SendFails, RenderFrame
  <2>2. ShmTypeOK'
    BY <1>11 DEF SendFails, RenderFrame, TypeOK, ShmTypeOK
  <2>3. FlagTypeOK'
    BY <1>11 DEF SendFails, RenderFrame, TypeOK, FlagTypeOK, elementVars, upVars
  <2>4. StreamTypeOK'
    BY <1>11, IdleType DEF SendFails, RenderFrame, TypeOK, StreamTypeOK, Return, InHand
  <2>5. PipelineTypeOK'
    BY <1>11, <2>9 DEF SendFails, RenderFrame, TypeOK, PipelineTypeOK
  <2>6. HistoryTypeOK'
    BY <1>11 DEF SendFails, RenderFrame, TypeOK, HistoryTypeOK
  <2> QED BY <2>1, <2>2, <2>3, <2>4, <2>5, <2>6 DEF TypeOK
<1>12. CASE ZeroCopyNotify
  <2>9. buf' \in [Items -> Buffer]
    BY <1>12, DoneType DEF ZeroCopyNotify, Return, TypeOK, StreamTypeOK, PipelineTypeOK
  <2>1. UpstreamTypeOK' /\ HistoryTypeOK'
    BY <1>12, TypeFrame DEF ZeroCopyNotify, RenderFrame
  <2>2. ShmTypeOK'
    BY <1>12 DEF ZeroCopyNotify, RenderFrame, TypeOK, ShmTypeOK, Notify
  <2>3. FlagTypeOK'
    BY <1>12 DEF ZeroCopyNotify, RenderFrame, TypeOK, FlagTypeOK, upVars
  <2>4. ElementTypeOK'
    BY <1>12, CountType DEF ZeroCopyNotify, RenderFrame, TypeOK, ElementTypeOK
  <2>5. StreamTypeOK'
    BY <1>12, IdleType DEF ZeroCopyNotify, RenderFrame, TypeOK, StreamTypeOK, Return, InHand
  <2>6. PipelineTypeOK'
    BY <1>12, <2>9 DEF ZeroCopyNotify, RenderFrame, TypeOK, PipelineTypeOK
  <2> QED BY <2>1, <2>2, <2>3, <2>4, <2>5, <2>6 DEF TypeOK
<1>13. CASE CopyNotify
  <2>9. buf' \in [Items -> Buffer]
    BY <1>13, DoneType DEF CopyNotify, Return, TypeOK, StreamTypeOK, PipelineTypeOK
  <2>1. UpstreamTypeOK' /\ HistoryTypeOK'
    BY <1>13, TypeFrame DEF CopyNotify, RenderFrame
  <2>2. ShmTypeOK'
    BY <1>13 DEF CopyNotify, RenderFrame, TypeOK, ShmTypeOK, Notify
  <2>3. FlagTypeOK'
    BY <1>13 DEF CopyNotify, RenderFrame, TypeOK, FlagTypeOK, upVars
  <2>4. ElementTypeOK'
    BY <1>13, CountType DEF CopyNotify, RenderFrame, TypeOK, ElementTypeOK
  <2>5. StreamTypeOK'
    BY <1>13, IdleType DEF CopyNotify, RenderFrame, TypeOK, StreamTypeOK, Return, InHand
  <2>6. PipelineTypeOK'
    BY <1>13, <2>9 DEF CopyNotify, RenderFrame, TypeOK, PipelineTypeOK
  <2> QED BY <2>1, <2>2, <2>3, <2>4, <2>5, <2>6 DEF TypeOK
<1>14. CASE NotifyFails
  <2>9. buf' \in [Items -> Buffer]
    BY <1>14, DoneType DEF NotifyFails, Return, TypeOK, StreamTypeOK, PipelineTypeOK
  <2>1. ShmTypeOK' /\ ElementTypeOK' /\ UpstreamTypeOK' /\ HistoryTypeOK'
    BY <1>14, TypeFrame DEF NotifyFails, RenderFrame
  <2>2. FlagTypeOK'
    BY <1>14 DEF NotifyFails, RenderFrame, TypeOK, FlagTypeOK, elementVars, upVars
  <2>3. StreamTypeOK'
    BY <1>14, IdleType DEF NotifyFails, RenderFrame, TypeOK, StreamTypeOK, Return, InHand
  <2>4. PipelineTypeOK'
    BY <1>14, <2>9 DEF NotifyFails, RenderFrame, TypeOK, PipelineTypeOK
  <2> QED BY <2>1, <2>2, <2>3, <2>4 DEF TypeOK
<1> QED BY <1>1, <1>2, <1>3, <1>4, <1>5, <1>6, <1>7, <1>8, <1>9, <1>10, <1>11, <1>12, <1>13, <1>14 DEF Render

\* The steps of the upstream and the pool are well typed.
LEMMA TypeUpstream == TypeOK /\ Upstream => TypeOK'
<1> SUFFICES ASSUME TypeOK, Upstream PROVE TypeOK'
  OBVIOUS
<1>1. CASE PushCaps
  <2>8. next' \in 1..(MaxItems + 1) /\ next \in Items
    BY <1>1, Bounds DEF PushCaps, Produce, TypeOK, UpstreamTypeOK, Items
  <2>9. input' \in Seq(Pushed)
    BY <1>1, <2>8 DEF PushCaps, Produce, Push, Pushed, TypeOK, PipelineTypeOK
  <2>1. ShmTypeOK' /\ ElementTypeOK' /\ StreamTypeOK' /\ HistoryTypeOK'
    BY <1>1, TypeFrame DEF PushCaps, Produce
  <2>2. FlagTypeOK'
    BY <1>1 DEF PushCaps, Produce, TypeOK, FlagTypeOK, elementVars
  <2>3. UpstreamTypeOK'
    BY <1>1, <2>8, Bounds DEF PushCaps, Produce, TypeOK, UpstreamTypeOK, Items
  <2>4. PipelineTypeOK'
    BY <1>1, <2>9 DEF PushCaps, Produce, TypeOK, PipelineTypeOK
  <2> QED BY <2>1, <2>2, <2>3, <2>4 DEF TypeOK
<1>2. CASE PushEos
  <2>8. next' \in 1..(MaxItems + 1) /\ next \in Items
    BY <1>2, Bounds DEF PushEos, Produce, TypeOK, UpstreamTypeOK, Items
  <2>9. input' \in Seq(Pushed)
    BY <1>2, <2>8 DEF PushEos, Produce, Push, Pushed, TypeOK, PipelineTypeOK
  <2>1. ShmTypeOK' /\ ElementTypeOK' /\ StreamTypeOK' /\ HistoryTypeOK'
    BY <1>2, TypeFrame DEF PushEos, Produce
  <2>2. FlagTypeOK'
    BY <1>2 DEF PushEos, Produce, TypeOK, FlagTypeOK, elementVars
  <2>3. UpstreamTypeOK'
    BY <1>2, <2>8, Bounds DEF PushEos, Produce, TypeOK, UpstreamTypeOK, Items
  <2>4. PipelineTypeOK'
    BY <1>2, <2>9 DEF PushEos, Produce, TypeOK, PipelineTypeOK
  <2> QED BY <2>1, <2>2, <2>3, <2>4 DEF TypeOK
<1>3. CASE PushSystem
  <2>8. next' \in 1..(MaxItems + 1) /\ next \in Items
    BY <1>3, Bounds DEF PushSystem, Produce, TypeOK, UpstreamTypeOK, Items
  <2>9. input' \in Seq(Pushed)
    BY <1>3, <2>8 DEF PushSystem, Produce, Push, Pushed, TypeOK, PipelineTypeOK
  <2>7. buf' \in [Items -> Buffer]
    BY <1>3, <2>8 DEF PushSystem, TypeOK, PipelineTypeOK, UpstreamTypeOK, Buffer, BufferStates
  <2>1. ShmTypeOK' /\ ElementTypeOK' /\ StreamTypeOK' /\ HistoryTypeOK'
    BY <1>3, TypeFrame DEF PushSystem, Produce
  <2>2. FlagTypeOK'
    BY <1>3 DEF PushSystem, Produce, TypeOK, FlagTypeOK, elementVars
  <2>3. UpstreamTypeOK'
    BY <1>3, <2>8, Bounds DEF PushSystem, Produce, TypeOK, UpstreamTypeOK, Items
  <2>4. PipelineTypeOK'
    BY <1>3, <2>7, <2>9 DEF PushSystem, Produce, TypeOK, PipelineTypeOK
  <2> QED BY <2>1, <2>2, <2>3, <2>4 DEF TypeOK
<1>4. CASE ProposeAllocation
  <2>1. ShmTypeOK' /\ ElementTypeOK' /\ StreamTypeOK' /\ HistoryTypeOK'
    BY <1>4, TypeFrame DEF ProposeAllocation
  <2>2. FlagTypeOK'
    BY <1>4 DEF ProposeAllocation, TypeOK, FlagTypeOK, elementVars
  <2>3. UpstreamTypeOK'
    BY <1>4, Bounds DEF ProposeAllocation, TypeOK, UpstreamTypeOK, PipelineTypeOK
  <2>4. PipelineTypeOK'
    BY <1>4 DEF ProposeAllocation, TypeOK, PipelineTypeOK
  <2> QED BY <2>1, <2>2, <2>3, <2>4 DEF TypeOK
<1>5. CASE AcquireBegin
  <2>1. ShmTypeOK' /\ ElementTypeOK' /\ StreamTypeOK' /\ HistoryTypeOK'
    BY <1>5, TypeFrame DEF AcquireBegin
  <2>2. FlagTypeOK'
    BY <1>5 DEF AcquireBegin, TypeOK, FlagTypeOK, elementVars
  <2>3. UpstreamTypeOK'
    BY <1>5, Bounds DEF AcquireBegin, TypeOK, UpstreamTypeOK, PipelineTypeOK
  <2>4. PipelineTypeOK'
    BY <1>5 DEF AcquireBegin, TypeOK, PipelineTypeOK
  <2> QED BY <2>1, <2>2, <2>3, <2>4 DEF TypeOK
<1>6. CASE AllocFails
  <2>1. ShmTypeOK' /\ ElementTypeOK' /\ StreamTypeOK' /\ HistoryTypeOK'
    BY <1>6, TypeFrame DEF AllocFails
  <2>2. FlagTypeOK'
    BY <1>6 DEF AllocFails, TypeOK, FlagTypeOK, elementVars
  <2>3. UpstreamTypeOK'
    BY <1>6, Bounds DEF AllocFails, TypeOK, UpstreamTypeOK, PipelineTypeOK
  <2>4. PipelineTypeOK'
    BY <1>6 DEF AllocFails, TypeOK, PipelineTypeOK
  <2> QED BY <2>1, <2>2, <2>3, <2>4 DEF TypeOK
<1>7. CASE AllocBuffer
  <2>1. PICK x \in Free(acq) :
               /\ Loan(x)
               /\ registry' = registry \cup {x}
               /\ buf' = [buf EXCEPT ![next] = [st |-> "own", slot |-> x, caps |-> 0]]
               /\ pixels' = [pixels EXCEPT ![x] = 0]
    BY <1>7 DEF AllocBuffer
  <2>2. x \in Slots BY <2>1 DEF Free
  <2>3. 0 \in 0..MaxItems BY Bounds
  <2>4. loans' \subseteq Slots /\ registry' \subseteq Slots
    BY <2>2, <2>1 DEF Loan, TypeOK, ShmTypeOK, ElementTypeOK
  <2>5. buf' \in [Items -> Buffer]
    <3>1. [st |-> "own", slot |-> x, caps |-> 0] \in Buffer
      BY <2>2, <2>3 DEF Buffer, BufferStates
    <3> QED BY <2>1, <3>1 DEF TypeOK, PipelineTypeOK
  <2>6. pixels' \in [Slots -> 0..MaxItems]
    BY <2>1, <2>2, <2>3 DEF TypeOK, HistoryTypeOK
  <2>7. next' \in 1..(MaxItems + 1)
    BY <1>7, Bounds DEF AllocBuffer, TypeOK, UpstreamTypeOK, Items
  <2>8. StreamTypeOK'
    BY <1>7, TypeFrame DEF AllocBuffer
  <2>9. ShmTypeOK'
    BY <1>7, <2>4 DEF AllocBuffer, TypeOK, ShmTypeOK
  <2>10. FlagTypeOK'
    BY <1>7 DEF AllocBuffer, TypeOK, FlagTypeOK
  <2>11. ElementTypeOK'
    BY <1>7, <2>4 DEF AllocBuffer, TypeOK, ElementTypeOK
  <2>12. UpstreamTypeOK'
    BY <1>7, <2>7, Bounds DEF AllocBuffer, TypeOK, UpstreamTypeOK
  <2>13. PipelineTypeOK'
    BY <1>7, <2>5 DEF AllocBuffer, TypeOK, PipelineTypeOK
  <2>14. HistoryTypeOK'
    <3>1. published' = published BY <1>7 DEF AllocBuffer
    <3> QED BY <2>6, <3>1 DEF TypeOK, HistoryTypeOK
  <2> QED BY <2>8, <2>9, <2>10, <2>11, <2>12, <2>13, <2>14 DEF TypeOK
<1>8. CASE \E i \in Items : FillAndPush(i)
  <2>7. PICK i \in Items : FillAndPush(i)
    BY <1>8
  <2>8. /\ input' \in Seq(Pushed)
        /\ buf' \in [Items -> Buffer] /\ pixels' \in [Slots -> 0..MaxItems]
    <3>1. i \in 0..MaxItems BY Bounds DEF Items
    <3>2. pixels' \in [Slots -> 0..MaxItems]
      BY <2>7, <3>1 DEF FillAndPush, TypeOK, HistoryTypeOK
    <3>3. [kind |-> "buffer", item |-> i] \in Pushed
      BY DEF Pushed
    <3>4. input' \in Seq(Pushed)
      BY <2>7, <3>3 DEF FillAndPush, Push, TypeOK, PipelineTypeOK
    <3>5. buf' \in [Items -> Buffer]
      <4>1. buf \in [Items -> Buffer] /\ buf[i] \in Buffer /\ upcaps \in 0..MaxItems
        BY DEF TypeOK, PipelineTypeOK, UpstreamTypeOK
      <4>2. [buf[i] EXCEPT !.st = "queued", !.caps = upcaps] \in Buffer
        BY <4>1 DEF Buffer, BufferStates
      <4>3. buf' = [buf EXCEPT ![i] = [buf[i] EXCEPT !.st = "queued", !.caps = upcaps]]
        BY <2>7, <4>1 DEF FillAndPush
      <4> QED BY <4>1, <4>2, <4>3
    <3> QED BY <3>2, <3>4, <3>5
  <2>1. ShmTypeOK' /\ ElementTypeOK' /\ StreamTypeOK' /\ UpstreamTypeOK'
    BY <1>8, TypeFrame DEF FillAndPush
  <2>2. FlagTypeOK'
    BY <1>8 DEF FillAndPush, TypeOK, FlagTypeOK, elementVars, upVars
  <2>3. PipelineTypeOK'
    BY <1>8, <2>8 DEF FillAndPush, TypeOK, PipelineTypeOK
  <2>4. HistoryTypeOK'
    BY <1>8, <2>8 DEF FillAndPush, TypeOK, HistoryTypeOK
  <2> QED BY <2>1, <2>2, <2>3, <2>4 DEF TypeOK
<1> QED BY <1>1, <1>2, <1>3, <1>4, <1>5, <1>6, <1>7, <1>8 DEF Upstream

\* Dropping a buffer is well typed.
LEMMA TypeDrop == TypeOK /\ Drop => TypeOK'
<1> SUFFICES ASSUME TypeOK, NEW i \in Items, HandleDrop(i) PROVE TypeOK'
  BY DEF Drop
<1>1. StreamTypeOK' /\ UpstreamTypeOK' /\ HistoryTypeOK'
  BY TypeFrame DEF HandleDrop
<1>2. ShmTypeOK' BY DEF HandleDrop, TypeOK, ShmTypeOK
<1>3. FlagTypeOK' BY DEF HandleDrop, upVars, TypeOK, FlagTypeOK
<1>4. ElementTypeOK' BY DEF HandleDrop, TypeOK, ElementTypeOK
<1>5. PipelineTypeOK'
  <2>1. buf \in [Items -> Buffer] /\ buf[i] \in Buffer
    BY DEF TypeOK, PipelineTypeOK
  <2>2. [buf[i] EXCEPT !.st = "gone", !.slot = NoSlot] \in Buffer
    BY <2>1 DEF Buffer, BufferStates
  <2>3. buf' = [buf EXCEPT ![i] = [buf[i] EXCEPT !.st = "gone", !.slot = NoSlot]]
    BY <2>1 DEF HandleDrop
  <2>4. buf' \in [Items -> Buffer]
    BY <2>1, <2>2, <2>3
  <2> QED BY <2>4 DEF HandleDrop, TypeOK, PipelineTypeOK
<1> QED BY <1>1, <1>2, <1>3, <1>4, <1>5 DEF TypeOK

\* A subscriber's step is well typed.
LEMMA TypeConsumer == TypeOK /\ Consumer => TypeOK'
<1> SUFFICES ASSUME TypeOK, Consumer PROVE TypeOK'
  OBVIOUS
<1>1. ElementTypeOK' /\ StreamTypeOK' /\ UpstreamTypeOK' /\ HistoryTypeOK'
  BY TypeFrame DEF Consumer
<1>2. ShmTypeOK' BY SubscriberType DEF Consumer, TypeOK
<1>3. FlagTypeOK' BY DEF Consumer, elementVars, upVars, TypeOK, FlagTypeOK
<1>4. PipelineTypeOK' BY DEF Consumer, TypeOK, PipelineTypeOK
<1> QED BY <1>1, <1>2, <1>3, <1>4 DEF TypeOK

\* Every step is well typed.
LEMMA TypeStep == TypeOK /\ [Next]_vars => TypeOK'
<1> SUFFICES ASSUME TypeOK, [Next]_vars PROVE TypeOK'
  OBVIOUS
<1>1. CASE Streaming
  BY <1>1, TypeStreaming, TypeRender DEF Streaming
<1>2. CASE UNCHANGED vars
  <2>1. /\ UNCHANGED shmVars /\ UNCHANGED elementVars /\ UNCHANGED streamVars
        /\ UNCHANGED upVars /\ UNCHANGED histVars
        /\ UNCHANGED session /\ UNCHANGED ctl /\ UNCHANGED input /\ UNCHANGED buf
    BY <1>2 DEF vars
  <2>2. FlagTypeOK' BY <2>1 DEF elementVars, upVars, TypeOK, FlagTypeOK
  <2>3. PipelineTypeOK' BY <2>1 DEF TypeOK, PipelineTypeOK
  <2> QED BY <2>1, <2>2, <2>3, TypeFrame DEF TypeOK
<1> QED
  BY <1>1, <1>2, TypeApplication, TypeUpstream, TypeDrop, TypeConsumer DEF Next

\* Every variable keeps its type, for every number of subscribers, cells,
\* items and sessions and every setting of the element.
THEOREM TypeCorrect == Spec => []TypeOK
  BY TypeInit, TypeStep, PTL DEF Spec

----------------------------------------------------------------------------
\* The counters.

Counting == {"znotify", "cnotify"}

\* Where the streaming thread is before and after it takes an item.
LEMMA TakesItem ==
  ASSUME RenderBegin \/ SetCaps \/ PublishEos
  PROVE  render.pc = "idle" /\ render'.pc \in {"idle", "await", "esend"}
<1>1. CASE RenderBegin BY <1>1 DEF RenderBegin, Take, Idle
<1>2. CASE SetCaps BY <1>2 DEF SetCaps, Take, Idle, streamVars
<1>3. CASE PublishEos
  <2>1. render = Idle BY <1>3 DEF PublishEos, Take
  <2>2. render' = render \/ render'.pc = "esend"
    BY <1>3 DEF PublishEos, Idle
  <2> QED BY <2>1, <2>2 DEF Idle
<1> QED BY <1>1, <1>2, <1>3

\* And around the steps of render that neither send nor notify.
LEMMA Prepares ==
  ASSUME render \in RenderState,
         \/ AwaitConnection \/ AwaitFlushing \/ RenderRefused \/ TakeLoan
         \/ CopyStart \/ CopyLoan \/ CopyLoanFails
  PROVE  /\ render.pc \in {"await", "take", "cloan"}
         /\ render'.pc \in {"idle", "await", "take", "zsend", "cloan", "csend"}
<1>1. CASE AwaitConnection \/ TakeLoan \/ CopyStart \/ CopyLoan
  BY <1>1 DEF AwaitConnection, TakeLoan, CopyStart, CopyLoan, RenderState
<1>2. CASE AwaitFlushing \/ RenderRefused \/ CopyLoanFails
  BY <1>2 DEF AwaitFlushing, RenderRefused, CopyLoanFails, Return, Idle
<1> QED BY <1>1, <1>2

LEMMA CountersStep ==
  ASSUME ~Faults, TypeOK, CountersMatchPublished, [Next]_vars
  PROVE  CountersMatchPublished'
<1>1. /\ counters \in [sent : Nat, zero : Nat, copied : Nat] /\ published \in Nat
      /\ render \in RenderState
  BY DEF TypeOK, ElementTypeOK, HistoryTypeOK, StreamTypeOK
<1>2. CASE UNCHANGED <<counters, published>> /\ (render'.pc \in Counting <=> render.pc \in Counting)
  BY <1>2 DEF CountersMatchPublished, Counting
<1>3. CASE Start
  BY <1>3 DEF Start, streamVars, Idle, CountersMatchPublished
<1>4. CASE Stop \/ Unlock \/ UnlockStop \/ FlushStop \/ UNCHANGED vars
  BY <1>2, <1>4 DEF Stop, Unlock, UnlockStop, FlushStop, elementVars, streamVars, histVars, vars
<1>5. CASE Upstream
  BY <1>2, <1>5 DEF Upstream, PushCaps, PushEos, PushSystem, Produce, ProposeAllocation,
     AcquireBegin, AllocBuffer, AllocFails, FillAndPush, elementVars, streamVars, histVars
<1>6. CASE Drop \/ Consumer
  BY <1>2, <1>6 DEF Drop, HandleDrop, Consumer, elementVars, streamVars, histVars
<1>7. CASE ZeroCopySend \/ CopySend
  <2>1. /\ render.pc \notin Counting /\ render'.pc \in Counting
        /\ published' = published + 1 /\ counters' = counters
    BY <1>1, <1>7 DEF ZeroCopySend, CopySend, elementVars, Counting, RenderState
  <2> QED BY <1>1, <2>1 DEF CountersMatchPublished, Counting
<1>8. ASSUME NEW path \in {"zero", "copied"}, Count(path), render.pc \in Counting,
             render' = Idle, published' = published
      PROVE  CountersMatchPublished'
  <2>1. /\ counters'.sent = counters.sent + 1
        /\ counters'.zero + counters'.copied = counters.zero + counters.copied + 1
    BY <1>1, <1>8 DEF Count
  <2> QED BY <1>1, <1>8, <2>1 DEF CountersMatchPublished, Counting, Idle
<1>9. CASE ZeroCopyNotify \/ CopyNotify
  BY <1>8, <1>9 DEF ZeroCopyNotify, CopyNotify, Return, Counting, histVars
<1>10. CASE \/ AwaitConnection \/ AwaitFlushing \/ RenderRefused \/ TakeLoan
            \/ CopyStart \/ CopyLoan \/ CopyLoanFails
  <2>1. UNCHANGED <<counters, published>>
    BY <1>10 DEF AwaitConnection, AwaitFlushing, RenderRefused, TakeLoan,
       CopyStart, CopyLoan, CopyLoanFails, elementVars, histVars
  <2> QED BY <1>1, <1>2, <1>10, <2>1, Prepares DEF Counting
<1>11. CASE RenderBegin \/ SetCaps \/ PublishEos
  <2>1. UNCHANGED <<counters, published>>
    BY <1>11 DEF RenderBegin, SetCaps, PublishEos, elementVars, histVars
  <2> QED BY <1>2, <1>11, <2>1, TakesItem DEF Counting
<1>12. CASE FlushItem \/ EosSend \/ EosNotify
  <2>1. UNCHANGED <<counters, published>>
    BY <1>12 DEF FlushItem, EosSend, EosNotify, elementVars, histVars
  <2>2. render' = render \/ (render.pc \notin Counting /\ render'.pc \notin Counting)
    <3>1. CASE FlushItem BY <3>1 DEF FlushItem, streamVars
    <3>2. CASE EosSend BY <1>1, <3>2 DEF EosSend, Counting, RenderState
    <3>3. CASE EosNotify BY <3>3 DEF EosNotify, Idle, Counting
    <3> QED BY <1>12, <3>1, <3>2, <3>3
  <2> QED BY <1>2, <2>1, <2>2
<1>13. ~SendFails /\ ~NotifyFails
  BY DEF SendFails, NotifyFails
<1> QED BY <1>3, <1>4, <1>5, <1>6, <1>7, <1>9, <1>10, <1>11, <1>12, <1>13
        DEF Next, Application, Streaming, Render

\* While no send and no notify fails, the counters agree with what was put on
\* the ring, for any number of frames and sessions and whichever path each frame
\* takes (sink.rs:545-546, 596-597).
THEOREM CountersAgree ==
  ASSUME ~Faults
  PROVE  Spec => []CountersMatchPublished
<1>1. Init => CountersMatchPublished
  BY DEF Init, Idle, CountersMatchPublished
<1>2. TypeOK /\ CountersMatchPublished /\ [Next]_vars => CountersMatchPublished'
  BY CountersStep
<1> QED BY <1>1, <1>2, TypeCorrect, PTL DEF Spec

----------------------------------------------------------------------------
\* Wake-ups.

Notifying == {"znotify", "cnotify", "enotify"}

\* Who waits is attached; render runs only while the element is started, so the
\* notification after a send is never skipped.
WakeInv ==
  /\ parked \subseteq attached
  /\ ctl # "stopped" => started
  /\ render.pc # "idle" => ctl \in {"run", "unlock"}
  /\ NoMissedWakeup

\* A step that puts nothing on a ring and wakes or parks nobody.
LEMMA QuietWake ==
  ASSUME WakeInv, UNCHANGED <<ring, event, parked, attached>>,
         render.pc \in Notifying => render'.pc \in Notifying
  PROVE  parked' \subseteq attached' /\ NoMissedWakeup'
  BY DEF WakeInv, NoMissedWakeup, Notifying

LEMMA NotifyWakes ==
  ASSUME WakeInv, Notify, UNCHANGED <<ring, parked, attached>>
  PROVE  parked' \subseteq attached' /\ NoMissedWakeup'
  BY DEF WakeInv, NoMissedWakeup, Notify

LEMMA SubscriberWakes ==
  ASSUME TypeOK, WakeInv, NEW s \in Subs, Subscriber(s), render' = render
  PROVE  parked' \subseteq attached' /\ NoMissedWakeup'
<1>1. ring \in [Subs -> Seq(Sample)] /\ parked \subseteq Subs
  BY DEF TypeOK, ShmTypeOK
<1>2. parked' \subseteq attached'
  BY DEF WakeInv, Subscriber, Attach, Detach, Receive, Release, Park, Wake, WaitTimeout
<1>3. ASSUME NEW r \in parked', ring'[r] # <<>>
      PROVE  r \in parked /\ ring'[r] = ring[r] /\ (r \in event => r \in event')
  BY <1>1, <1>3 DEF WakeInv, Subscriber, Attach, Detach, Receive, Release, Park, Wake, WaitTimeout
<1> QED BY <1>2, <1>3 DEF WakeInv, NoMissedWakeup

LEMMA WakeStep ==
  ASSUME ~Faults, ~StopsEarly, TypeOK, WakeInv, [Next]_vars
  PROVE  WakeInv'
<1>1. render \in RenderState
  BY DEF TypeOK, StreamTypeOK
<1>2. CASE UNCHANGED vars
  BY <1>2 DEF vars, shmVars, elementVars, streamVars, WakeInv, NoMissedWakeup
<1>3. CASE Application
  BY <1>3, QuietWake DEF Application, Start, Stop, Unlock, UnlockStop, FlushStop, shmVars,
     elementVars, streamVars, Idle, WakeInv, Notifying
<1>4. CASE Upstream \/ Drop
  <2>1. UNCHANGED <<ring, event, parked, attached, started, ctl, render>>
    BY <1>4 DEF Upstream, PushCaps, PushEos, PushSystem, Produce, ProposeAllocation,
       AcquireBegin, AllocBuffer, AllocFails, FillAndPush, Drop, HandleDrop, shmVars,
       elementVars, streamVars
  <2> QED BY <2>1, QuietWake DEF WakeInv
<1>5. CASE Consumer
  <2>1. UNCHANGED <<started, ctl, render>>
    BY <1>5 DEF Consumer, elementVars, streamVars
  <2>2. parked' \subseteq attached' /\ NoMissedWakeup'
    BY <1>5, <2>1, SubscriberWakes DEF Consumer
  <2> QED BY <2>1, <2>2 DEF WakeInv
<1>6. CASE Streaming
  <2>1. UNCHANGED <<started, ctl>>
    BY <1>6 DEF Streaming, Render, RenderBegin, AwaitConnection, AwaitFlushing, RenderRefused,
       TakeLoan, ZeroCopySend, ZeroCopyNotify, CopyStart, CopyLoan, CopyLoanFails, CopySend,
       CopyNotify, SendFails, NotifyFails, FlushItem, SetCaps, PublishEos, EosSend, EosNotify,
       elementVars, RenderFrame
  <2>2. render' = render \/ ctl \in {"run", "unlock"}
    BY <1>6 DEF Streaming, Render, RenderBegin, AwaitConnection, AwaitFlushing, RenderRefused,
       TakeLoan, ZeroCopySend, ZeroCopyNotify, CopyStart, CopyLoan, CopyLoanFails, CopySend,
       CopyNotify, SendFails, NotifyFails, FlushItem, SetCaps, PublishEos, EosSend, EosNotify,
       streamVars, Take, WakeInv
  <2>3. parked' \subseteq attached' /\ NoMissedWakeup'
    <3>1. CASE ZeroCopySend \/ CopySend \/ EosSend
      <4>1. render'.pc \in Notifying /\ UNCHANGED <<parked, attached>>
        BY <1>1, <3>1 DEF ZeroCopySend, CopySend, EosSend, RenderState, Notifying
      <4> QED BY <4>1 DEF WakeInv, NoMissedWakeup, Notifying
    <3>2. CASE ZeroCopyNotify \/ CopyNotify \/ EosNotify
      <4>1. started
        BY <3>2 DEF ZeroCopyNotify, CopyNotify, EosNotify, WakeInv
      <4> QED BY <3>2, <4>1, NotifyWakes DEF ZeroCopyNotify, CopyNotify, EosNotify
    <3>3. CASE FlushItem \/ SetCaps
      BY <3>3, QuietWake DEF FlushItem, SetCaps, shmVars, streamVars
    <3>4. CASE \/ AwaitConnection \/ AwaitFlushing \/ RenderRefused \/ TakeLoan
               \/ CopyStart \/ CopyLoan \/ CopyLoanFails
      <4>1. UNCHANGED <<ring, event, parked, attached>>
        BY <3>4 DEF AwaitConnection, AwaitFlushing, RenderRefused, TakeLoan,
           CopyStart, CopyLoan, CopyLoanFails, shmVars
      <4> QED BY <1>1, <3>4, <4>1, Prepares, QuietWake DEF Notifying
    <3>5. CASE RenderBegin \/ PublishEos
      <4>1. UNCHANGED <<ring, event, parked, attached>>
        BY <3>5 DEF RenderBegin, PublishEos, shmVars
      <4> QED BY <3>5, <4>1, TakesItem, QuietWake DEF Notifying
    <3>6. ~SendFails /\ ~NotifyFails
      BY DEF SendFails, NotifyFails
    <3> QED BY <1>6, <3>1, <3>2, <3>3, <3>4, <3>5, <3>6 DEF Streaming, Render
  <2> QED BY <2>1, <2>2, <2>3 DEF WakeInv
<1> QED BY <1>2, <1>3, <1>4, <1>5, <1>6 DEF Next

\* While no send and no notify fails and stop waits for render, no subscriber is
\* left to its timeout with a frame in its ring, for any number of subscribers
\* that come, wait and go (sink.rs:540-544, 591-595).
THEOREM NobodySleeps ==
  ASSUME ~Faults, ~StopsEarly
  PROVE  Spec => []NoMissedWakeup
<1>1. Init => WakeInv
  BY DEF Init, ShmInit, Idle, WakeInv, NoMissedWakeup
<1>2. TypeOK /\ WakeInv /\ [Next]_vars => WakeInv'
  BY WakeStep
<1>3. WakeInv => NoMissedWakeup
  BY DEF WakeInv
<1> QED BY <1>1, <1>2, <1>3, TypeCorrect, PTL DEF Spec

----------------------------------------------------------------------------
\* No loan leaks: NoLeakedLoan is inductive together with the types and with
\* the fact that no buffer of an item still to come names a slot (Fresh): a
\* new buffer overwrites no handle.

Fresh == \A i \in Items : i >= next => ~Pooled(i)

LoanInv == TypeOK /\ NoLeakedLoan /\ Fresh

\* No handle is dropped in a step: a live buffer stays live, at its address.
KeepsHandles ==
  \A i \in Items : Live(i) => Live(i)' /\ buf'[i].slot = buf[i].slot

\* No buffer of an item still to come gets a slot.
KeepsFresh == next' >= next /\ \A i \in Items : i >= next' => buf'[i].slot = buf[i].slot

----------------------------------------------------------------------------
\* What a step does to the buffers.

LEMMA FreshStep ==
  ASSUME LoanInv, KeepsFresh, next' \in Nat
  PROVE  Fresh'
  BY Bounds DEF LoanInv, TypeOK, UpstreamTypeOK, Fresh, KeepsFresh, Pooled, Items

\* A buffer the pipeline is done with keeps its handle.
LEMMA DoneKeeps ==
  ASSUME TypeOK, NEW i \in Items, buf' = Done(i), next' = next
  PROVE  KeepsHandles /\ KeepsFresh
<1>1. buf \in [Items -> Buffer]
  BY DEF TypeOK, PipelineTypeOK
<1>2. next \in Int
  BY Bounds DEF TypeOK, UpstreamTypeOK
<1>3. \A j \in Items : buf'[j].slot = buf[j].slot /\ (j # i => buf'[j] = buf[j])
  BY <1>1, DoneType
<1>4. Pooled(i) => buf'[i].st \notin {"none", "gone"}
  BY <1>1, DoneType
<1>5. KeepsHandles
  BY <1>3, <1>4 DEF KeepsHandles, Live, Pooled
<1> QED BY <1>2, <1>3, <1>5 DEF KeepsFresh

\* So does a buffer whose state alone changes while it stays in use.
LEMMA RestateKeeps ==
  ASSUME TypeOK, NEW i \in Items, NEW st \in BufferStates \ {"none", "gone"},
         buf' = [buf EXCEPT ![i].st = st], next' = next
  PROVE  KeepsHandles /\ KeepsFresh
<1>1. buf \in [Items -> Buffer]
  BY DEF TypeOK, PipelineTypeOK
<1>2. next \in Int
  BY Bounds DEF TypeOK, UpstreamTypeOK
<1>3. \A j \in Items : buf'[j].slot = buf[j].slot /\ (j # i => buf'[j] = buf[j])
  BY <1>1 DEF Buffer
<1>4. buf'[i].st = st
  BY <1>1 DEF Buffer
<1> QED BY <1>2, <1>3, <1>4 DEF KeepsHandles, KeepsFresh, Live, Pooled

LEMMA UnchangedKeeps ==
  ASSUME TypeOK, UNCHANGED <<buf, next>>
  PROVE  KeepsHandles /\ KeepsFresh
  BY Bounds DEF TypeOK, UpstreamTypeOK, KeepsHandles, KeepsFresh, Live, Pooled

\* A step that moves no loan and drops no handle leaks none.
LEMMA SameLoans ==
  ASSUME LoanInv, KeepsHandles, UNCHANGED <<loans, registry>>, InHand' = InHand
  PROVE  NoLeakedLoan'
  BY DEF LoanInv, NoLeakedLoan, KeepsHandles

LEMMA HeadItem ==
  ASSUME TypeOK, input # <<>>
  PROVE  Head(input).item \in Items
  BY InputTail DEF TypeOK, PipelineTypeOK, Pushed

\* Send ends the loan it sends and no other.
LEMMA SendLoan ==
  ASSUME LoanInv, KeepsHandles, render.pc \in {"zsend", "csend", "esend"},
         loans' = loans \ {render.slot}, registry' = registry, InHand' = {}
  PROVE  NoLeakedLoan'
  BY DEF LoanInv, NoLeakedLoan, KeepsHandles, InHand

\* A loan made by the streaming thread is in its hand.
LEMMA HandLoan ==
  ASSUME LoanInv, KeepsHandles, NEW x \in Slots, Loan(x), registry' = registry,
         InHand = {}, InHand' = {x}
  PROVE  NoLeakedLoan'
  BY DEF LoanInv, NoLeakedLoan, KeepsHandles, Loan, Free

----------------------------------------------------------------------------
LEMMA LoanApplication == LoanInv /\ Application => NoLeakedLoan' /\ Fresh'
<1> SUFFICES ASSUME LoanInv, Application PROVE NoLeakedLoan' /\ Fresh'
  OBVIOUS
<1>1. UNCHANGED <<loans, registry, render, buf, next>>
  BY DEF Application, Start, Stop, Unlock, UnlockStop, FlushStop, shmVars,
         elementVars, streamVars, upVars
<1>2. KeepsHandles /\ KeepsFresh
  BY <1>1, UnchangedKeeps DEF LoanInv
<1>3. InHand' = InHand BY <1>1 DEF InHand
<1>4. next' \in Nat BY <1>1, Bounds DEF LoanInv, TypeOK, UpstreamTypeOK
<1> QED BY <1>1, <1>2, <1>3, <1>4, SameLoans, FreshStep

LEMMA LoanConsumer == LoanInv /\ Consumer => NoLeakedLoan' /\ Fresh'
<1> SUFFICES ASSUME LoanInv, Consumer PROVE NoLeakedLoan' /\ Fresh'
  OBVIOUS
<1>1. UNCHANGED <<loans, registry, render, buf, next>>
  BY DEF Consumer, Subscriber, Attach, Detach, Receive, Release, Park, Wake,
         WaitTimeout, elementVars, streamVars, upVars
<1>2. KeepsHandles /\ KeepsFresh
  BY <1>1, UnchangedKeeps DEF LoanInv
<1>3. InHand' = InHand BY <1>1 DEF InHand
<1>4. next' \in Nat BY <1>1, Bounds DEF LoanInv, TypeOK, UpstreamTypeOK
<1> QED BY <1>1, <1>2, <1>3, <1>4, SameLoans, FreshStep

\* Dropping a handle returns its loan exactly when the registry still has it.
LEMMA LoanDrop == LoanInv /\ Drop => NoLeakedLoan' /\ Fresh'
<1> SUFFICES ASSUME LoanInv, NEW i \in Items, HandleDrop(i)
             PROVE  NoLeakedLoan' /\ Fresh'
  BY DEF Drop
<1>1. buf \in [Items -> Buffer] /\ next \in Nat
  BY Bounds DEF LoanInv, TypeOK, PipelineTypeOK, UpstreamTypeOK
<1>2. InHand' = InHand /\ next' = next
  BY DEF HandleDrop, streamVars, InHand, upVars
<1>3. /\ \A j \in Items \ {i} : buf'[j] = buf[j]
      /\ buf'[i].slot = NoSlot
  BY <1>1 DEF HandleDrop, Buffer
<1>4. Fresh'
  BY <1>1, <1>2, <1>3 DEF LoanInv, Fresh, Pooled, Items
<1>5. loans' = registry' \cup InHand' /\ registry' \cap InHand' = {}
  BY <1>2 DEF HandleDrop, LoanInv, NoLeakedLoan
<1>6. ASSUME NEW x \in registry'
      PROVE  \E j \in Items : Live(j)' /\ buf'[j].slot = x
  <2>1. x \in registry /\ x # buf[i].slot
    BY <1>6 DEF HandleDrop
  <2>2. PICK j \in Items : Live(j) /\ buf[j].slot = x
    BY <2>1 DEF LoanInv, NoLeakedLoan
  <2> QED BY <1>3, <2>1, <2>2 DEF Live, Pooled
<1> QED BY <1>4, <1>5, <1>6 DEF NoLeakedLoan

\* The upstream: acquire_buffer registers the loan it makes, and the item it
\* makes it for had no handle before.
LEMMA LoanUpstream == LoanInv /\ Upstream => NoLeakedLoan' /\ Fresh'
<1> SUFFICES ASSUME LoanInv, Upstream PROVE NoLeakedLoan' /\ Fresh'
  OBVIOUS
<1>1. buf \in [Items -> Buffer] /\ next \in Nat
  BY Bounds DEF LoanInv, TypeOK, PipelineTypeOK, UpstreamTypeOK
<1>2. CASE PushCaps \/ PushEos
  <2>1. UNCHANGED <<loans, registry, render, buf>> /\ next' = next + 1
    BY <1>2 DEF PushCaps, PushEos, Produce, shmVars, elementVars, streamVars
  <2>2. KeepsHandles /\ KeepsFresh
    BY <1>1, <2>1 DEF KeepsHandles, KeepsFresh, Live, Pooled
  <2>3. InHand' = InHand BY <2>1 DEF InHand
  <2>4. next' \in Nat BY <1>1, <2>1
  <2> QED BY <2>1, <2>2, <2>3, <2>4, SameLoans, FreshStep
<1>3. CASE PushSystem
  <2>1. /\ UNCHANGED <<loans, registry, render>> /\ next' = next + 1 /\ next \in Items
        /\ buf' = [buf EXCEPT ![next] = [st |-> "queued", slot |-> NoSlot, caps |-> upcaps]]
    BY <1>3 DEF PushSystem, Produce, shmVars, elementVars, streamVars
  <2>2. ~Pooled(next)
    BY <1>1, <2>1 DEF LoanInv, Fresh
  <2>3. \A i \in Items : buf'[i].slot = buf[i].slot /\ (i # next => buf'[i] = buf[i])
    BY <1>1, <2>1, <2>2 DEF Pooled
  <2>4. KeepsHandles /\ KeepsFresh
    BY <1>1, <2>1, <2>2, <2>3 DEF KeepsHandles, KeepsFresh, Live, Pooled
  <2>5. InHand' = InHand BY <2>1 DEF InHand
  <2>6. next' \in Nat BY <1>1, <2>1
  <2> QED BY <2>1, <2>4, <2>5, <2>6, SameLoans, FreshStep
<1>4. CASE ProposeAllocation \/ AcquireBegin \/ AllocFails
  <2>1. UNCHANGED <<loans, registry, render, buf, next>>
    BY <1>4 DEF ProposeAllocation, AcquireBegin, AllocFails, shmVars, elementVars,
                streamVars
  <2>2. KeepsHandles /\ KeepsFresh
    BY <2>1, UnchangedKeeps DEF LoanInv
  <2>3. InHand' = InHand BY <2>1 DEF InHand
  <2>4. next' \in Nat BY <1>1, <2>1
  <2> QED BY <2>1, <2>2, <2>3, <2>4, SameLoans, FreshStep
<1>5. CASE AllocBuffer
  <2>1. PICK x \in Free(acq) :
          /\ Loan(x)
          /\ registry' = registry \cup {x}
          /\ buf' = [buf EXCEPT ![next] = [st |-> "own", slot |-> x, caps |-> 0]]
    BY <1>5 DEF AllocBuffer
  <2>2. next' = next + 1 /\ next \in Items /\ InHand' = InHand
    BY <1>5 DEF AllocBuffer, LoanInv, TypeOK, UpstreamTypeOK, streamVars, InHand
  <2>3. x \in Slots /\ x \notin loans /\ loans' = loans \cup {x}
    BY <2>1 DEF Free, Loan
  <2>4. ~Pooled(next)
    BY <1>1, <2>2 DEF LoanInv, Fresh
  <2>5. /\ \A i \in Items \ {next} : buf'[i] = buf[i]
        /\ buf'[next].slot = x /\ buf'[next].st = "own"
    BY <1>1, <2>1, <2>2
  <2>6. Fresh'
    BY <1>1, <2>2, <2>5 DEF LoanInv, Fresh, Pooled, Items
  <2>7. loans' = registry' \cup InHand' /\ registry' \cap InHand' = {}
    BY <2>1, <2>2, <2>3 DEF LoanInv, NoLeakedLoan
  <2>8. x # NoSlot
    BY <2>3, Bounds DEF Slots, Sessions, NoSlot
  <2>9. ASSUME NEW y \in registry'
        PROVE  \E i \in Items : Live(i)' /\ buf'[i].slot = y
    <3>1. CASE y = x
      BY <2>2, <2>5, <2>8, <3>1 DEF Live, Pooled
    <3>2. CASE y \in registry
      <4>1. PICK i \in Items : Live(i) /\ buf[i].slot = y
        BY <3>2 DEF LoanInv, NoLeakedLoan
      <4> QED BY <2>4, <2>5, <4>1 DEF Live, Pooled
    <3> QED BY <2>1, <2>9, <3>1, <3>2
  <2> QED BY <2>6, <2>7, <2>9 DEF NoLeakedLoan
<1>6. ASSUME NEW i \in Items, FillAndPush(i)
      PROVE  NoLeakedLoan' /\ Fresh'
  <2>1. /\ UNCHANGED <<loans, registry, render, next>>
        /\ buf' = [buf EXCEPT ![i].st = "queued", ![i].caps = upcaps]
    BY <1>6 DEF FillAndPush, shmVars, elementVars, streamVars, upVars
  <2>2. \A j \in Items : buf'[j].slot = buf[j].slot /\ (j # i => buf'[j] = buf[j])
    BY <1>1, <2>1 DEF Buffer
  <2>3. buf'[i].st = "queued"
    BY <1>1, <2>1 DEF Buffer
  <2>4. KeepsHandles /\ KeepsFresh
    BY <1>1, <2>1, <2>2, <2>3 DEF KeepsHandles, KeepsFresh, Live, Pooled
  <2>5. InHand' = InHand BY <2>1 DEF InHand
  <2> QED BY <1>1, <2>1, <2>4, <2>5, SameLoans, FreshStep
<1> QED BY <1>2, <1>3, <1>4, <1>5, <1>6 DEF Upstream

\* The streaming thread between two frames.
LEMMA LoanStreaming ==
  LoanInv /\ (FlushItem \/ SetCaps \/ PublishEos \/ EosSend \/ EosNotify)
    => NoLeakedLoan' /\ Fresh'
<1> SUFFICES ASSUME LoanInv, FlushItem \/ SetCaps \/ PublishEos \/ EosSend \/ EosNotify
             PROVE  NoLeakedLoan' /\ Fresh'
  OBVIOUS
<1>1. next' = next /\ next' \in Nat
  <2>1. next' = next
    BY DEF FlushItem, SetCaps, PublishEos, EosSend, EosNotify, upVars
  <2> QED BY <2>1, Bounds DEF LoanInv, TypeOK, UpstreamTypeOK
<1>2. CASE FlushItem
  <2>1. UNCHANGED <<loans, registry, render>>
    BY <1>2 DEF FlushItem, shmVars, elementVars, streamVars
  <2>2. KeepsHandles /\ KeepsFresh
    BY <1>1, <1>2, UnchangedKeeps, DoneKeeps, HeadItem DEF FlushItem, LoanInv
  <2>3. InHand' = InHand BY <2>1 DEF InHand
  <2> QED BY <1>1, <2>1, <2>2, <2>3, SameLoans, FreshStep
<1>3. UNCHANGED buf => KeepsHandles /\ KeepsFresh
  BY <1>1, UnchangedKeeps DEF LoanInv
<1>4. CASE SetCaps
  <2>1. UNCHANGED <<loans, registry, render, buf>>
    BY <1>4 DEF SetCaps, shmVars, streamVars
  <2>2. InHand' = InHand BY <2>1 DEF InHand
  <2> QED BY <1>1, <1>3, <2>1, <2>2, SameLoans, FreshStep
<1>5. CASE PublishEos
  <2>1. UNCHANGED <<registry, buf>> /\ render = Idle
    BY <1>5 DEF PublishEos, Take, elementVars
  <2>2. InHand = {} BY <2>1 DEF InHand, Idle
  <2>3. CASE UNCHANGED <<loans, render>>
    <3>1. InHand' = InHand BY <2>3 DEF InHand
    <3> QED BY <1>1, <1>3, <2>1, <2>3, <3>1, SameLoans, FreshStep
  <2>4. CASE \E x \in Free(session) : /\ Loan(x)
             /\ render' = [Idle EXCEPT !.pc = "esend", !.item = Head(input).item,
                                       !.slot = x]
    <3>1. PICK x \in Slots : /\ Loan(x)
             /\ render' = [Idle EXCEPT !.pc = "esend", !.item = Head(input).item,
                                       !.slot = x]
      BY <2>4 DEF Free
    <3>2. InHand' = {x} BY <3>1 DEF InHand, Idle
    <3> QED BY <1>1, <1>3, <2>1, <2>2, <3>1, <3>2, HandLoan, FreshStep
  <2> QED BY <1>5, <2>3, <2>4 DEF PublishEos
<1>6. CASE EosSend
  <2>1. /\ UNCHANGED <<registry, buf>> /\ render.pc = "esend"
        /\ loans' = loans \ {render.slot} /\ render'.pc = "enotify"
    BY <1>6 DEF EosSend, Send, elementVars, LoanInv, TypeOK, StreamTypeOK, RenderState
  <2>2. InHand' = {} BY <2>1 DEF InHand
  <2> QED BY <1>1, <1>3, <2>1, <2>2, SendLoan, FreshStep
<1>7. CASE EosNotify
  <2>1. UNCHANGED <<loans, registry, buf>> /\ render.pc = "enotify" /\ render' = Idle
    BY <1>7 DEF EosNotify, elementVars
  <2>2. InHand' = InHand BY <2>1 DEF InHand, Idle
  <2> QED BY <1>1, <1>3, <2>1, <2>2, SameLoans, FreshStep
<1> QED BY <1>2, <1>4, <1>5, <1>6, <1>7

\* render: its loan comes out of the registry or is made by the copy path, and
\* leaves the thread's hand by send, by a failed send, or never got there.
LEMMA LoanRender == LoanInv /\ Render => NoLeakedLoan' /\ Fresh'
<1> SUFFICES ASSUME LoanInv, Render PROVE NoLeakedLoan' /\ Fresh'
  OBVIOUS
<1>1. next' = next /\ next' \in Nat
  <2>1. next' = next
    BY DEF Render, RenderBegin, AwaitConnection, AwaitFlushing, RenderRefused, TakeLoan,
       ZeroCopySend, ZeroCopyNotify, CopyStart, CopyLoan, CopyLoanFails, CopySend,
       CopyNotify, SendFails, NotifyFails, RenderFrame, upVars
  <2> QED BY <2>1, Bounds DEF LoanInv, TypeOK, UpstreamTypeOK
<1>2. UNCHANGED buf => KeepsHandles /\ KeepsFresh
  BY <1>1, UnchangedKeeps DEF LoanInv
<1>3. ASSUME render.pc # "idle", NEW result, Return(result)
      PROVE  KeepsHandles /\ KeepsFresh /\ InHand' = {}
  <2>1. render.item \in Items
    BY <1>3 DEF LoanInv, TypeOK, StreamTypeOK
  <2>2. KeepsHandles /\ KeepsFresh
    BY <1>1, <1>3, <2>1, DoneKeeps DEF Return, LoanInv
  <2>3. InHand' = {} BY <1>3 DEF Return, InHand, Idle
  <2> QED BY <2>2, <2>3
<1>4. CASE RenderBegin
  <2>1. Head(input).item \in Items
    BY <1>4, HeadItem DEF RenderBegin, Take, LoanInv
  <2>2. KeepsHandles /\ KeepsFresh
    BY <1>1, <1>4, <2>1, RestateKeeps DEF RenderBegin, LoanInv, BufferStates
  <2>3. UNCHANGED <<loans, registry>> /\ render = Idle /\ render'.pc = "await"
    BY <1>4 DEF RenderBegin, Take, shmVars, elementVars, Idle
  <2>4. InHand' = InHand BY <2>3 DEF InHand, Idle
  <2> QED BY <1>1, <2>2, <2>3, <2>4, SameLoans, FreshStep
<1>5. CASE AwaitConnection
  <2>1. /\ UNCHANGED <<loans, registry, buf>> /\ render.pc = "await"
        /\ render'.pc \in {"await", "take"}
    BY <1>5 DEF AwaitConnection, shmVars, LoanInv, TypeOK, StreamTypeOK, RenderState
  <2>2. InHand' = InHand BY <2>1 DEF InHand
  <2> QED BY <1>1, <1>2, <2>1, <2>2, SameLoans, FreshStep
<1>6. CASE AwaitFlushing \/ RenderRefused \/ CopyLoanFails
  <2>1. /\ UNCHANGED <<loans, registry>> /\ render.pc \in {"await", "take", "cloan"}
        /\ \E result \in {"Ok", "Flushing", "Error", "NotNegotiated"} : Return(result)
    BY <1>6 DEF AwaitFlushing, RenderRefused, CopyLoanFails, shmVars, elementVars
  <2>2. InHand = {} BY <2>1 DEF InHand
  <2>3. KeepsHandles /\ KeepsFresh /\ InHand' = {} BY <1>3, <2>1
  <2> QED BY <1>1, <2>1, <2>2, <2>3, SameLoans, FreshStep
<1>7. CASE TakeLoan
  <2>1. /\ render.pc = "take" /\ render.item \in Items
        /\ buf[render.item].slot \in registry
        /\ registry' = registry \ {buf[render.item].slot} /\ loans' = loans
    BY <1>7 DEF TakeLoan, Registered, shmVars, LoanInv, TypeOK, StreamTypeOK
  <2>2. KeepsHandles /\ KeepsFresh
    BY <1>1, <1>7, <2>1, RestateKeeps DEF TakeLoan, LoanInv, BufferStates
  <2>3. InHand = {} BY <2>1 DEF InHand
  <2>4. render'.pc = "zsend" /\ render'.slot = buf[render.item].slot
    BY <1>7 DEF TakeLoan, LoanInv, TypeOK, StreamTypeOK, RenderState
  <2>5. InHand' = {buf[render.item].slot} BY <2>4 DEF InHand
  <2>6. NoLeakedLoan'
    BY <2>1, <2>2, <2>3, <2>5 DEF LoanInv, NoLeakedLoan, KeepsHandles
  <2> QED BY <1>1, <2>2, <2>6, FreshStep
<1>8. CASE CopyStart
  <2>1. /\ UNCHANGED <<loans, registry, buf>> /\ render.pc = "take"
        /\ render'.pc = "cloan"
    BY <1>8 DEF CopyStart, shmVars, elementVars, LoanInv, TypeOK, StreamTypeOK, RenderState
  <2>2. InHand' = InHand BY <2>1 DEF InHand
  <2> QED BY <1>1, <1>2, <2>1, <2>2, SameLoans, FreshStep
<1>9. CASE CopyLoan
  <2>1. PICK x \in Slots : Loan(x) /\ render' = [render EXCEPT !.pc = "csend", !.slot = x]
    BY <1>9 DEF CopyLoan, Free
  <2>2. render'.pc = "csend" /\ render'.slot = x
    BY <2>1 DEF LoanInv, TypeOK, StreamTypeOK, RenderState
  <2>3. UNCHANGED <<registry, buf>> /\ InHand = {}
    BY <1>9 DEF CopyLoan, elementVars, InHand
  <2>4. InHand' = {x} BY <2>2 DEF InHand
  <2> QED BY <1>1, <1>2, <2>1, <2>3, <2>4, HandLoan, FreshStep
<1>10. CASE ZeroCopySend \/ CopySend
  <2>1. /\ UNCHANGED <<registry, buf>> /\ render.pc \in {"zsend", "csend"}
        /\ loans' = loans \ {render.slot} /\ render'.pc \in {"znotify", "cnotify"}
    BY <1>10 DEF ZeroCopySend, CopySend, Send, FrameSample, elementVars, LoanInv,
       TypeOK, StreamTypeOK, RenderState
  <2>2. InHand' = {} BY <2>1 DEF InHand
  <2> QED BY <1>1, <1>2, <2>1, <2>2, SendLoan, FreshStep
<1>11. CASE SendFails
  <2>1. /\ UNCHANGED registry /\ render.pc \in {"zsend", "csend", "esend"}
        /\ loans' = loans \ {render.slot}
    BY <1>11 DEF SendFails, elementVars
  <2>2. KeepsHandles /\ KeepsFresh /\ InHand' = {}
    <3>1. CASE render.pc = "esend"
      BY <1>2, <1>11, <3>1 DEF SendFails, InHand, Idle
    <3>2. CASE render.pc # "esend"
      BY <1>3, <1>11, <3>2 DEF SendFails
    <3> QED BY <3>1, <3>2
  <2> QED BY <1>1, <2>1, <2>2, SendLoan, FreshStep
<1>12. CASE ZeroCopyNotify \/ CopyNotify \/ NotifyFails
  <2>1. /\ UNCHANGED <<loans, registry>> /\ render.pc \in {"znotify", "cnotify"}
        /\ \E result \in {"Ok", "Error"} : Return(result)
    BY <1>12 DEF ZeroCopyNotify, CopyNotify, NotifyFails, shmVars, elementVars
  <2>2. InHand = {} BY <2>1 DEF InHand
  <2>3. KeepsHandles /\ KeepsFresh /\ InHand' = {} BY <1>3, <2>1
  <2> QED BY <1>1, <2>1, <2>2, <2>3, SameLoans, FreshStep
<1> QED BY <1>4, <1>5, <1>6, <1>7, <1>8, <1>9, <1>10, <1>11, <1>12 DEF Render

\* No buffer has a handle at first.
LEMMA LoanInit == Init => NoLeakedLoan /\ Fresh
  BY DEF Init, ShmInit, NoLeakedLoan, Fresh, InHand, Idle, Pooled, NoBuffer

LEMMA LoanStep == LoanInv /\ [Next]_vars => LoanInv'
<1> SUFFICES ASSUME LoanInv, [Next]_vars PROVE LoanInv'
  OBVIOUS
<1>1. TypeOK'
  BY TypeStep DEF LoanInv
<1>2. CASE Next
  <2>1. NoLeakedLoan' /\ Fresh'
    BY <1>2, LoanApplication, LoanStreaming, LoanRender, LoanUpstream, LoanDrop,
       LoanConsumer DEF Next, Streaming
  <2> QED BY <1>1, <2>1 DEF LoanInv
<1>3. CASE UNCHANGED vars
  <2>1. UNCHANGED <<loans, registry, render, buf, next>>
    BY <1>3 DEF vars, shmVars, elementVars, streamVars, upVars
  <2>2. NoLeakedLoan' /\ Fresh'
    BY <2>1 DEF LoanInv, NoLeakedLoan, Fresh, InHand, Live, Pooled
  <2> QED BY <1>1, <2>2 DEF LoanInv
<1> QED BY <1>2, <1>3

\* No loan leaks, however buffers are kept, flushed, carried over a restart
\* or given up, and whatever fails (pool.rs:73-78, sink.rs:502).
THEOREM NoLoanLeaks == Spec => []NoLeakedLoan
<1>1. Init => LoanInv BY TypeInit, LoanInit DEF LoanInv
<1>2. LoanInv => NoLeakedLoan BY DEF LoanInv
<1> QED BY <1>1, <1>2, LoanStep, PTL DEF Spec
=============================================================================
