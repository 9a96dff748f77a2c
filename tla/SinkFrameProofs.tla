-------------------------- MODULE SinkFrameProofs --------------------------
(***************************************************************************)
(* What a subscriber reads: FrameIntact and PoolBufferIsZeroCopy are       *)
(* invariants of Sink, for every value of the other constants, when the    *)
(* pipeline keeps at most one pool buffer alive.  With two the first is    *)
(* refuted by TLC (MCSink_torn_frame): a dropped handle then takes a       *)
(* second buffer's loan out of the registry.                               *)
(***************************************************************************)
EXTENDS SinkProofs

\* A buffer is dropped or not yet acquired exactly when it has no handle; no
\* two buffers have one, and none has while the upstream acquires another.
OneHandle ==
  /\ \A i \in Items : buf[i].st \in {"none", "gone"} => ~Pooled(i)
  /\ \A i, j \in Items : Pooled(i) /\ Pooled(j) => i = j
  /\ acq # 0 => \A i \in Items : ~Pooled(i)

\* The handle of a buffer that is still to be rendered names a loan that
\* waits in the registry.
HandleNamesLoan ==
  \A i \in Items :
    /\ buf[i].st = "own" => Pooled(i)
    /\ buf[i].st \in {"own", "queued", "render"} /\ Pooled(i) => buf[i].slot \in registry

\* Items still to come have no buffer; the input holds each buffer once.
InputOrder ==
  /\ \A i \in Items : i >= next => buf[i].st = "none"
  /\ \A k \in 1..Len(input) :
       input[k].kind = "buffer" =>
         /\ buf[input[k].item].st = "queued"
         /\ \A l \in 1..Len(input) :
              input[l].kind = "buffer" /\ input[l].item = input[k].item => l = k

Copying == {"await", "take", "cloan", "csend", "cnotify"}

\* What the streaming thread renders is its own, and holds the frame.
RenderHolds ==
  /\ render.pc \in Copying => buf[render.item].st = "render"
  /\ render.pc \in {"zsend", "znotify"} => buf[render.item].st = "taken"
  /\ render.pc = "zsend" => pixels[render.slot] = render.item
  /\ \A i \in Items : buf[i].st \in {"queued", "render"} /\ Pooled(i) => pixels[buf[i].slot] = i

\* No cell is loaned while a subscriber may read it.
LoansUnread == loans \cap InFlightSlots = {}

FrameInv ==
  /\ LoanInv /\ OneHandle /\ HandleNamesLoan /\ InputOrder /\ RenderHolds
  /\ LoansUnread /\ FrameIntact

\* The copy path runs in a session, and what it copies is not of its pool.
CopyInv ==
  /\ ctl # "stopped" \/ render.pc # "idle" => session # 0
  /\ PoolBufferIsZeroCopy

----------------------------------------------------------------------------
\* What a step does to the samples in flight.

LEMMA InFlightType == TypeOK => InFlight \subseteq Sample
  BY DEF TypeOK, ShmTypeOK, InFlight, Queued

LEMMA QueuedAppend ==
  ASSUME NEW q \in Seq(Sample), NEW sm \in Sample
  PROVE  \A i \in 1..Len(Append(q, sm)) :
           Append(q, sm)[i] = sm \/ \E j \in 1..Len(q) : Append(q, sm)[i] = q[j]
  OBVIOUS

\* Send puts one sample in flight.
LEMMA InFlightSend ==
  ASSUME TypeOK, NEW sm \in Sample, NEW overflow \in BOOLEAN, Send(sm, overflow),
         borrowed' = borrowed
  PROVE  InFlight' \subseteq InFlight \cup {sm}
<1> SUFFICES ASSUME NEW s \in Subs, NEW i \in 1..Len(ring'[s])
             PROVE  ring'[s][i] = sm \/ \E j \in 1..Len(ring[s]) : ring'[s][i] = ring[s][j]
  BY DEF InFlight, Queued
<1>1. ring[s] \in Seq(Sample)
  BY DEF TypeOK, ShmTypeOK
<1>2. CASE ring'[s] = ring[s]
  BY <1>2
<1>3. CASE ring'[s] = Append(ring[s], sm)
  BY <1>1, <1>3, QueuedAppend
<1>4. CASE RingFull(s) /\ ring'[s] = Append(Tail(ring[s]), sm)
  <2>1. ring[s] # <<>> BY <1>1, <1>4, Bounds DEF RingFull
  <2>2. Tail(ring[s]) \in Seq(Sample) BY <1>1, <2>1
  <2> QED BY <1>1, <1>4, <2>1, <2>2, QueuedAppend, QueuedTail
<1> QED BY <1>2, <1>3, <1>4 DEF Send

\* A subscriber puts none in flight.
LEMMA InFlightSubscriber ==
  ASSUME TypeOK, NEW s \in Subs, Subscriber(s)
  PROVE  InFlight' \subseteq InFlight
  BY PortFlight DEF TypeOK, Subscriber, PortStep

LEMMA InFlightSame == UNCHANGED <<ring, borrowed>> => InFlight' = InFlight
  BY DEF InFlight, Queued

----------------------------------------------------------------------------
\* The parts of the invariant most steps use.
LEMMA Basics ==
  ASSUME FrameInv
  PROVE  /\ TypeOK
         /\ buf \in [Items -> Buffer] /\ render \in RenderState
         /\ render.pc # "idle" => render.item \in Items
         /\ pixels \in [Slots -> 0..MaxItems] /\ next \in Nat /\ input \in Seq(Pushed)
         /\ registry \subseteq loans /\ InHand \subseteq loans /\ loans \subseteq Slots
         /\ registry \cap InHand = {} /\ InHand \subseteq Slots
         /\ InFlight \subseteq Sample /\ InFlightSlots \subseteq Slots
<1>1. LoanInv /\ TypeOK /\ NoLeakedLoan
  BY DEF FrameInv, LoanInv
<1>2. InFlight \subseteq Sample /\ InFlightSlots \subseteq Slots
  BY <1>1, InFlightType DEF InFlightSlots, Sample
<1>3. registry \subseteq loans /\ InHand \subseteq loans /\ registry \cap InHand = {}
  BY <1>1 DEF NoLeakedLoan
<1>4. loans \subseteq Slots /\ buf \in [Items -> Buffer] /\ input \in Seq(Pushed)
  BY <1>1 DEF TypeOK, ShmTypeOK, PipelineTypeOK
<1>5. render \in RenderState /\ (render.pc # "idle" => render.item \in Items)
      /\ InHand \subseteq Slots
  BY <1>1 DEF TypeOK, StreamTypeOK
<1>6. pixels \in [Slots -> 0..MaxItems] /\ next \in Nat
  BY <1>1, Bounds DEF TypeOK, HistoryTypeOK, UpstreamTypeOK
<1> QED BY <1>1, <1>2, <1>3, <1>4, <1>5, <1>6

\* Pixels are written to memory on loan only, never to memory in flight.
LEMMA PixelWrites ==
  ASSUME FrameInv, Next
  PROVE  \A x \in InFlightSlots : pixels'[x] = pixels[x]
<1> SUFFICES ASSUME NEW x \in InFlightSlots PROVE pixels'[x] = pixels[x]
  OBVIOUS
<1>1. x \in Slots /\ x \notin loans
  BY Basics DEF FrameInv, LoansUnread
<1>2. CASE AllocBuffer
  BY <1>1, <1>2, Basics DEF AllocBuffer, Free
<1>3. ASSUME NEW i \in Items, FillAndPush(i) PROVE pixels'[x] = pixels[x]
  <2>1. buf[i].slot \in registry
    BY <1>3 DEF FillAndPush, Owned, FrameInv, HandleNamesLoan
  <2> QED BY <1>1, <1>3, <2>1, Basics DEF FillAndPush
<1>4. CASE CopySend
  <2>1. render.slot \in InHand BY <1>4 DEF CopySend, InHand
  <2> QED BY <1>1, <1>4, <2>1, Basics DEF CopySend
<1>5. CASE UNCHANGED pixels
  BY <1>5
<1>6. CASE Application
  BY <1>6 DEF Application, Start, Stop, Unlock, UnlockStop, FlushStop, histVars
<1>7. CASE Streaming
  BY <1>4, <1>7 DEF Streaming, Render, RenderBegin, AwaitConnection, AwaitFlushing,
     RenderRefused, TakeLoan, ZeroCopySend, ZeroCopyNotify, CopyStart, CopyLoan,
     CopyLoanFails, CopyNotify, SendFails, NotifyFails, FlushItem, SetCaps, PublishEos,
     EosSend, EosNotify, histVars
<1>8. CASE Upstream
  BY <1>2, <1>3, <1>8 DEF Upstream, PushCaps, PushEos, PushSystem, Produce,
     ProposeAllocation, AcquireBegin, AllocFails, histVars
<1>9. CASE Drop \/ Consumer
  BY <1>9 DEF Drop, HandleDrop, Consumer, histVars
<1> QED BY <1>6, <1>7, <1>8, <1>9 DEF Next

\* What a step does to the loans and the samples in flight: it gives memory
\* back, loans memory nobody reads, or sends a loan with the frame in it.
GivesBack == loans' \subseteq loans /\ InFlight' \subseteq InFlight

Loans ==
  /\ \E x \in Slots \ InFlightSlots : loans' = loans \cup {x}
  /\ InFlight' = InFlight

Sends ==
  \E sm \in Sample :
    /\ sm.slot \in loans /\ loans' = loans \ {sm.slot}
    /\ InFlight' \subseteq InFlight \cup {sm}
    /\ ~sm.eos => pixels'[sm.slot] = sm.item

LEMMA StreamingService == FrameInv /\ Streaming => GivesBack \/ Loans \/ Sends
<1> SUFFICES ASSUME FrameInv, Streaming PROVE GivesBack \/ Loans \/ Sends
  OBVIOUS
<1>1. CASE UNCHANGED shmVars
  BY <1>1, InFlightSame DEF shmVars, GivesBack
<1>2. CASE ZeroCopySend
  <2>1. render.slot \in InHand /\ render.item \in Items BY <1>2, Basics DEF ZeroCopySend, InHand
  <2>2. FrameSample \in Sample
    BY <2>1, Basics DEF FrameSample, Sample, RenderState
  <2>3. InFlight' \subseteq InFlight \cup {FrameSample} /\ loans' = loans \ {FrameSample.slot}
    BY <1>2, <2>2, InFlightSend, Basics, RingOverflowType DEF ZeroCopySend, Send
  <2>4. pixels'[FrameSample.slot] = FrameSample.item
    BY <1>2 DEF ZeroCopySend, FrameSample, FrameInv, RenderHolds
  <2>5. FrameSample.slot \in loans
    BY <2>1, Basics DEF FrameSample
  <2> QED BY <2>2, <2>3, <2>4, <2>5 DEF Sends
<1>3. CASE CopySend
  <2>1. render.slot \in InHand /\ render.item \in Items BY <1>3, Basics DEF CopySend, InHand
  <2>2. FrameSample \in Sample
    BY <2>1, Basics DEF FrameSample, Sample, RenderState
  <2>3. InFlight' \subseteq InFlight \cup {FrameSample} /\ loans' = loans \ {FrameSample.slot}
    BY <1>3, <2>2, InFlightSend, Basics, RingOverflowType DEF CopySend, Send
  <2>4. Content(render.item) = render.item
    BY <1>3, <2>1 DEF CopySend, Content, FrameInv, RenderHolds, Copying
  <2>5. pixels'[FrameSample.slot] = FrameSample.item
    BY <1>3, <2>1, <2>4, Basics DEF CopySend, FrameSample
  <2>6. FrameSample.slot \in loans
    BY <2>1, Basics DEF FrameSample
  <2> QED BY <2>2, <2>3, <2>5, <2>6 DEF Sends
<1>4. CASE EosSend
  <2> DEFINE sm == [slot |-> render.slot, item |-> render.item, caps |-> 0, eos |-> TRUE]
  <2>1. render.slot \in InHand /\ render.item \in Items BY <1>4, Basics DEF EosSend, InHand
  <2>2. sm \in Sample
    BY <2>1, Basics, Bounds DEF Sample
  <2>3. Send(sm, RingOverflow) /\ borrowed' = borrowed
    BY <1>4 DEF EosSend
  <2>4. sm.slot \in loans /\ sm.eos BY <2>1, Basics
  <2> HIDE DEF sm
  <2>5. InFlight' \subseteq InFlight \cup {sm} /\ loans' = loans \ {sm.slot}
    BY <2>2, <2>3, InFlightSend, Basics, RingOverflowType DEF Send
  <2> QED BY <2>2, <2>4, <2>5 DEF Sends
<1>5. CASE UNCHANGED <<ring, borrowed>> /\ loans' \subseteq loans
  BY <1>5, InFlightSame DEF GivesBack
<1>6. CASE /\ UNCHANGED <<ring, borrowed>>
           /\ \E x \in Free(session) : Loan(x)
  <2>1. \E x \in Slots \ InFlightSlots : loans' = loans \cup {x}
    BY <1>6 DEF Free, Loan
  <2> QED BY <1>6, <2>1, InFlightSame DEF Loans
<1>7. CASE FlushItem \/ SetCaps \/ PublishEos \/ EosSend \/ EosNotify
  BY <1>1, <1>4, <1>5, <1>6, <1>7 DEF FlushItem, SetCaps, PublishEos, EosNotify
<1>8. CASE Render
  BY <1>1, <1>2, <1>3, <1>5, <1>6, <1>8 DEF Render, RenderBegin, AwaitConnection,
     AwaitFlushing, RenderRefused, TakeLoan, ZeroCopyNotify, CopyStart, CopyLoan,
     CopyLoanFails, CopyNotify, SendFails, NotifyFails
<1> QED BY <1>7, <1>8 DEF Streaming

LEMMA ServiceStep == FrameInv /\ Next => GivesBack \/ Loans \/ Sends
<1> SUFFICES ASSUME FrameInv, Next PROVE GivesBack \/ Loans \/ Sends
  OBVIOUS
<1>1. CASE UNCHANGED shmVars
  BY <1>1, InFlightSame DEF shmVars, GivesBack
<1>2. CASE AllocBuffer
  <2>1. UNCHANGED <<ring, borrowed>> BY <1>2 DEF AllocBuffer
  <2>2. \E x \in Slots \ InFlightSlots : loans' = loans \cup {x}
    BY <1>2 DEF AllocBuffer, Free, Loan
  <2> QED BY <2>1, <2>2, InFlightSame DEF Loans
<1>3. CASE Drop
  <2>1. UNCHANGED <<ring, borrowed>> /\ loans' \subseteq loans
    BY <1>3 DEF Drop, HandleDrop
  <2> QED BY <2>1, InFlightSame DEF GivesBack
<1>4. CASE Consumer
  <2>1. loans' = loans
    BY <1>4 DEF Consumer, Subscriber, Attach, Detach, Receive, Release, Park, Wake,
       WaitTimeout
  <2> QED BY <1>4, <2>1, InFlightSubscriber, Basics DEF Consumer, GivesBack
<1>5. CASE Application
  BY <1>1, <1>5 DEF Application, Start, Stop, Unlock, UnlockStop, FlushStop
<1>6. CASE Upstream
  BY <1>1, <1>2, <1>6 DEF Upstream, PushCaps, PushEos, PushSystem, Produce,
     ProposeAllocation, AcquireBegin, AllocFails, FillAndPush
<1> QED BY <1>3, <1>4, <1>5, <1>6, StreamingService DEF Next

\* No step loans memory a subscriber may read, nor changes what it reads.
LEMMA FrameStep == FrameInv /\ Next => LoansUnread' /\ FrameIntact'
<1> SUFFICES ASSUME FrameInv, Next PROVE LoansUnread' /\ FrameIntact'
  OBVIOUS
<1>1. /\ LoansUnread /\ FrameIntact
      /\ \A sm \in InFlight : sm.slot \in InFlightSlots /\ sm.slot \notin loans
      /\ \A sm \in InFlight : ~sm.eos => pixels'[sm.slot] = sm.item
  BY PixelWrites DEF FrameInv, LoansUnread, FrameIntact, InFlightSlots
<1>2. CASE GivesBack
  BY <1>1, <1>2 DEF GivesBack, LoansUnread, FrameIntact, InFlightSlots
<1>3. CASE Loans
  BY <1>1, <1>3 DEF Loans, LoansUnread, FrameIntact, InFlightSlots
<1>4. CASE Sends
  BY <1>1, <1>4 DEF Sends, LoansUnread, FrameIntact, InFlightSlots
<1> QED BY <1>2, <1>3, <1>4, ServiceStep

----------------------------------------------------------------------------
\* The life of a buffer: it keeps its slot and only moves forward.
Advances(i) ==
  /\ buf'[i].slot = buf[i].slot
  /\ buf'[i].st = "own" => buf[i].st = "own"
  /\ Pooled(i) => /\ buf'[i].st \notin {"none", "gone"}
                  /\ buf'[i].st = "queued" => buf[i].st \in {"own", "queued"}
                  /\ buf'[i].st = "render" => buf[i].st \in {"queued", "render"}
                  /\ buf[i].st = "own" /\ buf'[i].st = "queued" => pixels'[buf[i].slot] = i

LEMMA DoneAdvances ==
  ASSUME FrameInv, NEW i \in Items, buf' = Done(i)
  PROVE  \A j \in Items : Advances(j)
<1>1. /\ \A j \in Items : buf'[j].slot = buf[j].slot /\ (j # i => buf'[j] = buf[j])
      /\ buf'[i].st \in {"gone", "sent", "held"}
      /\ Pooled(i) => buf'[i].st # "gone"
  BY Basics, DoneType
<1>2. \A j \in Items : Pooled(j) => buf[j].st \notin {"none", "gone"}
  BY DEF FrameInv, OneHandle
<1> QED BY <1>1, <1>2 DEF Advances

\* The buffer at the head of the input is queued.
LEMMA HeadQueued ==
  ASSUME FrameInv, input # <<>>
  PROVE  /\ Head(input).item \in Items /\ Head(input) = input[1] /\ 1 \in 1..Len(input)
         /\ Head(input).kind = "buffer" => buf[Head(input).item].st = "queued"
<1>1. Head(input).item \in Items
  BY HeadItem, Basics
<1>2. Head(input) = input[1] /\ 1 \in 1..Len(input)
  BY Basics
<1> QED BY <1>1, <1>2 DEF FrameInv, InputOrder

\* Only the allocation and the drop of a handle do anything else.
LEMMA Lifecycle ==
  ASSUME FrameInv, Next, ~AllocBuffer, ~Drop
  PROVE  \A j \in Items : Advances(j)
<1>1. CASE UNCHANGED buf
  BY <1>1 DEF Advances, FrameInv, OneHandle
<1>2. ASSUME render.pc # "idle", buf' = Done(render.item)
      PROVE  \A j \in Items : Advances(j)
  BY <1>2, Basics, DoneAdvances
<1>3. CASE RenderBegin
  <2>1. /\ Head(input).item \in Items /\ buf[Head(input).item].st = "queued"
        /\ buf' = [buf EXCEPT ![Head(input).item].st = "render"]
    BY <1>3, HeadQueued DEF RenderBegin, Take
  <2> QED BY <2>1, Basics DEF Advances, Buffer, FrameInv, OneHandle
<1>4. CASE FlushItem
  BY <1>1, <1>4, HeadQueued, DoneAdvances DEF FlushItem
<1>5. CASE TakeLoan
  <2>1. /\ render.item \in Items
        /\ buf' = [buf EXCEPT ![render.item].st = "taken"]
    BY <1>5, Basics DEF TakeLoan
  <2> QED BY <2>1, Basics DEF Advances, Buffer, FrameInv, OneHandle
<1>6. CASE PushSystem
  <2>1. /\ next \in Items
        /\ buf' = [buf EXCEPT ![next] = [st |-> "queued", slot |-> NoSlot, caps |-> upcaps]]
    BY <1>6 DEF PushSystem, Produce
  <2>2. ~Pooled(next)
    BY <2>1, Basics DEF FrameInv, LoanInv, Fresh
  <2> QED BY <2>1, <2>2, Basics DEF Advances, Pooled, FrameInv, OneHandle
<1>7. ASSUME NEW i \in Items, FillAndPush(i)
      PROVE  \A j \in Items : Advances(j)
  <2>1. /\ buf[i].st = "own"
        /\ buf' = [buf EXCEPT ![i].st = "queued", ![i].caps = upcaps]
        /\ pixels' = [pixels EXCEPT ![buf[i].slot] = i]
    BY <1>7 DEF FillAndPush, Owned
  <2>2. buf[i].slot \in Slots
    BY <2>1, Basics DEF FrameInv, HandleNamesLoan
  <2>3. pixels'[buf[i].slot] = i
    BY <2>1, <2>2, Basics
  <2> QED BY <2>1, <2>3, Basics DEF Advances, Buffer, FrameInv, OneHandle
<1>8. CASE Application \/ Consumer
  BY <1>1, <1>8 DEF Application, Start, Stop, Unlock, UnlockStop, FlushStop, Consumer
<1>9. CASE Upstream
  BY <1>1, <1>6, <1>7, <1>9 DEF Upstream, PushCaps, PushEos, ProposeAllocation,
     AcquireBegin, AllocFails
<1>10. CASE Render
  BY <1>1, <1>2, <1>3, <1>5, <1>10 DEF Render, AwaitConnection, AwaitFlushing,
     RenderRefused, Return, ZeroCopySend, ZeroCopyNotify, CopyStart, CopyLoan,
     CopyLoanFails, CopySend, CopyNotify, SendFails, NotifyFails
<1>11. CASE Streaming
  BY <1>1, <1>4, <1>10, <1>11 DEF Streaming, SetCaps, PublishEos, EosSend, EosNotify
<1> QED BY <1>8, <1>9, <1>11 DEF Next

\* A new handle: no buffer had one.
LEMMA AllocHandle ==
  ASSUME FrameInv, AllocBuffer
  PROVE  \E x \in Slots \ (loans \cup InFlightSlots) :
           /\ registry' = registry \cup {x} /\ x # NoSlot
           /\ next \in Items /\ next' = next + 1 /\ acq' = 0
           /\ \A j \in Items : j # next => buf'[j] = buf[j] /\ ~Pooled(j)
           /\ buf'[next].slot = x /\ buf'[next].st = "own"
           /\ pixels' = [pixels EXCEPT ![x] = 0]
<1>1. PICK x \in Free(acq) :
         /\ registry' = registry \cup {x}
         /\ buf' = [buf EXCEPT ![next] = [st |-> "own", slot |-> x, caps |-> 0]]
         /\ pixels' = [pixels EXCEPT ![x] = 0]
  BY DEF AllocBuffer
<1>2. x \in Slots \ (loans \cup InFlightSlots) /\ x # NoSlot
  BY <1>1, Bounds DEF Free, Slots, Sessions, NoSlot
<1>3. acq # 0 /\ next \in Items /\ next' = next + 1 /\ acq' = 0
  BY Basics DEF AllocBuffer, TypeOK, UpstreamTypeOK
<1>4. \A j \in Items : ~Pooled(j)
  BY <1>3 DEF FrameInv, OneHandle
<1> QED BY <1>1, <1>2, <1>3, <1>4, Basics

\* A dropped handle: no buffer has one.
LEMMA DropHandle ==
  ASSUME FrameInv, Drop
  PROVE  \E i \in Items :
           /\ buf[i].st \in {"own", "sent", "held"}
           /\ buf'[i].st = "gone" /\ buf'[i].slot = NoSlot
           /\ \A j \in Items : j # i => buf'[j] = buf[j] /\ ~Pooled(j)
           /\ registry' \subseteq registry
           /\ UNCHANGED <<render, next, acq, input, pixels>>
<1>1. PICK i \in Items : HandleDrop(i) BY DEF Drop
<1>2. Pooled(i) BY <1>1 DEF HandleDrop, Live
<1>3. \A j \in Items : j # i => ~Pooled(j)
  BY <1>2 DEF FrameInv, OneHandle
<1>4. /\ buf[i].st \in {"own", "sent", "held"} /\ registry' \subseteq registry
      /\ UNCHANGED <<render, next, acq, input, pixels>>
  BY <1>1 DEF HandleDrop, streamVars, upVars, histVars
<1>5. /\ buf'[i].st = "gone" /\ buf'[i].slot = NoSlot
      /\ \A j \in Items : j # i => buf'[j] = buf[j]
  BY <1>1, Basics DEF HandleDrop, Buffer
<1> QED BY <1>3, <1>4, <1>5

LEMMA OneHandleStep == MaxLive <= 1 /\ FrameInv /\ Next => OneHandle'
<1> SUFFICES ASSUME MaxLive <= 1, FrameInv, Next PROVE OneHandle'
  OBVIOUS
<1>1. CASE AllocBuffer
  BY <1>1, AllocHandle DEF OneHandle, Pooled
<1>2. CASE Drop
  <2>1. PICK i \in Items :
          /\ buf'[i].slot = NoSlot /\ acq' = acq
          /\ \A j \in Items : j # i => buf'[j] = buf[j] /\ ~Pooled(j)
    BY <1>2, DropHandle
  <2> QED BY <2>1 DEF OneHandle, Pooled
<1>3. CASE ~AllocBuffer /\ ~Drop
  <2>1. \A i \in Items : Advances(i)
    BY <1>3, Lifecycle
  <2>2. acq' # 0 => acq # 0 \/ AcquireBegin
    BY <1>3 DEF Next, Application, Start, Stop, Unlock, UnlockStop, FlushStop, Streaming,
       Render, RenderBegin, AwaitConnection, AwaitFlushing, RenderRefused, TakeLoan,
       ZeroCopySend, ZeroCopyNotify, CopyStart, CopyLoan, CopyLoanFails, CopySend,
       CopyNotify, SendFails, NotifyFails, FlushItem, SetCaps, PublishEos, EosSend,
       EosNotify, Upstream, PushCaps, PushEos, PushSystem, Produce, ProposeAllocation,
       AllocFails, FillAndPush, Consumer, RenderFrame, upVars
  <2>3. AcquireBegin => \A i \in Items : ~Pooled(i)
    <3> SUFFICES ASSUME AcquireBegin PROVE LiveBuffers = {}
      BY DEF LiveBuffers, Live, FrameInv, OneHandle
    <3>1. IsFiniteSet(LiveBuffers)
      <4>1. IsFiniteSet(Items) BY Bounds, FS_Interval DEF Items
      <4> QED BY <4>1, FS_Subset DEF LiveBuffers
    <3>2. Cardinality(LiveBuffers) < 1
      BY SinkAssumption, FS_CardinalityType, <3>1 DEF SinkAssumption, AcquireBegin
    <3> QED BY <3>1, <3>2, FS_CardinalityType, FS_EmptySet
  <2>4. acq' # 0 => \A i \in Items : ~Pooled(i)
    BY <2>2, <2>3 DEF FrameInv, OneHandle
  <2> QED BY <2>1, <2>4 DEF FrameInv, OneHandle, Advances, Pooled
<1> QED BY <1>1, <1>2, <1>3

LEMMA HandleNamesStep == FrameInv /\ Next => HandleNamesLoan'
<1> SUFFICES ASSUME FrameInv, Next PROVE HandleNamesLoan'
  OBVIOUS
<1>1. CASE AllocBuffer
  BY <1>1, AllocHandle DEF HandleNamesLoan, Pooled, FrameInv
<1>2. CASE Drop
  <2>1. PICK i \in Items :
           /\ buf'[i].st = "gone"
           /\ \A j \in Items : j # i => buf'[j] = buf[j] /\ ~Pooled(j)
    BY <1>2, DropHandle
  <2> QED BY <2>1 DEF FrameInv, HandleNamesLoan, Pooled
<1>3. CASE TakeLoan
  <2>1. render.item \in Items /\ registry' = registry \ {buf[render.item].slot}
    BY <1>3, Basics DEF TakeLoan
  <2>2. buf'[render.item].st = "taken"
    BY <1>3, <2>1, Basics DEF TakeLoan, Buffer
  <2>3. \A j \in Items : Advances(j)
    <3>1. ~AllocBuffer /\ ~Drop
      <4>1. render' # render
        BY <1>3, Basics DEF TakeLoan, RenderState
      <4> QED BY <4>1 DEF AllocBuffer, Drop, HandleDrop, streamVars
    <3> QED BY <3>1, Lifecycle
  <2> QED BY <2>1, <2>2, <2>3 DEF Advances, FrameInv, HandleNamesLoan, OneHandle, Pooled
<1>4. CASE ~AllocBuffer /\ ~Drop /\ ~TakeLoan
  <2>1. \A i \in Items : Advances(i)
    BY <1>4, Lifecycle
  <2>2. registry' = registry
    BY <1>4 DEF Next, Application, Start, Stop, Unlock, UnlockStop, FlushStop, Streaming,
       Render, RenderBegin, AwaitConnection, AwaitFlushing, RenderRefused,
       ZeroCopySend, ZeroCopyNotify, CopyStart, CopyLoan, CopyLoanFails, CopySend,
       CopyNotify, SendFails, NotifyFails, FlushItem, SetCaps, PublishEos, EosSend,
       EosNotify, Upstream, PushCaps, PushEos, PushSystem, Produce, ProposeAllocation,
       AcquireBegin, AllocFails, FillAndPush, Consumer, elementVars
  <2> QED BY <2>1, <2>2 DEF Advances, FrameInv, HandleNamesLoan, Pooled
<1> QED BY <1>1, <1>2, <1>3, <1>4

----------------------------------------------------------------------------
\* The input.

\* Nothing but the step that takes a buffer out of the input disturbs a queued
\* one, and no item still to come gets a buffer.
KeepsQueue ==
  /\ next' >= next
  /\ \A i \in Items : /\ buf[i].st = "queued" => buf'[i].st = "queued"
                      /\ i >= next' => buf'[i].st = buf[i].st

LEMMA InputItems ==
  ASSUME NEW q \in Seq(Pushed), NEW k \in 1..Len(q)
  PROVE  q[k] \in Pushed /\ q[k].item \in Items
<1>1. q[k] \in Pushed OBVIOUS
<1> QED BY <1>1 DEF Pushed

LEMMA SameInput ==
  ASSUME FrameInv, next' \in Nat, KeepsQueue, input' = input
  PROVE  InputOrder'
<1>1. \A i \in Items : i >= next' => i >= next
  BY Basics DEF KeepsQueue, Items
<1>2. \A k \in 1..Len(input) : input[k].item \in Items
  BY Basics, InputItems
<1> QED BY <1>1, <1>2 DEF FrameInv, InputOrder, KeepsQueue

\* Taking the head of the input, and with it its buffer if it is one.
LEMMA TailInput ==
  ASSUME FrameInv, input # <<>>, input' = Tail(input), next' = next,
         \A i \in Items :
           ~(Head(input).kind = "buffer" /\ i = Head(input).item) => buf'[i].st = buf[i].st
  PROVE  InputOrder'
<1>1. /\ Head(input).item \in Items /\ Head(input) = input[1] /\ 1 \in 1..Len(input)
      /\ Head(input).kind = "buffer" => buf[Head(input).item].st = "queued"
  BY HeadQueued
<1>2. \A i \in Items : i >= next => buf'[i].st = "none"
  BY <1>1 DEF FrameInv, InputOrder
<1>3. \A k \in 1..Len(input') : k + 1 \in 1..Len(input) /\ input'[k] = input[k + 1]
                               /\ input[k + 1].item \in Items
  <2>1. input \in Seq(Pushed) BY Basics
  <2>2. \A k \in 1..Len(input') : k + 1 \in 1..Len(input) /\ input'[k] = input[k + 1]
    BY <2>1
  <2> QED BY <2>1, <2>2, InputItems
<1>4. ASSUME NEW k \in 1..Len(input'), input'[k].kind = "buffer"
      PROVE  /\ buf'[input'[k].item].st = "queued"
             /\ \A l \in 1..Len(input') :
                  input'[l].kind = "buffer" /\ input'[l].item = input'[k].item => l = k
  <2>1. /\ buf[input[k + 1].item].st = "queued" /\ input[k + 1].item \in Items
        /\ \A l \in 1..Len(input) :
             input[l].kind = "buffer" /\ input[l].item = input[k + 1].item => l = k + 1
    BY <1>3, <1>4 DEF FrameInv, InputOrder
  <2>2. ~(Head(input).kind = "buffer" /\ input[k + 1].item = Head(input).item)
    BY <1>1, <2>1, <1>4
  <2>3. buf'[input'[k].item].st = "queued"
    BY <1>3, <2>1, <2>2
  <2>4. ASSUME NEW l \in 1..Len(input'), input'[l].kind = "buffer",
               input'[l].item = input'[k].item
        PROVE  l = k
    <3>1. l + 1 = k + 1 BY <1>3, <2>1, <2>4
    <3>2. l \in Int /\ k \in Int OBVIOUS
    <3> QED BY <3>1, <3>2
  <2> QED BY <2>3, <2>4
<1> QED BY <1>2, <1>4 DEF InputOrder

\* Pushing an item, its buffer newly queued if it is one.
LEMMA AppendInput ==
  ASSUME FrameInv, next' \in Nat, KeepsQueue, NEW e \in Pushed, input' = Append(input, e),
         e.kind = "buffer" => buf[e.item].st # "queued" /\ buf'[e.item].st = "queued"
  PROVE  InputOrder'
<1>1. \A i \in Items : i >= next' => i >= next
  BY Basics DEF KeepsQueue, Items
<1>2. /\ Len(input') = Len(input) + 1 /\ Len(input) \in Nat /\ input'[Len(input')] = e
      /\ \A k \in 1..Len(input') : k = Len(input') \/ (k \in 1..Len(input) /\ input'[k] = input[k])
      /\ \A k \in 1..Len(input) : input[k].item \in Items
  BY Basics, InputItems
<1>3. e.item \in Items BY DEF Pushed
<1>4. \A i \in Items : i >= next' => buf'[i].st = "none"
  BY <1>1 DEF FrameInv, InputOrder, KeepsQueue
<1>5. \A k \in 1..Len(input) : input[k].kind = "buffer" =>
        /\ buf[input[k].item].st = "queued" /\ buf'[input[k].item].st = "queued"
        /\ e.kind = "buffer" => input[k].item # e.item
        /\ \A l \in 1..Len(input) :
             input[l].kind = "buffer" /\ input[l].item = input[k].item => l = k
  BY <1>2, <1>3 DEF FrameInv, InputOrder, KeepsQueue
<1>6. ASSUME NEW k \in 1..Len(input'), input'[k].kind = "buffer"
      PROVE  buf'[input'[k].item].st = "queued"
  BY <1>2, <1>5, <1>6
<1>7. ASSUME NEW k \in 1..Len(input'), NEW l \in 1..Len(input'),
             input'[k].kind = "buffer", input'[l].kind = "buffer",
             input'[l].item = input'[k].item
      PROVE  l = k
  BY <1>2, <1>5, <1>7
<1> QED BY <1>4, <1>6, <1>7 DEF InputOrder

\* The sticky caps of a start or of the end of a flush.
LEMMA StickyInput ==
  ASSUME FrameInv, input' = StickyCaps, UNCHANGED <<buf, next>>
  PROVE  InputOrder'
  BY DEF StickyCaps, FrameInv, InputOrder

LEMMA InputStep == FrameInv /\ Next => InputOrder'
<1> SUFFICES ASSUME FrameInv, Next PROVE InputOrder'
  OBVIOUS
<1>1. CASE UNCHANGED <<buf, next, input>>
  <2>1. KeepsQueue /\ next' \in Nat
    BY <1>1, Basics DEF KeepsQueue, Items
  <2> QED BY <1>1, <2>1, SameInput
<1>2. ASSUME render.pc \notin {"idle", "esend", "enotify"}, buf' = Done(render.item),
             UNCHANGED <<input, next>>
      PROVE  InputOrder'
  <2>1. /\ render.item \in Items /\ next' \in Nat
        /\ buf[render.item].st \in {"render", "taken"}
    BY <1>2, Basics DEF FrameInv, RenderHolds, Copying, RenderState, RenderPcs
  <2>2. \A i \in Items : i # render.item => buf'[i] = buf[i]
    BY <1>2, <2>1, Basics, DoneType
  <2>3. render.item < next
    <3>1. ~(render.item >= next)
      BY <2>1 DEF FrameInv, InputOrder
    <3> QED BY <2>1, <3>1, Basics DEF Items
  <2>4. KeepsQueue
    BY <1>2, <2>1, <2>2, <2>3, Basics DEF KeepsQueue, Items
  <2> QED BY <1>2, <2>1, <2>4, SameInput
<1>3. CASE Start \/ FlushStop
  BY <1>3, StickyInput DEF Start, FlushStop
<1>4. CASE Stop \/ Unlock \/ UnlockStop
  BY <1>1, <1>4 DEF Stop, Unlock, UnlockStop, upVars
<1>5. CASE Consumer
  BY <1>1, <1>5 DEF Consumer, upVars
<1>6. CASE Drop
  <2>1. PICK i \in Items :
           /\ buf[i].st \in {"own", "sent", "held"} /\ buf'[i].st = "gone"
           /\ \A j \in Items : j # i => buf'[j] = buf[j]
           /\ UNCHANGED <<next, input>>
    BY <1>6, DropHandle
  <2>2. i < next
    BY <2>1, Basics DEF FrameInv, InputOrder, Items
  <2>3. KeepsQueue
    BY <2>1, <2>2, Basics DEF KeepsQueue, Items
  <2> QED BY <2>1, <2>3, Basics, SameInput
<1>7. CASE AllocBuffer
  <2>1. /\ next \in Items /\ next' = next + 1
        /\ \A j \in Items : j # next => buf'[j] = buf[j]
    BY <1>7, AllocHandle
  <2>2. buf[next].st = "none"
    BY <2>1, Basics DEF FrameInv, InputOrder
  <2>3. KeepsQueue
    BY <2>1, <2>2, Basics DEF KeepsQueue, Items
  <2>4. input' = input
    BY <1>7 DEF AllocBuffer
  <2> QED BY <2>1, <2>3, <2>4, Basics, SameInput
<1>8. CASE PushCaps \/ PushEos
  <2>1. PICK kind \in {"caps", "eos"} :
          input' = Append(input, [kind |-> kind, item |-> next])
    BY <1>8 DEF PushCaps, PushEos, Push
  <2>2. next \in Items /\ next' = next + 1 /\ buf' = buf
    BY <1>8 DEF PushCaps, PushEos, Produce
  <2>3. KeepsQueue /\ next' \in Nat
    BY <2>2, Basics DEF KeepsQueue, Items
  <2>4. /\ [kind |-> kind, item |-> next] \in Pushed
        /\ [kind |-> kind, item |-> next].kind # "buffer"
    BY <2>2 DEF Pushed
  <2> QED BY <2>1, <2>3, <2>4, AppendInput
<1>9. CASE PushSystem
  <2>1. /\ input' = Append(input, [kind |-> "buffer", item |-> next])
        /\ next \in Items /\ next' = next + 1
        /\ buf' = [buf EXCEPT ![next] = [st |-> "queued", slot |-> NoSlot, caps |-> upcaps]]
    BY <1>9 DEF PushSystem, Push, Produce
  <2>2. buf[next].st = "none"
    BY <2>1, Basics DEF FrameInv, InputOrder
  <2>3. buf'[next].st = "queued" /\ \A j \in Items : j # next => buf'[j] = buf[j]
    BY <2>1, Basics
  <2>4. KeepsQueue /\ next' \in Nat
    BY <2>1, <2>2, <2>3, Basics DEF KeepsQueue, Items
  <2>5. [kind |-> "buffer", item |-> next] \in Pushed
    BY <2>1 DEF Pushed
  <2> QED BY <2>1, <2>2, <2>3, <2>4, <2>5, AppendInput
<1>10. ASSUME NEW i \in Items, FillAndPush(i) PROVE InputOrder'
  <2>1. /\ input' = Append(input, [kind |-> "buffer", item |-> i])
        /\ buf[i].st = "own" /\ next' = next
        /\ buf' = [buf EXCEPT ![i].st = "queued", ![i].caps = upcaps]
    BY <1>10 DEF FillAndPush, Push, Owned, upVars
  <2>2. buf'[i].st = "queued" /\ \A j \in Items : j # i => buf'[j] = buf[j]
    BY <2>1, Basics DEF Buffer
  <2>3. i < next
    BY <2>1, Basics DEF FrameInv, InputOrder, Items
  <2>4. KeepsQueue /\ next' \in Nat
    BY <2>1, <2>2, <2>3, Basics DEF KeepsQueue, Items
  <2>5. [kind |-> "buffer", item |-> i] \in Pushed
    BY DEF Pushed
  <2> QED BY <2>1, <2>2, <2>4, <2>5, AppendInput
<1>11. CASE ProposeAllocation \/ AcquireBegin \/ AllocFails
  BY <1>1, <1>11 DEF ProposeAllocation, AcquireBegin, AllocFails
<1>12. CASE FlushItem
  <2>1. /\ input # <<>> /\ input' = Tail(input) /\ next' = next
        /\ buf' = IF Head(input).kind = "buffer" THEN Done(Head(input).item) ELSE buf
    BY <1>12 DEF FlushItem, upVars
  <2>2. Head(input).item \in Items
    BY <2>1, HeadQueued
  <2>3. \A i \in Items :
          ~(Head(input).kind = "buffer" /\ i = Head(input).item) => buf'[i] = buf[i]
    BY <2>1, <2>2, Basics, DoneType
  <2> QED BY <2>1, <2>3, TailInput
<1>13. CASE RenderBegin
  <2>1. /\ input # <<>> /\ input' = Tail(input) /\ next' = next
        /\ Head(input).kind = "buffer"
        /\ buf' = [buf EXCEPT ![Head(input).item].st = "render"]
    BY <1>13 DEF RenderBegin, Take, upVars
  <2>2. \A i \in Items : i # Head(input).item => buf'[i] = buf[i]
    BY <2>1, Basics
  <2> QED BY <2>1, <2>2, TailInput
<1>14. CASE SetCaps \/ PublishEos
  <2>1. input # <<>> /\ input' = Tail(input) /\ next' = next /\ buf' = buf
    BY <1>14 DEF SetCaps, PublishEos, Take, upVars
  <2> QED BY <2>1, TailInput
<1>15. CASE TakeLoan
  <2>1. /\ render.item \in Items /\ UNCHANGED <<input, next>>
        /\ buf[render.item].st = "render"
        /\ buf' = [buf EXCEPT ![render.item].st = "taken"]
    BY <1>15, Basics DEF TakeLoan, RenderFrame, upVars, FrameInv, RenderHolds, Copying
  <2>2. \A i \in Items : i # render.item => buf'[i] = buf[i]
    BY <2>1, Basics
  <2>3. render.item < next
    BY <2>1, Basics DEF FrameInv, InputOrder, Items
  <2>4. KeepsQueue
    BY <2>1, <2>2, <2>3, Basics DEF KeepsQueue, Items
  <2> QED BY <2>1, <2>4, Basics, SameInput
<1>16. CASE Render
  BY <1>1, <1>2, <1>13, <1>15, <1>16 DEF Render, AwaitConnection, AwaitFlushing,
     RenderRefused, Return, ZeroCopySend, ZeroCopyNotify, CopyStart, CopyLoan,
     CopyLoanFails, CopySend, CopyNotify, SendFails, NotifyFails, RenderFrame, upVars
<1>17. CASE EosSend \/ EosNotify
  BY <1>1, <1>17 DEF EosSend, EosNotify, upVars
<1> QED
  BY <1>3, <1>4, <1>5, <1>6, <1>7, <1>8, <1>9, <1>10, <1>11, <1>12, <1>14, <1>16, <1>17
     DEF Next, Application, Streaming, Upstream

----------------------------------------------------------------------------
\* The frame the streaming thread holds.

\* A loan that waits in the registry, or whose send is next, keeps its pixels
\* while the upstream does not fill it.
LEMMA LoanPixels ==
  ASSUME FrameInv, Next, \A i \in Items : ~FillAndPush(i)
  PROVE  /\ \A x \in registry : pixels'[x] = pixels[x]
         /\ render.pc = "zsend" => pixels'[render.slot] = pixels[render.slot]
<1>1. render.pc = "zsend" => InHand = {render.slot}
  BY DEF InHand
<1>2. CASE AllocBuffer
  BY <1>1, <1>2, AllocHandle, Basics
<1>3. CASE CopySend
  <2>1. render.pc = "csend" /\ InHand = {render.slot} /\ pixels' = [pixels EXCEPT ![render.slot] = Content(render.item)]
    BY <1>3 DEF CopySend, InHand
  <2> QED BY <2>1, Basics
<1>4. CASE UNCHANGED pixels
  BY <1>4
<1>5. CASE Application \/ Drop \/ Consumer
  BY <1>4, <1>5 DEF Application, Start, Stop, Unlock, UnlockStop, FlushStop, Drop,
     HandleDrop, Consumer, histVars
<1>6. CASE Streaming
  BY <1>3, <1>4, <1>6 DEF Streaming, Render, RenderBegin, AwaitConnection,
     AwaitFlushing, RenderRefused, TakeLoan, ZeroCopySend, ZeroCopyNotify, CopyStart,
     CopyLoan, CopyLoanFails, CopyNotify, SendFails, NotifyFails, FlushItem, SetCaps,
     PublishEos, EosSend, EosNotify, histVars
<1>7. CASE Upstream
  BY <1>2, <1>4, <1>7 DEF Upstream, PushCaps, PushEos, PushSystem, Produce,
     ProposeAllocation, AcquireBegin, AllocFails, histVars
<1> QED BY <1>5, <1>6, <1>7 DEF Next

\* A buffer to be rendered holds the frame of its item.
LEMMA FilledStep ==
  FrameInv /\ Next =>
    \A i \in Items :
      buf'[i].st \in {"queued", "render"} /\ buf'[i].slot # NoSlot => pixels'[buf'[i].slot] = i
<1> SUFFICES ASSUME FrameInv, Next, NEW i \in Items,
                    buf'[i].st \in {"queued", "render"}, buf'[i].slot # NoSlot
             PROVE  pixels'[buf'[i].slot] = i
  OBVIOUS
<1>1. ~AllocBuffer
  BY AllocHandle DEF Pooled
<1>2. ~Drop
  BY DropHandle DEF Pooled
<1>3. Advances(i) /\ buf'[i].slot = buf[i].slot /\ Pooled(i)
  BY <1>1, <1>2, Lifecycle DEF Advances, Pooled
<1>4. CASE buf[i].st = "own"
  BY <1>3, <1>4 DEF Advances
<1>5. CASE buf[i].st # "own"
  <2>1. buf[i].st \in {"queued", "render"}
    BY <1>3, <1>5 DEF Advances
  <2>2. buf[i].slot \in registry /\ pixels[buf[i].slot] = i
    BY <1>3, <2>1 DEF FrameInv, HandleNamesLoan, RenderHolds
  <2>3. ASSUME NEW j \in Items, FillAndPush(j) PROVE FALSE
    <3>1. j # i /\ Pooled(j)
      BY <2>1, <2>3 DEF FillAndPush, Owned, FrameInv, HandleNamesLoan
    <3> QED BY <1>3, <3>1 DEF FrameInv, OneHandle
  <2> QED BY <1>3, <2>2, <2>3, LoanPixels
<1> QED BY <1>4, <1>5

\* Outside render nobody disturbs the buffer in it.
LEMMA OthersKeepRendered ==
  ASSUME FrameInv, Next, ~Render
  PROVE  /\ \A i \in Items : buf[i].st \in {"render", "taken"} => buf'[i].st = buf[i].st
         /\ render'.pc \in Copying \cup {"zsend", "znotify"} => render' = render
<1>1. CASE UNCHANGED <<buf, render>>
  BY <1>1
<1>2. CASE Application \/ Consumer
  BY <1>1, <1>2 DEF Application, Start, Stop, Unlock, UnlockStop, FlushStop, Consumer,
     streamVars
<1>3. CASE Drop
  BY <1>3, DropHandle
<1>4. CASE AllocBuffer
  <2>1. /\ next \in Items /\ \A j \in Items : j # next => buf'[j] = buf[j]
    BY <1>4, AllocHandle
  <2>2. buf[next].st = "none"
    BY <2>1, Basics DEF FrameInv, InputOrder
  <2> QED BY <1>4, <2>1, <2>2 DEF AllocBuffer, streamVars
<1>5. CASE PushSystem
  <2>1. /\ next \in Items /\ render' = render
        /\ buf' = [buf EXCEPT ![next] = [st |-> "queued", slot |-> NoSlot, caps |-> upcaps]]
    BY <1>5 DEF PushSystem, Produce, streamVars
  <2>2. buf[next].st = "none"
    BY <2>1, Basics DEF FrameInv, InputOrder
  <2> QED BY <2>1, <2>2, Basics
<1>6. ASSUME NEW i \in Items, FillAndPush(i)
      PROVE  /\ \A j \in Items : buf[j].st \in {"render", "taken"} => buf'[j].st = buf[j].st
             /\ render' = render
  BY <1>6, Basics DEF FillAndPush, Owned, streamVars
<1>7. CASE Upstream
  BY <1>1, <1>4, <1>5, <1>6, <1>7 DEF Upstream, PushCaps, PushEos, Produce,
     ProposeAllocation, AcquireBegin, AllocFails, streamVars
<1>8. CASE FlushItem
  <2>1. /\ input # <<>> /\ render' = render
        /\ buf' = IF Head(input).kind = "buffer" THEN Done(Head(input).item) ELSE buf
    BY <1>8 DEF FlushItem, streamVars
  <2>2. /\ Head(input).item \in Items
        /\ Head(input).kind = "buffer" => buf[Head(input).item].st = "queued"
    BY <2>1, HeadQueued
  <2> QED BY <2>1, <2>2, Basics, DoneType
<1>9. CASE SetCaps
  BY <1>1, <1>9 DEF SetCaps, streamVars
<1>10. CASE PublishEos \/ EosSend \/ EosNotify
  <2>1. buf' = buf
    BY <1>10 DEF PublishEos, EosSend, EosNotify
  <2>2. render' = render \/ render'.pc \in {"idle", "esend", "enotify"}
    <3>1. CASE PublishEos
      BY <3>1 DEF PublishEos, Idle
    <3>2. CASE EosSend
      BY <3>2, Basics DEF EosSend, RenderState
    <3>3. CASE EosNotify
      BY <3>3 DEF EosNotify, Idle
    <3> QED BY <1>10, <3>1, <3>2, <3>3
  <2> QED BY <2>1, <2>2 DEF Copying
<1> QED BY <1>2, <1>3, <1>7, <1>8, <1>9, <1>10 DEF Next, Streaming

LEMMA RenderStep == FrameInv /\ Next => RenderHolds'
<1> SUFFICES ASSUME FrameInv, Next PROVE RenderHolds'
  OBVIOUS
<1>1. SUFFICES
        /\ render'.pc \in Copying => buf'[render'.item].st = "render"
        /\ render'.pc \in {"zsend", "znotify"} => buf'[render'.item].st = "taken"
        /\ render'.pc = "zsend" => pixels'[render'.slot] = render'.item
  BY FilledStep DEF RenderHolds, Pooled
<1>2. CASE ~Render
  <2>1. /\ \A i \in Items : buf[i].st \in {"render", "taken"} => buf'[i].st = buf[i].st
        /\ render'.pc \in Copying \cup {"zsend", "znotify"} => render' = render
    BY <1>2, OthersKeepRendered
  <2>2. render.pc = "zsend" => pixels'[render.slot] = pixels[render.slot]
    <3>1. ASSUME NEW i \in Items, FillAndPush(i), render.pc = "zsend"
          PROVE  pixels'[render.slot] = pixels[render.slot]
      <4>1. buf[i].slot \in registry /\ InHand = {render.slot}
        BY <3>1 DEF FillAndPush, Owned, FrameInv, HandleNamesLoan, InHand
      <4> QED BY <3>1, <4>1, Basics DEF FillAndPush
    <3> QED BY <3>1, LoanPixels
  <2>3. render.pc \in Copying \cup {"zsend", "znotify"} => render.item \in Items
    BY Basics DEF Copying
  <2> QED BY <2>1, <2>2, <2>3 DEF FrameInv, RenderHolds, Copying
<1>3. CASE RenderBegin
  <2>1. Head(input).item \in Items
    BY <1>3, HeadQueued DEF RenderBegin, Take
  <2>2. render'.pc = "await" /\ render'.item = Head(input).item
    BY <1>3 DEF RenderBegin, Idle
  <2>3. buf'[Head(input).item].st = "render"
    BY <1>3, <2>1, Basics DEF RenderBegin, Buffer
  <2> QED BY <2>2, <2>3
<1>4. CASE \E result : Return(result)
  BY <1>4 DEF Return, Idle, Copying
<1>5. CASE TakeLoan
  <2>1. /\ render.item \in Items /\ buf[render.item].st = "render"
        /\ buf[render.item].slot \in registry /\ pixels' = pixels
    BY <1>5, Basics DEF TakeLoan, Registered, FrameInv, RenderHolds, Copying, histVars
  <2>2. /\ render'.pc = "zsend" /\ render'.item = render.item
        /\ render'.slot = buf[render.item].slot
    BY <1>5, Basics DEF TakeLoan, RenderState
  <2>3. Pooled(render.item)
    BY <2>1, Basics, Bounds DEF Pooled, Slots, Sessions, NoSlot
  <2>4. buf'[render.item].st = "taken"
    BY <1>5, <2>1, Basics DEF TakeLoan, Buffer
  <2>5. pixels[buf[render.item].slot] = render.item
    BY <2>1, <2>3 DEF FrameInv, RenderHolds
  <2> QED BY <2>1, <2>2, <2>4, <2>5 DEF Copying
<1>6. CASE AwaitConnection \/ CopyStart \/ CopyLoan \/ CopySend
  <2>1. /\ render.pc \in Copying /\ render.item \in Items /\ buf' = buf
        /\ render'.pc \in Copying /\ render'.item = render.item
    BY <1>6, Basics DEF AwaitConnection, CopyStart, CopyLoan, CopySend, Copying, RenderState
  <2> QED BY <2>1 DEF FrameInv, RenderHolds, Copying
<1>7. CASE ZeroCopySend
  <2>1. /\ render.pc = "zsend" /\ buf' = buf
        /\ render'.pc = "znotify" /\ render'.item = render.item
    BY <1>7, Basics DEF ZeroCopySend, RenderState
  <2> QED BY <2>1 DEF FrameInv, RenderHolds, Copying
<1>8. CASE SendFails
  BY <1>4, <1>8 DEF SendFails, Idle, Copying
<1>9. CASE Render
  BY <1>3, <1>4, <1>5, <1>6, <1>7, <1>8, <1>9 DEF Render, AwaitFlushing, RenderRefused,
     ZeroCopyNotify, CopyLoanFails, CopyNotify, NotifyFails
<1> QED BY <1>2, <1>9

----------------------------------------------------------------------------
\* The theorems.

LEMMA FrameInit == Init => FrameInv
<1> SUFFICES ASSUME Init PROVE FrameInv
  OBVIOUS
<1>1. LoanInv
  BY TypeInit, LoanInit DEF LoanInv
<1>2. \A i \in Items : buf[i] = [st |-> "none", slot |-> NoSlot, caps |-> 0]
  BY DEF Init, NoBuffer
<1>3. InFlight = {}
  BY DEF Init, ShmInit, InFlight, Queued
<1>4. /\ acq = 0 /\ input = <<>> /\ render.pc = "idle" /\ loans = {}
  BY DEF Init, ShmInit, Idle
<1>5. OneHandle /\ HandleNamesLoan
  BY <1>2, <1>4 DEF OneHandle, HandleNamesLoan, Pooled
<1>6. InputOrder /\ RenderHolds
  BY <1>2, <1>4 DEF InputOrder, RenderHolds, Copying, Pooled
<1>7. LoansUnread /\ FrameIntact
  BY <1>3, <1>4 DEF LoansUnread, InFlightSlots, FrameIntact
<1> QED BY <1>1, <1>5, <1>6, <1>7 DEF FrameInv

LEMMA FrameInvStep == MaxLive <= 1 /\ FrameInv /\ [Next]_vars => FrameInv'
<1> SUFFICES ASSUME MaxLive <= 1, FrameInv, [Next]_vars PROVE FrameInv'
  OBVIOUS
<1>1. LoanInv'
  BY LoanStep DEF FrameInv
<1>2. CASE Next
  BY <1>1, <1>2, OneHandleStep, HandleNamesStep, InputStep, RenderStep, FrameStep
     DEF FrameInv
<1>3. CASE UNCHANGED vars
  <2>1. UNCHANGED <<loans, ring, borrowed, registry, render, input, next, acq, buf, pixels>>
    BY <1>3 DEF vars, shmVars, elementVars, streamVars, upVars, histVars
  <2>2. InFlight' = InFlight
    BY <2>1, InFlightSame
  <2>3. OneHandle' /\ HandleNamesLoan' /\ InputOrder' /\ RenderHolds'
    BY <2>1 DEF FrameInv, OneHandle, HandleNamesLoan, InputOrder, RenderHolds, Pooled
  <2>4. LoansUnread' /\ FrameIntact'
    BY <2>1, <2>2 DEF FrameInv, LoansUnread, FrameIntact, InFlightSlots
  <2> QED BY <1>1, <2>3, <2>4 DEF FrameInv
<1> QED BY <1>2, <1>3

\* With one pool buffer alive at a time, what a subscriber reads in shared
\* memory is the frame the header names, for as long as it holds the sample
\* (pool.rs:4-7): the memory is not loaned, so nobody writes to it.
THEOREM FramesStayIntact ==
  ASSUME MaxLive <= 1
  PROVE  Spec => []FrameIntact
<1>1. Init => FrameInv BY FrameInit
<1>2. FrameInv /\ [Next]_vars => FrameInv' BY FrameInvStep
<1>3. FrameInv => FrameIntact BY DEF FrameInv
<1> QED BY <1>1, <1>2, <1>3, PTL DEF Spec

LEMMA CopyStep == FrameInv /\ CopyInv /\ [Next]_vars => CopyInv'
<1> SUFFICES ASSUME FrameInv, CopyInv, [Next]_vars PROVE CopyInv'
  OBVIOUS
<1>1. session \in Nat
  BY Basics, Bounds DEF TypeOK, PipelineTypeOK
<1>2. CASE UNCHANGED vars
  BY <1>2 DEF vars, streamVars, CopyInv, PoolBufferIsZeroCopy
<1>3. CASE Start
  BY <1>1, <1>3 DEF Start, streamVars, Idle, CopyInv, PoolBufferIsZeroCopy
<1>4. CASE CopyStart
  <2>1. /\ render.item \in Items /\ buf[render.item].st = "render" /\ session # 0
        /\ ~Registered(render.item)
    BY <1>4, Basics DEF CopyStart, FrameInv, RenderHolds, Copying, CopyInv
  <2>2. buf[render.item].slot[1] # session
    <3>1. CASE Pooled(render.item)
      BY <2>1, <3>1 DEF FrameInv, HandleNamesLoan, Registered
    <3>2. CASE ~Pooled(render.item)
      BY <2>1, <3>2 DEF Pooled, NoSlot
    <3> QED BY <3>1, <3>2
  <2>3. render'.item = render.item /\ UNCHANGED <<session, buf>>
    BY <1>4, Basics DEF CopyStart, RenderFrame, RenderState
  <2> QED BY <2>1, <2>2, <2>3 DEF CopyInv, PoolBufferIsZeroCopy
<1>5. CASE CopyLoan
  <2>1. /\ render.pc = "cloan" /\ render'.item = render.item /\ UNCHANGED <<session, buf>>
    BY <1>5, Basics DEF CopyLoan, RenderFrame, RenderState
  <2> QED BY <2>1 DEF CopyInv, PoolBufferIsZeroCopy
<1>6. CASE Next /\ ~Start /\ ~CopyStart /\ ~CopyLoan
  <2>1. /\ session' = session
        /\ ctl' # "stopped" => ctl # "stopped"
        /\ render'.pc # "idle" => ctl # "stopped" \/ render.pc # "idle"
        /\ render'.pc \in {"cloan", "csend"} => render' = render
    <3>1. CASE Application \/ Consumer \/ Drop
      BY <1>6, <3>1 DEF Application, Stop, Unlock, UnlockStop, FlushStop, Consumer, Drop,
         HandleDrop, streamVars
    <3>2. CASE Upstream
      BY <3>2 DEF Upstream, PushCaps, PushEos, PushSystem, Produce, ProposeAllocation,
         AcquireBegin, AllocBuffer, AllocFails, FillAndPush, streamVars
    <3>3. CASE FlushItem \/ SetCaps
      BY <3>3 DEF FlushItem, SetCaps, streamVars
    <3>4. CASE PublishEos \/ RenderBegin
      BY <3>4 DEF PublishEos, RenderBegin, Take, Idle
    <3>5. CASE EosNotify
      BY <3>5 DEF EosNotify, Idle
    <3>6. CASE AwaitFlushing \/ RenderRefused \/ CopyLoanFails \/ SendFails \/ ZeroCopyNotify
               \/ CopyNotify \/ NotifyFails
      BY <3>6 DEF AwaitFlushing, RenderRefused, CopyLoanFails, SendFails, ZeroCopyNotify,
         CopyNotify, NotifyFails, Return, RenderFrame, Idle
    <3>7. CASE EosSend \/ AwaitConnection \/ TakeLoan \/ ZeroCopySend \/ CopySend
      <4>1. /\ render.pc # "idle" /\ render'.pc \notin {"cloan", "csend"}
            /\ UNCHANGED <<session, ctl>>
        BY <3>7, Basics DEF EosSend, AwaitConnection, TakeLoan, ZeroCopySend, CopySend,
           RenderFrame, RenderState
      <4> QED BY <4>1
    <3> QED BY <1>6, <3>1, <3>2, <3>3, <3>4, <3>5, <3>6, <3>7 DEF Next, Streaming, Render
  <2>2. ASSUME render.pc \in {"cloan", "csend"}
        PROVE  buf'[render.item].slot = buf[render.item].slot
    <3>1. render.item \in Items /\ buf[render.item].st = "render"
      BY <2>2, Basics DEF FrameInv, RenderHolds, Copying
    <3>2. CASE AllocBuffer
      <4>1. next \in Items /\ \A j \in Items : j # next => buf'[j] = buf[j]
        BY <3>2, AllocHandle
      <4>2. buf[next].st = "none"
        BY <4>1, Basics DEF FrameInv, InputOrder
      <4> QED BY <3>1, <4>1, <4>2
    <3>3. CASE Drop
      BY <3>1, <3>3, DropHandle
    <3> QED BY <1>6, <3>1, <3>2, <3>3, Lifecycle DEF Advances
  <2> QED BY <2>1, <2>2 DEF CopyInv, PoolBufferIsZeroCopy
<1> QED BY <1>2, <1>3, <1>4, <1>5, <1>6

\* With one pool buffer alive at a time, a buffer of the session's own pool is
\* sent without a copy (pool.rs:9-13).
THEOREM PoolNeverCopied ==
  ASSUME MaxLive <= 1
  PROVE  Spec => []PoolBufferIsZeroCopy
<1>1. Init => FrameInv /\ CopyInv
  BY FrameInit DEF Init, Idle, CopyInv, PoolBufferIsZeroCopy
<1>2. FrameInv /\ CopyInv /\ [Next]_vars => (FrameInv /\ CopyInv)'
  BY FrameInvStep, CopyStep
<1>3. CopyInv => PoolBufferIsZeroCopy BY DEF CopyInv
<1> QED BY <1>1, <1>2, <1>3, PTL DEF Spec
=============================================================================
