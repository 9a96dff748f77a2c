------------------------- MODULE SinkChannelProofs -------------------------
(***************************************************************************)
(* Sink implements FrameChannel, for every value of the constants with at  *)
(* most one pool buffer alive.  On the way: HeaderDescribesFrame, whatever *)
(* the number of live buffers.                                             *)
(***************************************************************************)
EXTENDS SinkChannel, SinkFrameProofs, SequenceTheorems

\* A buffer that was pushed.
Filled(i)     == buf[i].st \notin {"none", "own"}
FilledNext(i) == buf'[i].st \notin {"none", "own"}

\* Where the streaming thread has a buffer, and where an item not yet sent.
Holding == {"await", "take", "zsend", "znotify", "cloan", "csend", "cnotify"}
Unsent  == {"await", "take", "zsend", "cloan", "csend", "esend"}
Stamped == {"zsend", "cloan", "csend"}

\* Items still to come have no buffer, a buffer has no caps before it is pushed,
\* and what is in the input or in render was pushed.
Buffers ==
  /\ \A i \in Items : i >= next => buf[i].st = "none"
  /\ \A i \in Items : ~Filled(i) => buf[i].caps = 0
  /\ \A k \in 1..Len(input) : input[k].kind = "buffer" => Filled(input[k].item)
  /\ render.pc \in Holding => Filled(render.item)

BufInv == TypeOK /\ Buffers

LEMMA BufBasics ==
  ASSUME BufInv
  PROVE  /\ TypeOK /\ buf \in [Items -> Buffer] /\ render \in RenderState
         /\ render.pc # "idle" => render.item \in Items
         /\ next \in Nat /\ input \in Seq(Pushed) /\ upcaps \in 0..MaxItems
         /\ caps \in 0..MaxItems
         /\ \A i \in Items : buf[i] \in Buffer
         /\ \A k \in 1..Len(input) : input[k] \in Pushed /\ input[k].item \in Items
<1>1. input \in Seq(Pushed)
  BY DEF BufInv, TypeOK, PipelineTypeOK
<1>2. \A k \in 1..Len(input) : input[k] \in Pushed /\ input[k].item \in Items
  BY <1>1, InputItems
<1> QED BY <1>1, <1>2, Bounds
        DEF BufInv, TypeOK, PipelineTypeOK, StreamTypeOK, UpstreamTypeOK, ElementTypeOK

LEMMA HeadFilled ==
  ASSUME BufInv, input # <<>>
  PROVE  /\ Head(input) = input[1] /\ 1 \in 1..Len(input) /\ Head(input).item \in Items
         /\ Head(input).kind = "buffer" => Filled(Head(input).item)
<1>1. input \in Seq(Pushed)
  BY BufBasics
<1>2. Head(input) = input[1] /\ 1 \in 1..Len(input)
  BY <1>1
<1> QED BY <1>2, BufBasics DEF BufInv, Buffers

----------------------------------------------------------------------------
\* What a step does to the buffers: a pushed buffer keeps its caps, one that is
\* not pushed has none, and no item to come gets a buffer.
Settles ==
  /\ next' \in Nat /\ next' >= next
  /\ \A i \in Items :
       /\ i >= next' => buf'[i] = buf[i]
       /\ Filled(i) => FilledNext(i) /\ buf'[i].caps = buf[i].caps
       /\ ~FilledNext(i) => buf'[i] = buf[i] \/ buf'[i].caps = 0

LEMMA SettlesSame == BufInv /\ UNCHANGED <<buf, next>> => Settles
  BY BufBasics DEF Settles, Filled, FilledNext, Items

\* One pushed buffer goes on.
LEMMA SettlesOn ==
  ASSUME BufInv, next' = next, NEW i \in Items, Filled(i),
         \A j \in Items : j # i => buf'[j] = buf[j],
         buf'[i].caps = buf[i].caps, FilledNext(i)
  PROVE  Settles
<1>1. i < next
  BY BufBasics DEF BufInv, Buffers, Filled, FilledNext, Items
<1> QED BY <1>1, BufBasics DEF Settles, Filled, FilledNext, Items

LEMMA SettlesDone ==
  ASSUME BufInv, next' = next, NEW i \in Items, Filled(i), buf' = Done(i)
  PROVE  Settles
<1>1. FilledNext(i)
  BY BufBasics, DoneType DEF Filled, FilledNext
<1> QED BY <1>1, BufBasics, DoneType, SettlesOn

LEMMA UpstreamSettles == BufInv /\ Upstream => Settles
<1> SUFFICES ASSUME BufInv, Upstream PROVE Settles
  OBVIOUS
<1>1. CASE PushCaps \/ PushEos
  <2>1. buf' = buf /\ next' = next + 1
    BY <1>1 DEF PushCaps, PushEos, Produce
  <2> QED BY <2>1, BufBasics DEF Settles, Filled, FilledNext
<1>2. CASE PushSystem \/ AllocBuffer
  <2>1. next \in Items /\ next' = next + 1
    <3>1. CASE PushSystem
      BY <3>1 DEF PushSystem, Produce
    <3>2. CASE AllocBuffer
      BY <3>2 DEF AllocBuffer, BufInv, TypeOK, UpstreamTypeOK
    <3> QED BY <1>2, <3>1, <3>2
  <2>2. ~Filled(next)
    BY <2>1, BufBasics DEF BufInv, Buffers, Filled, FilledNext
  <2>3. /\ \A j \in Items : j # next => buf'[j] = buf[j]
        /\ buf'[next].st \in {"none", "own"} => buf'[next].caps = 0
    <3>1. CASE PushSystem
      BY <2>1, <3>1, BufBasics DEF PushSystem
    <3>2. CASE AllocBuffer
      BY <2>1, <3>2, BufBasics DEF AllocBuffer
    <3> QED BY <1>2, <3>1, <3>2
  <2> QED BY <2>1, <2>2, <2>3, BufBasics DEF Settles, Filled, FilledNext, Items
<1>3. ASSUME NEW i \in Items, FillAndPush(i) PROVE Settles
  <2>1. ~Filled(i) /\ buf[i].st = "own" /\ next' = next
    BY <1>3 DEF FillAndPush, Owned, Filled, FilledNext, upVars
  <2>2. /\ \A j \in Items : j # i => buf'[j] = buf[j]
        /\ buf'[i].st = "queued"
    BY <1>3, BufBasics DEF FillAndPush, Buffer
  <2>3. i < next
    BY <2>1, BufBasics DEF BufInv, Buffers, Items
  <2> QED BY <2>1, <2>2, <2>3, BufBasics DEF Settles, Filled, FilledNext, Items
<1>4. CASE ProposeAllocation \/ AcquireBegin \/ AllocFails
  BY <1>4, SettlesSame DEF ProposeAllocation, AcquireBegin, AllocFails
<1> QED BY <1>1, <1>2, <1>3, <1>4 DEF Upstream

LEMMA RenderSettles == BufInv /\ Render => Settles
<1> SUFFICES ASSUME BufInv, Render PROVE Settles
  OBVIOUS
<1>1. next' = next
  BY DEF Render, RenderBegin, AwaitConnection, AwaitFlushing, RenderRefused, TakeLoan,
     ZeroCopySend, ZeroCopyNotify, CopyStart, CopyLoan, CopyLoanFails, CopySend,
     CopyNotify, SendFails, NotifyFails, RenderFrame, upVars
<1>2. CASE UNCHANGED buf
  BY <1>1, <1>2, SettlesSame
<1>3. CASE RenderBegin
  <2>1. Head(input).item \in Items /\ Filled(Head(input).item)
    BY <1>3, HeadFilled DEF RenderBegin, Take
  <2> DEFINE i == Head(input).item
  <2>2. /\ \A j \in Items : j # i => buf'[j] = buf[j]
        /\ buf'[i].caps = buf[i].caps /\ buf'[i].st = "render"
    BY <1>3, <2>1, BufBasics DEF RenderBegin, Buffer
  <2> QED BY <1>1, <2>1, <2>2, SettlesOn DEF Filled, FilledNext
<1>4. CASE TakeLoan
  <2>1. render.item \in Items /\ Filled(render.item)
    BY <1>4, BufBasics DEF TakeLoan, BufInv, Buffers, Holding
  <2>2. /\ \A j \in Items : j # render.item => buf'[j] = buf[j]
        /\ buf'[render.item].caps = buf[render.item].caps /\ buf'[render.item].st = "taken"
    BY <1>4, <2>1, BufBasics DEF TakeLoan, Buffer
  <2> QED BY <1>1, <2>1, <2>2, SettlesOn DEF Filled, FilledNext
<1>5. ASSUME render.pc \in Holding, buf' = Done(render.item) PROVE Settles
  <2>1. render.item \in Items /\ Filled(render.item)
    BY <1>5, BufBasics DEF BufInv, Buffers, Holding
  <2> QED BY <1>1, <1>5, <2>1, SettlesDone
<1>6. CASE AwaitFlushing \/ RenderRefused \/ CopyLoanFails \/ ZeroCopyNotify \/ CopyNotify
           \/ NotifyFails
  BY <1>5, <1>6 DEF AwaitFlushing, RenderRefused, CopyLoanFails, ZeroCopyNotify, CopyNotify,
     NotifyFails, Return, Holding
<1>7. CASE SendFails
  BY <1>2, <1>5, <1>7 DEF SendFails, Return, Holding
<1>8. CASE AwaitConnection \/ CopyStart \/ CopyLoan \/ CopySend \/ ZeroCopySend
  BY <1>2, <1>8 DEF AwaitConnection, CopyStart, CopyLoan, CopySend, ZeroCopySend
<1> QED BY <1>3, <1>4, <1>6, <1>7, <1>8 DEF Render

LEMMA StepSettles == BufInv /\ Next => Settles
<1> SUFFICES ASSUME BufInv, Next PROVE Settles
  OBVIOUS
<1>1. CASE Application \/ Consumer
  BY <1>1, SettlesSame DEF Application, Start, Stop, Unlock, UnlockStop, FlushStop, Consumer,
     upVars
<1>2. CASE SetCaps \/ PublishEos \/ EosSend \/ EosNotify
  BY <1>2, SettlesSame DEF SetCaps, PublishEos, EosSend, EosNotify, upVars
<1>3. CASE FlushItem
  <2>1. next' = next /\ input # <<>>
    BY <1>3 DEF FlushItem, upVars
  <2> QED BY <1>3, <2>1, HeadFilled, SettlesDone, SettlesSame DEF FlushItem
<1>4. CASE Drop
  <2>1. PICK i \in Items : HandleDrop(i) BY <1>4 DEF Drop
  <2>2. /\ next' = next /\ buf[i].st \in {"own", "sent", "held"}
        /\ \A j \in Items : j # i => buf'[j] = buf[j]
        /\ buf'[i].caps = buf[i].caps /\ buf'[i].st = "gone"
    BY <2>1, BufBasics DEF HandleDrop, upVars, Buffer
  <2>3. i < next
    BY <2>2, BufBasics DEF BufInv, Buffers, Items
  <2> QED BY <2>2, <2>3, BufBasics DEF Settles, Filled, FilledNext, Items
<1> QED BY <1>1, <1>2, <1>3, <1>4, UpstreamSettles, RenderSettles DEF Next, Streaming

----------------------------------------------------------------------------
\* How render and the input move on.

LEMMA RenderMoves ==
  ASSUME BufInv, Next
  PROVE  /\ render'.pc \in Holding =>
              RenderBegin \/ (render.pc \in Holding /\ render'.item = render.item)
         /\ render'.pc \in Unsent =>
              RenderBegin \/ PublishEos \/ (render.pc \in Unsent /\ render'.item = render.item)
         /\ render'.pc \in {"await", "take"} =>
              RenderBegin \/ (render.pc \in {"await", "take"} /\ render'.item = render.item)
         /\ render'.pc \in Stamped =>
              \/ TakeLoan \/ CopyStart
              \/ render.pc \in Stamped /\ render'.item = render.item /\ render'.caps = render.caps
<1>1. CASE render' = render
  BY <1>1
<1>2. CASE render' = Idle
  BY <1>2 DEF Idle, Holding, Unsent, Stamped
<1>3. CASE Application \/ Upstream \/ Drop \/ Consumer
  BY <1>1, <1>3 DEF Application, Start, Stop, Unlock, UnlockStop, FlushStop, Upstream,
     PushCaps, PushEos, PushSystem, Produce, ProposeAllocation, AcquireBegin, AllocBuffer,
     AllocFails, FillAndPush, Drop, HandleDrop, Consumer, streamVars
<1>4. CASE RenderBegin
  BY <1>4 DEF RenderBegin, Idle, Stamped
<1>5. CASE PublishEos
  BY <1>1, <1>5 DEF PublishEos, Idle, Holding, Stamped
<1>6. CASE EosSend \/ ZeroCopySend \/ CopySend
  BY <1>6, BufBasics DEF EosSend, ZeroCopySend, CopySend, RenderState, Holding, Unsent, Stamped
<1>7. CASE AwaitConnection \/ TakeLoan \/ CopyStart
  BY <1>7, BufBasics DEF AwaitConnection, TakeLoan, CopyStart, RenderState, Holding, Unsent,
     Stamped
<1>8. CASE CopyLoan
  BY <1>8, BufBasics DEF CopyLoan, RenderState, Holding, Unsent, Stamped
<1>9. CASE AwaitFlushing \/ RenderRefused \/ CopyLoanFails \/ ZeroCopyNotify \/ CopyNotify
           \/ NotifyFails \/ SendFails \/ EosNotify
  BY <1>2, <1>9 DEF AwaitFlushing, RenderRefused, CopyLoanFails, ZeroCopyNotify, CopyNotify,
     NotifyFails, SendFails, EosNotify, Return
<1>10. CASE FlushItem \/ SetCaps
  BY <1>1, <1>10 DEF FlushItem, SetCaps, streamVars
<1> QED BY <1>3, <1>4, <1>5, <1>6, <1>7, <1>8, <1>9, <1>10 DEF Next, Streaming, Render

TakesHead == FlushItem \/ SetCaps \/ PublishEos \/ RenderBegin
Pushes    == PushCaps \/ PushEos \/ PushSystem \/ \E i \in Items : FillAndPush(i)

LEMMA InputMoves ==
  ASSUME Next
  PROVE  \/ TakesHead /\ input # <<>> /\ input' = Tail(input)
         \/ Pushes
         \/ (Start \/ FlushStop) /\ input' = StickyCaps
         \/ ~TakesHead /\ ~Pushes /\ input' = input
<1>1. CASE TakesHead
  BY <1>1 DEF TakesHead, FlushItem, SetCaps, PublishEos, RenderBegin, Take
<1>2. CASE Start \/ FlushStop
  BY <1>2 DEF Start, FlushStop
<1>3. CASE ~TakesHead /\ ~Pushes /\ ~Start /\ ~FlushStop
  <2>1. CASE Application \/ Upstream \/ Drop \/ Consumer
    BY <1>3, <2>1 DEF Pushes, Application, Stop, Unlock, UnlockStop, Upstream,
       ProposeAllocation, AcquireBegin, AllocBuffer, AllocFails, Drop, HandleDrop, Consumer
  <2>2. CASE Streaming
    BY <1>3, <2>2 DEF TakesHead, Streaming, Render, AwaitConnection, AwaitFlushing,
       RenderRefused, TakeLoan, ZeroCopySend, ZeroCopyNotify, CopyStart, CopyLoan,
       CopyLoanFails, CopySend, CopyNotify, SendFails, NotifyFails, RenderFrame, EosSend,
       EosNotify
  <2> QED BY <1>3, <2>1, <2>2 DEF Next
<1> QED BY <1>1, <1>2, <1>3

\* What is pushed is appended: a caps event with the new caps, a buffer that is
\* now pushed and has the caps in force, or an EOS event.
LEMMA PushMoves ==
  ASSUME BufInv, Pushes
  PROVE  \E e \in Pushed :
           /\ input' = Append(input, e)
           /\ e.kind = "caps" => upcaps' = e.item
           /\ e.kind # "caps" => upcaps' = upcaps
           /\ e.kind = "buffer" => FilledNext(e.item) /\ buf'[e.item].caps = upcaps
           /\ UNCHANGED <<caps, ctl, render, started>>
<1>1. CASE PushCaps \/ PushEos
  <2>1. next \in Items
    BY <1>1 DEF PushCaps, PushEos, Produce
  <2>2. PICK kind \in {"caps", "eos"} :
          /\ input' = Append(input, [kind |-> kind, item |-> next])
          /\ upcaps' = IF kind = "caps" THEN next ELSE upcaps
    BY <1>1 DEF PushCaps, PushEos, Push
  <2>3. UNCHANGED <<caps, ctl, render, started>>
    BY <1>1 DEF PushCaps, PushEos, Produce, elementVars, streamVars
  <2>4. [kind |-> kind, item |-> next] \in Pushed
    BY <2>1 DEF Pushed
  <2> QED BY <2>2, <2>3, <2>4
<1>2. CASE PushSystem
  <2>1. /\ next \in Items /\ input' = Append(input, [kind |-> "buffer", item |-> next])
        /\ UNCHANGED <<caps, ctl, render, started, upcaps>>
    BY <1>2 DEF PushSystem, Push, Produce, elementVars, streamVars
  <2>2. FilledNext(next) /\ buf'[next].caps = upcaps
    <3>1. buf'[next] = [st |-> "queued", slot |-> NoSlot, caps |-> upcaps]
      BY <1>2, <2>1, BufBasics DEF PushSystem
    <3>2. buf'[next].st = "queued" /\ buf'[next].caps = upcaps
      BY <3>1
    <3> QED BY <2>1, <3>2, StepSettles DEF Filled, FilledNext, Settles
  <2>3. [kind |-> "buffer", item |-> next] \in Pushed
    BY <2>1 DEF Pushed
  <2> QED BY <2>1, <2>2, <2>3
<1>3. ASSUME NEW i \in Items, FillAndPush(i)
      PROVE  \E e \in Pushed :
               /\ input' = Append(input, e)
               /\ e.kind = "caps" => upcaps' = e.item
               /\ e.kind # "caps" => upcaps' = upcaps
               /\ e.kind = "buffer" => FilledNext(e.item) /\ buf'[e.item].caps = upcaps
               /\ UNCHANGED <<caps, ctl, render, started>>
  <2>1. /\ input' = Append(input, [kind |-> "buffer", item |-> i])
        /\ UNCHANGED <<caps, ctl, render, started, upcaps>>
        /\ buf' = [buf EXCEPT ![i].st = "queued", ![i].caps = upcaps]
    BY <1>3 DEF FillAndPush, Push, elementVars, streamVars, upVars
  <2>2. buf'[i].st = "queued" /\ buf'[i].caps = upcaps
    BY <2>1, BufBasics DEF Buffer
  <2>3. FilledNext(i)
    BY <2>2 DEF Filled, FilledNext
  <2>4. [kind |-> "buffer", item |-> i] \in Pushed
    BY DEF Pushed
  <2> QED BY <2>1, <2>2, <2>3, <2>4
<1> QED BY <1>1, <1>2, <1>3 DEF Pushes

LEMMA BuffersStep == BufInv /\ Next => Buffers'
<1> SUFFICES ASSUME BufInv, Next PROVE Buffers'
  OBVIOUS
<1>1. Settles
  BY StepSettles
<1>2. \A i \in Items : i >= next' => buf'[i].st = "none"
  BY <1>1, BufBasics DEF Settles, BufInv, Buffers, Items
<1>3. \A i \in Items : buf'[i].st \in {"none", "own"} => buf'[i].caps = 0
  BY <1>1 DEF Settles, BufInv, Buffers, Filled, FilledNext
<1>4. \A k \in 1..Len(input) : input[k].kind = "buffer" => FilledNext(input[k].item)
  BY <1>1, BufBasics DEF Settles, BufInv, Buffers
<1>5. \A k \in 1..Len(input') : input'[k].kind = "buffer" => FilledNext(input'[k].item)
  <2>1. CASE input # <<>> /\ input' = Tail(input)
    <3>1. \A k \in 1..Len(input') : k + 1 \in 1..Len(input) /\ input'[k] = input[k + 1]
      BY <2>1, BufBasics
    <3> QED BY <1>4, <3>1
  <2>2. CASE Pushes
    <3>1. PICK e \in Pushed :
            /\ input' = Append(input, e)
            /\ e.kind = "buffer" => FilledNext(e.item)
      BY <2>2, PushMoves
    <3>2. \A k \in 1..Len(input') :
            input'[k] = e \/ (k \in 1..Len(input) /\ input'[k] = input[k])
      BY <3>1, BufBasics
    <3> QED BY <1>4, <3>1, <3>2
  <2>3. CASE input' = StickyCaps
    BY <2>3 DEF StickyCaps
  <2>4. CASE input' = input
    BY <1>4, <2>4
  <2> QED BY <2>1, <2>2, <2>3, <2>4, InputMoves
<1>6. render'.pc \in Holding => FilledNext(render'.item)
  <2>1. CASE RenderBegin
    <3>1. render'.item = Head(input).item /\ input # <<>> /\ Head(input).kind = "buffer"
      BY <2>1 DEF RenderBegin, Take, Idle
    <3> QED BY <1>1, <3>1, HeadFilled DEF Settles
  <2>2. CASE render.pc \in Holding /\ render'.item = render.item
    BY <1>1, <2>2, BufBasics DEF Settles, BufInv, Buffers, Holding
  <2> QED BY <2>1, <2>2, RenderMoves
<1> QED BY <1>2, <1>3, <1>5, <1>6 DEF Buffers, Filled, FilledNext

----------------------------------------------------------------------------
\* The caps in force at position k of the input q: those of the last caps event
\* in front of it, or `cached`, those of the sink, when there is none.
InForce(q, cached, k, c) ==
  \/ \E j \in 1..(k - 1) :
       /\ q[j].kind = "caps" /\ q[j].item = c
       /\ \A l \in (j + 1)..(k - 1) : q[l].kind # "caps"
  \/ c = cached /\ \A l \in 1..(k - 1) : q[l].kind # "caps"

\* Handling the head does not change what is in force behind it.
LEMMA InForceTail ==
  ASSUME NEW q \in Seq(Pushed), q # <<>>, NEW c0, NEW c1, NEW c, NEW k \in 1..Len(q),
         IF q[1].kind = "caps" THEN c1 = q[1].item ELSE c1 = c0,
         InForce(q, c0, k + 1, c)
  PROVE  InForce(Tail(q), c1, k, c)
<1>1. \A l \in 1..(k - 1) : Tail(q)[l] = q[l + 1]
  OBVIOUS
<1>2. CASE c = c0 /\ \A l \in 1..k : q[l].kind # "caps"
  BY <1>1, <1>2 DEF InForce
<1>3. ASSUME NEW j \in 1..k, q[j].kind = "caps", q[j].item = c,
             \A l \in (j + 1)..k : q[l].kind # "caps"
      PROVE  InForce(Tail(q), c1, k, c)
  <2>1. CASE j = 1
    <3>1. \A l \in 1..(k - 1) : Tail(q)[l].kind # "caps"
      BY <1>1, <1>3, <2>1
    <3> QED BY <1>3, <2>1, <3>1 DEF InForce
  <2>2. CASE j # 1
    <3>1. j - 1 \in 1..(k - 1) /\ Tail(q)[j - 1] = q[j]
      BY <1>1, <2>2
    <3>2. \A l \in ((j - 1) + 1)..(k - 1) : Tail(q)[l].kind # "caps"
      BY <1>1, <1>3
    <3> QED BY <1>3, <3>1, <3>2 DEF InForce
  <2> QED BY <2>1, <2>2
<1>4. (k + 1) - 1 = k
  OBVIOUS
<1>5. \/ c = c0 /\ \A l \in 1..k : q[l].kind # "caps"
      \/ \E j \in 1..k : /\ q[j].kind = "caps" /\ q[j].item = c
                         /\ \A l \in (j + 1)..k : q[l].kind # "caps"
  BY <1>4 DEF InForce
<1> QED BY <1>2, <1>3, <1>5

\* Nor does pushing an item change what is in force in front of it.
LEMMA InForceAppend ==
  ASSUME NEW q \in Seq(Pushed), NEW e \in Pushed, NEW c0, NEW c, NEW k \in 1..(Len(q) + 1),
         InForce(q, c0, k, c)
  PROVE  InForce(Append(q, e), c0, k, c)
<1>1. \A l \in 1..(k - 1) : Append(q, e)[l] = q[l]
  OBVIOUS
<1> QED BY <1>1 DEF InForce

LEMMA InForceEnd ==
  ASSUME NEW q \in Seq(Pushed), NEW e \in Pushed, NEW c0, NEW c, NEW d,
         InForce(q, c0, Len(q) + 1, c),
         IF e.kind = "caps" THEN d = e.item ELSE d = c
  PROVE  InForce(Append(q, e), c0, Len(q) + 2, d)
<1> DEFINE n == Len(q)
<1>1. /\ n \in Nat /\ Append(q, e)[n + 1] = e
      /\ \A l \in 1..n : Append(q, e)[l] = q[l]
  OBVIOUS
<1>2. CASE e.kind = "caps"
  <2>1. n + 1 \in 1..((n + 2) - 1)
    BY <1>1
  <2>2. \A l \in ((n + 1) + 1)..((n + 2) - 1) : FALSE
    BY <1>1
  <2> QED BY <1>1, <1>2, <2>1, <2>2 DEF InForce
<1>3. CASE e.kind # "caps"
  <2>1. CASE c = c0 /\ \A l \in 1..n : q[l].kind # "caps"
    <3>1. \A l \in 1..((n + 2) - 1) : Append(q, e)[l].kind # "caps"
      <4>1. \A l \in 1..((n + 2) - 1) : l \in 1..n \/ l = n + 1
        BY <1>1
      <4> QED BY <1>1, <1>3, <2>1, <4>1
    <3> QED BY <1>3, <2>1, <3>1 DEF InForce
  <2>2. ASSUME NEW j \in 1..n, q[j].kind = "caps", q[j].item = c,
               \A l \in (j + 1)..n : q[l].kind # "caps"
        PROVE  InForce(Append(q, e), c0, Len(q) + 2, d)
    <3>1. j \in 1..((n + 2) - 1)
      BY <1>1
    <3>2. \A l \in (j + 1)..((n + 2) - 1) : Append(q, e)[l].kind # "caps"
      <4>1. \A l \in (j + 1)..((n + 2) - 1) : (l \in 1..n /\ l \in (j + 1)..n) \/ l = n + 1
        BY <1>1
      <4> QED BY <1>1, <1>3, <2>2, <4>1
    <3> QED BY <1>1, <1>3, <2>2, <3>1, <3>2 DEF InForce
  <2>3. (n + 1) - 1 = n
    BY <1>1
  <2> QED BY <2>1, <2>2, <2>3 DEF InForce
<1> QED BY <1>2, <1>3

----------------------------------------------------------------------------
\* What is in flight.

EosSample == [slot |-> render.slot, item |-> render.item, caps |-> 0, eos |-> TRUE]

SendsFrame == ZeroCopySend \/ CopySend

\* Only a send and the subscribers touch the rings.
LEMMA RingsUntouched ==
  ASSUME Next, ~SendsFrame, ~EosSend, ~Consumer
  PROVE  UNCHANGED <<ring, borrowed, attached, seen>>
<1>1. CASE Application \/ Upstream \/ Drop
  BY <1>1 DEF Application, Start, Stop, Unlock, UnlockStop, FlushStop, Upstream,
     PushCaps, PushEos, PushSystem, Produce, ProposeAllocation, AcquireBegin, AllocBuffer,
     AllocFails, FillAndPush, Drop, HandleDrop, shmVars
<1>2. CASE Streaming
  BY <1>2 DEF SendsFrame, Streaming, Render, RenderBegin, AwaitConnection,
     AwaitFlushing, RenderRefused, TakeLoan, ZeroCopyNotify, CopyStart, CopyLoan,
     CopyLoanFails, CopyNotify, SendFails, NotifyFails, FlushItem, SetCaps, PublishEos,
     EosNotify, shmVars
<1> QED BY <1>1, <1>2 DEF Next

LEMMA FlightMoves ==
  ASSUME BufInv, Next
  PROVE  \/ ~SendsFrame /\ ~EosSend /\ InFlight' \subseteq InFlight
         \/ SendsFrame /\ FrameSample \in Sample /\ Send(FrameSample, RingOverflow)
              /\ InFlight' \subseteq InFlight \cup {FrameSample}
         \/ EosSend /\ EosSample \in Sample /\ Send(EosSample, RingOverflow)
              /\ InFlight' \subseteq InFlight \cup {EosSample}
<1>1. CASE SendsFrame
  <2>1. FrameSample \in Sample
    <3>1. render.slot \in Slots
      BY <1>1 DEF SendsFrame, ZeroCopySend, CopySend, BufInv, TypeOK, StreamTypeOK, InHand
    <3>2. render.item \in Items /\ render.caps \in 0..MaxItems
      BY <1>1, BufBasics DEF SendsFrame, ZeroCopySend, CopySend, RenderState
    <3> QED BY <3>1, <3>2 DEF FrameSample, Sample
  <2>2. Send(FrameSample, RingOverflow) /\ borrowed' = borrowed
    BY <1>1 DEF SendsFrame, ZeroCopySend, CopySend
  <2> QED BY <1>1, <2>1, <2>2, InFlightSend, RingOverflowType, BufBasics
<1>2. CASE EosSend
  <2>1. EosSample \in Sample
    <3>1. render.slot \in Slots
      BY <1>2 DEF EosSend, BufInv, TypeOK, StreamTypeOK, InHand
    <3>2. render.item \in Items /\ 0 \in 0..MaxItems
      BY <1>2, BufBasics, Bounds DEF EosSend
    <3> QED BY <3>1, <3>2 DEF EosSample, Sample
  <2>2. Send(EosSample, RingOverflow) /\ borrowed' = borrowed
    BY <1>2 DEF EosSend, EosSample
  <2> QED BY <1>2, <2>1, <2>2, InFlightSend, RingOverflowType, BufBasics
<1>3. CASE Consumer
  <2>1. InFlight' \subseteq InFlight
    BY <1>3, InFlightSubscriber, BufBasics DEF Consumer
  <2>2. ~SendsFrame /\ ~EosSend
    BY <1>3, BufBasics DEF Consumer, streamVars, SendsFrame, ZeroCopySend, CopySend, EosSend,
       RenderState
  <2> QED BY <2>1, <2>2
<1>4. CASE ~SendsFrame /\ ~EosSend /\ ~Consumer
  <2>1. UNCHANGED <<ring, borrowed>>
    BY <1>4, RingsUntouched
  <2> QED BY <1>4, <2>1, InFlightSame
<1> QED BY <1>1, <1>2, <1>3, <1>4

----------------------------------------------------------------------------
\* Unread samples.

LEMMA UnreadStep ==
  ASSUME Lossless, TypeOK, [Next]_vars, NEW s \in attached \cap attached'
  PROVE  Unlost(s)
<1>1. ~RingOverflow /\ ShmTypeOK
  BY DEF RingOverflow, TypeOK
<1>2. CASE SendsFrame \/ EosSend
  <2>1. \E sm : Send(sm, RingOverflow)
    BY <1>2 DEF SendsFrame, ZeroCopySend, CopySend, EosSend
  <2>2. PICK sm : Send(sm, FALSE)
    BY <1>1, <2>1 DEF Send
  <2> QED BY <1>1, <2>2, SendKeepsUnread
<1>3. CASE Consumer
  <2>1. PICK r \in Subs : PortStep(r)
    BY <1>3 DEF Consumer, Subscriber, PortStep
  <2> QED BY <1>1, <2>1, PortKeepsUnread
<1>4. CASE UNCHANGED <<ring, borrowed>>
  BY <1>4 DEF Unlost, Queued
<1> QED BY <1>2, <1>3, <1>4, RingsUntouched DEF vars, shmVars

\* With the lossless setting no sample of a subscriber that stays attached is lost
\* before it is received, for every depth of the ring, number of subscribers and
\* order of their steps and the sink's (sink.rs:312-319).
THEOREM LosslessKeepsUnread ==
  ASSUME Lossless
  PROVE  Spec => NoUnreadLoss
<1>1. TypeOK /\ [Next]_vars =>
        [\A s \in attached \cap attached' : Queued(s) \subseteq Queued(s)' \cup borrowed'[s]]_vars
  BY UnreadStep DEF Unlost
<1> QED BY <1>1, TypeCorrect, PTL DEF Spec, NoUnreadLoss

----------------------------------------------------------------------------
\* Headers.

\* Render runs in a started element, outside a flush.
Phases ==
  /\ ctl \in {"stopped", "run", "unlock", "flush"}
  /\ ctl = "stopped" => ~started
  /\ ctl = "flush" => render.pc = "idle"

\* What the sink has cached or has still to handle are the upstream's caps.
NoCapsYet ==
  upcaps = 0 => caps = 0 /\ \A k \in 1..Len(input) : input[k].kind # "caps"

\* Every buffer was pushed under the caps in force at its place in the input.
InputCaps ==
  ctl \in {"run", "unlock"} =>
    /\ \A k \in 1..Len(input) :
         input[k].kind = "buffer" => InForce(input, caps, k, buf[input[k].item].caps)
    /\ InForce(input, caps, Len(input) + 1, upcaps)
    /\ render.pc \in {"await", "take"} => caps = buf[render.item].caps

StampedCaps ==
  render.pc \in Stamped => render.caps = buf[render.item].caps /\ render.caps # 0

\* What is in flight was pushed, or is an EOS sentinel.
FlightCaps ==
  \A sm \in InFlight : IF sm.eos THEN sm.caps = 0
                       ELSE Filled(sm.item) /\ sm.caps = buf[sm.item].caps

HeaderInv == BufInv /\ Phases /\ NoCapsYet /\ InputCaps /\ StampedCaps /\ FlightCaps

LEMMA PhasesStep == HeaderInv /\ Next => Phases'
<1> SUFFICES ASSUME HeaderInv, Next PROVE Phases'
  OBVIOUS
<1>1. CASE Application
  BY <1>1 DEF Application, Start, Stop, Unlock, UnlockStop, FlushStop, streamVars, Idle,
     elementVars, HeaderInv, Phases
<1>2. CASE ~Application
  <2>1. UNCHANGED <<ctl, started>>
    <3>1. CASE Upstream \/ Drop \/ Consumer
      BY <3>1 DEF Upstream, PushCaps, PushEos, PushSystem, Produce, ProposeAllocation,
         AcquireBegin, AllocBuffer, AllocFails, FillAndPush, Drop, HandleDrop, Consumer,
         elementVars
    <3>2. CASE Streaming
      BY <3>2 DEF Streaming, Render, RenderBegin, AwaitConnection, AwaitFlushing,
         RenderRefused, TakeLoan, ZeroCopySend, ZeroCopyNotify, CopyStart, CopyLoan,
         CopyLoanFails, CopySend, CopyNotify, SendFails, NotifyFails, RenderFrame, FlushItem,
         SetCaps, PublishEos, EosSend, EosNotify, elementVars
    <3> QED BY <1>2, <3>1, <3>2 DEF Next
  <2>2. render' = render \/ render.pc # "idle" \/ ctl \in {"run", "unlock"}
    <3>1. CASE Upstream \/ Drop \/ Consumer
      BY <3>1 DEF Upstream, PushCaps, PushEos, PushSystem, Produce, ProposeAllocation,
         AcquireBegin, AllocBuffer, AllocFails, FillAndPush, Drop, HandleDrop, Consumer,
         streamVars
    <3>2. CASE Streaming
      BY <3>2 DEF Streaming, Render, RenderBegin, AwaitConnection, AwaitFlushing,
         RenderRefused, TakeLoan, ZeroCopySend, ZeroCopyNotify, CopyStart, CopyLoan,
         CopyLoanFails, CopySend, CopyNotify, SendFails, NotifyFails, FlushItem,
         SetCaps, PublishEos, EosSend, EosNotify, streamVars, Take
    <3> QED BY <1>2, <3>1, <3>2 DEF Next
  <2> QED BY <2>1, <2>2 DEF HeaderInv, Phases
<1> QED BY <1>1, <1>2

\* The cached caps change with a caps event and with a start or stop.
LEMMA CapsMove ==
  ASSUME Next
  PROVE  \/ caps' = caps /\ ~SetCaps /\ ~Start /\ ~Stop
         \/ SetCaps /\ caps' = Head(input).item /\ Head(input).kind = "caps"
         \/ (Start \/ Stop) /\ caps' = 0
<1>1. CASE SetCaps
  BY <1>1 DEF SetCaps, Take
<1>2. CASE Start \/ Stop
  BY <1>2 DEF Start, Stop
<1>3. CASE ~SetCaps /\ ~Start /\ ~Stop
  <2>1. CASE Application \/ Upstream \/ Drop \/ Consumer
    BY <1>3, <2>1 DEF Application, Unlock, UnlockStop, FlushStop, Upstream, PushCaps,
       PushEos, PushSystem, Produce, ProposeAllocation, AcquireBegin, AllocBuffer,
       AllocFails, FillAndPush, Drop, HandleDrop, Consumer, elementVars
  <2>2. CASE Streaming
    BY <1>3, <2>2 DEF Streaming, Render, RenderBegin, AwaitConnection, AwaitFlushing,
       RenderRefused, TakeLoan, ZeroCopySend, ZeroCopyNotify, CopyStart, CopyLoan,
       CopyLoanFails, CopySend, CopyNotify, SendFails, NotifyFails, FlushItem,
       PublishEos, EosSend, EosNotify, elementVars
  <2> QED BY <1>3, <2>1, <2>2 DEF Next
<1> QED BY <1>1, <1>2, <1>3

LEMMA UpcapsMove == Next => upcaps' = upcaps \/ Pushes
<1> SUFFICES ASSUME Next, ~Pushes PROVE upcaps' = upcaps
  OBVIOUS
<1>1. CASE Application \/ Upstream \/ Drop \/ Consumer
  BY <1>1 DEF Application, Start, Stop, Unlock, UnlockStop, FlushStop, Upstream, Pushes,
     ProposeAllocation, AcquireBegin, AllocBuffer, AllocFails, Drop, HandleDrop, Consumer, upVars
<1>2. CASE Streaming
  BY <1>2 DEF Streaming, Render, RenderBegin, AwaitConnection, AwaitFlushing,
     RenderRefused, TakeLoan, ZeroCopySend, ZeroCopyNotify, CopyStart, CopyLoan,
     CopyLoanFails, CopySend, CopyNotify, SendFails, NotifyFails, RenderFrame, FlushItem,
     SetCaps, PublishEos, EosSend, EosNotify, upVars
<1> QED BY <1>1, <1>2 DEF Next

LEMMA NoCapsStep == HeaderInv /\ Next => NoCapsYet'
<1> SUFFICES ASSUME HeaderInv, Next, upcaps' = 0
             PROVE  caps' = 0 /\ \A k \in 1..Len(input') : input'[k].kind # "caps"
  BY DEF NoCapsYet
<1>1. CASE Pushes
  <2>1. PICK e \in Pushed :
          /\ input' = Append(input, e) /\ caps' = caps
          /\ e.kind = "caps" => upcaps' = e.item
          /\ e.kind # "caps" => upcaps' = upcaps
    BY <1>1, PushMoves DEF HeaderInv
  <2>2. e.item # 0
    BY Bounds DEF Pushed, Items
  <2>3. e.kind # "caps" /\ upcaps = 0
    BY <2>1, <2>2
  <2>4. caps = 0 /\ \A k \in 1..Len(input) : input[k].kind # "caps"
    BY <2>3 DEF HeaderInv, NoCapsYet
  <2>5. \A k \in 1..Len(input') :
          input'[k] = e \/ (k \in 1..Len(input) /\ input'[k] = input[k])
    BY <2>1, BufBasics DEF HeaderInv
  <2> QED BY <2>1, <2>3, <2>4, <2>5
<1>2. CASE ~Pushes
  <2>1. caps = 0 /\ \A k \in 1..Len(input) : input[k].kind # "caps"
    BY <1>2, UpcapsMove DEF HeaderInv, NoCapsYet
  <2>2. CASE TakesHead /\ input # <<>> /\ input' = Tail(input)
    <3>1. Head(input).kind # "caps"
      BY <2>1, <2>2, HeadFilled DEF HeaderInv
    <3>2. \A k \in 1..Len(input') : k + 1 \in 1..Len(input) /\ input'[k] = input[k + 1]
      BY <2>2, BufBasics DEF HeaderInv
    <3> QED BY <2>1, <3>1, <3>2, CapsMove
  <2>3. CASE (Start \/ FlushStop) /\ input' = StickyCaps
    <3>1. input' = <<>>
      BY <1>2, <2>3, UpcapsMove DEF StickyCaps
    <3>2. ~SetCaps
      BY <2>3 DEF Start, FlushStop, SetCaps, Take, streamVars
    <3> QED BY <2>1, <3>1, <3>2, CapsMove
  <2>4. CASE ~TakesHead /\ input' = input
    BY <2>1, <2>4, CapsMove DEF TakesHead
  <2> QED BY <1>2, <2>2, <2>3, <2>4, InputMoves
<1> QED BY <1>1, <1>2

\* A pushed buffer keeps its caps.
LEMMA CapsKept ==
  ASSUME HeaderInv, Next
  PROVE  /\ \A k \in 1..Len(input) :
              input[k].kind = "buffer" => buf'[input[k].item].caps = buf[input[k].item].caps
         /\ render.pc \in Holding => buf'[render.item].caps = buf[render.item].caps
         /\ \A sm \in InFlight :
              ~sm.eos => FilledNext(sm.item) /\ buf'[sm.item].caps = buf[sm.item].caps
<1>1. Settles
  BY StepSettles DEF HeaderInv
<1>2. render.pc \in Holding => render.item \in Items
  BY BufBasics DEF HeaderInv, Holding
<1>3. \A sm \in InFlight : sm.item \in Items
  BY InFlightType, BufBasics DEF HeaderInv, Sample
<1> QED BY <1>1, <1>2, <1>3, BufBasics
        DEF HeaderInv, BufInv, Buffers, FlightCaps, Settles

LEMMA InputCapsStep == HeaderInv /\ Next => InputCaps'
<1> SUFFICES ASSUME HeaderInv, Next, ctl' \in {"run", "unlock"}
             PROVE  /\ \A k \in 1..Len(input') :
                         input'[k].kind = "buffer" =>
                           InForce(input', caps', k, buf'[input'[k].item].caps)
                    /\ InForce(input', caps', Len(input') + 1, upcaps')
                    /\ render'.pc \in {"await", "take"} => caps' = buf'[render'.item].caps
  BY DEF InputCaps
<1>1. input \in Seq(Pushed) /\ upcaps \in 0..MaxItems
  BY BufBasics DEF HeaderInv
<1>2. CASE Start \/ FlushStop
  <2>1. /\ input' = StickyCaps /\ render'.pc = "idle" /\ upcaps' = upcaps
        /\ upcaps = 0 => caps' = 0
    BY <1>2 DEF Start, FlushStop, streamVars, elementVars, Idle, HeaderInv, Phases, NoCapsYet
  <2>2. CASE upcaps = 0
    <3>1. input' = <<>>
      BY <2>1, <2>2 DEF StickyCaps
    <3>2. InForce(input', caps', Len(input') + 1, upcaps')
      BY <2>1, <2>2, <3>1 DEF InForce
    <3> QED BY <2>1, <3>1, <3>2
  <2>3. CASE upcaps # 0
    <3>1. input' = <<[kind |-> "caps", item |-> upcaps]>>
      BY <2>1, <2>3 DEF StickyCaps
    <3>2. Len(input') = 1 /\ input'[1].kind = "caps" /\ input'[1].item = upcaps
      BY <3>1
    <3>3. InForce(input', caps', Len(input') + 1, upcaps')
      BY <2>1, <3>2 DEF InForce
    <3> QED BY <2>1, <3>2, <3>3
  <2> QED BY <2>2, <2>3
<1>3. CASE Pushes
  <2>1. PICK e \in Pushed :
          /\ input' = Append(input, e)
          /\ e.kind = "caps" => upcaps' = e.item
          /\ e.kind # "caps" => upcaps' = upcaps
          /\ e.kind = "buffer" => buf'[e.item].caps = upcaps
          /\ UNCHANGED <<caps, ctl, render>>
    BY <1>3, PushMoves DEF HeaderInv
  <2>2. /\ \A k \in 1..Len(input) :
             input[k].kind = "buffer" => InForce(input, caps, k, buf[input[k].item].caps)
        /\ InForce(input, caps, Len(input) + 1, upcaps)
        /\ render.pc \in {"await", "take"} => caps = buf[render.item].caps
    BY <2>1 DEF HeaderInv, InputCaps
  <2>3. InForce(input', caps', Len(input') + 1, upcaps')
    <3>1. Len(input') + 1 = Len(input) + 2
      BY <1>1, <2>1
    <3>2. InForce(Append(input, e), caps, Len(input) + 2, upcaps')
      BY <1>1, <2>1, <2>2, InForceEnd
    <3> QED BY <2>1, <3>1, <3>2
  <2>4. ASSUME NEW k \in 1..Len(input'), input'[k].kind = "buffer"
        PROVE  InForce(input', caps', k, buf'[input'[k].item].caps)
    <3>1. CASE k \in 1..Len(input)
      <4>1. input'[k] = input[k]
        BY <1>1, <2>1, <3>1
      <4>2. InForce(input, caps, k, buf'[input'[k].item].caps)
        BY <2>2, <2>4, <3>1, <4>1, CapsKept
      <4>3. k \in 1..(Len(input) + 1)
        BY <1>1, <3>1
      <4> QED BY <1>1, <2>1, <4>2, <4>3, InForceAppend
    <3>2. CASE k = Len(input) + 1
      <4>1. input'[k] = e
        BY <1>1, <2>1, <3>2
      <4>2. InForce(input, caps, k, buf'[input'[k].item].caps)
        BY <2>1, <2>2, <2>4, <3>2, <4>1
      <4>3. k \in 1..(Len(input) + 1)
        BY <1>1, <3>2
      <4> QED BY <1>1, <2>1, <4>2, <4>3, InForceAppend
    <3>3. k \in 1..Len(input) \/ k = Len(input) + 1
      BY <1>1, <2>1
    <3> QED BY <3>1, <3>2, <3>3
  <2>5. render'.pc \in {"await", "take"} => caps' = buf'[render'.item].caps
    BY <2>1, <2>2, CapsKept DEF Holding
  <2> QED BY <2>3, <2>4, <2>5
<1>4. CASE TakesHead /\ input # <<>> /\ input' = Tail(input)
  <2>1. /\ ctl \in {"run", "unlock"} /\ upcaps' = upcaps
        /\ IF input[1].kind = "caps" THEN caps' = input[1].item ELSE caps' = caps
        /\ render'.pc \in {"await", "take"} =>
             input[1].kind = "buffer" /\ render'.item = input[1].item
    <3>1. Head(input) = input[1]
      BY <1>4, HeadFilled DEF HeaderInv
    <3>2. CASE FlushItem
      BY <3>2 DEF FlushItem
    <3>3. CASE SetCaps
      BY <3>1, <3>3 DEF SetCaps, Take, streamVars, Idle, upVars
    <3>4. CASE PublishEos
      <4>1. render'.pc \notin {"await", "take"}
        <5>1. render' = render \/ render'.pc = "esend"
          BY <3>4 DEF PublishEos, Idle
        <5> QED BY <3>4, <5>1, TakesItem
      <4> QED BY <3>1, <3>4, <4>1 DEF PublishEos, Take, elementVars, upVars
    <3>5. CASE RenderBegin
      BY <3>1, <3>5 DEF RenderBegin, Take, Idle, elementVars, upVars
    <3> QED BY <1>4, <3>2, <3>3, <3>4, <3>5 DEF TakesHead
  <2>2. /\ \A k \in 1..Len(input) :
             input[k].kind = "buffer" => InForce(input, caps, k, buf[input[k].item].caps)
        /\ InForce(input, caps, Len(input) + 1, upcaps)
    BY <2>1 DEF HeaderInv, InputCaps
  <2>3. /\ Len(input') + 1 = Len(input) /\ 1 \in 1..Len(input)
        /\ \A k \in 1..Len(input') : /\ k \in 1..Len(input) /\ k + 1 \in 1..Len(input)
                                      /\ input'[k] = input[k + 1]
    BY <1>1, <1>4
  <2>4. ASSUME NEW k \in 1..Len(input'), input'[k].kind = "buffer"
        PROVE  InForce(input', caps', k, buf'[input'[k].item].caps)
    <3>1. InForce(input, caps, k + 1, buf'[input'[k].item].caps)
      BY <2>2, <2>3, <2>4, CapsKept
    <3> QED BY <1>1, <1>4, <2>1, <2>3, <3>1, InForceTail
  <2>5. InForce(input', caps', Len(input') + 1, upcaps')
    <3>1. Len(input) \in 1..Len(input)
      BY <1>1, <1>4
    <3>2. InForce(Tail(input), caps', Len(input), upcaps)
      BY <1>1, <1>4, <2>1, <2>2, <3>1, InForceTail
    <3> QED BY <1>4, <2>1, <2>3, <3>2
  <2>6. render'.pc \in {"await", "take"} => caps' = buf'[render'.item].caps
    <3>1. input[1].kind = "buffer" =>
            caps' = caps /\ InForce(input, caps, 1, buf'[input[1].item].caps)
      BY <2>1, <2>2, <2>3, CapsKept
    <3>2. \A c : InForce(input, caps, 1, c) => c = caps
      BY DEF InForce
    <3> QED BY <2>1, <3>1, <3>2
  <2> QED BY <2>4, <2>5, <2>6
<1>5. CASE ~Start /\ ~FlushStop /\ ~Pushes /\ ~TakesHead /\ input' = input
  <2>1. ctl \in {"run", "unlock"}
    <3>1. CASE Application
      BY <1>5, <3>1 DEF Application, Stop, Unlock, UnlockStop
    <3>2. CASE ~Application
      BY <3>2, BufBasics DEF Next, Streaming, Render, RenderBegin, AwaitConnection,
         AwaitFlushing, RenderRefused, TakeLoan, ZeroCopySend, ZeroCopyNotify, CopyStart,
         CopyLoan, CopyLoanFails, CopySend, CopyNotify, SendFails, NotifyFails, RenderFrame,
         FlushItem, SetCaps, PublishEos, EosSend, EosNotify, Upstream, PushCaps, PushEos,
         PushSystem, Produce, ProposeAllocation, AcquireBegin, AllocBuffer, AllocFails,
         FillAndPush, Drop, HandleDrop, Consumer
    <3> QED BY <3>1, <3>2
  <2>2. caps' = caps /\ upcaps' = upcaps
    <3>1. ~Stop
      BY DEF Stop
    <3> QED BY <1>5, <3>1, CapsMove, UpcapsMove DEF TakesHead
  <2>3. /\ \A k \in 1..Len(input) :
             input[k].kind = "buffer" => InForce(input, caps, k, buf[input[k].item].caps)
        /\ InForce(input, caps, Len(input) + 1, upcaps)
        /\ render.pc \in {"await", "take"} => caps = buf[render.item].caps
    BY <2>1 DEF HeaderInv, InputCaps
  <2>4. render'.pc \in {"await", "take"} => caps' = buf'[render'.item].caps
    BY <1>5, <2>2, <2>3, CapsKept, RenderMoves DEF TakesHead, Holding, HeaderInv
  <2> QED BY <1>5, <2>2, <2>3, <2>4, CapsKept
<1> QED BY <1>2, <1>3, <1>4, <1>5, InputMoves

LEMMA StampedStep == HeaderInv /\ Next => StampedCaps'
<1> SUFFICES ASSUME HeaderInv, Next, render'.pc \in Stamped
             PROVE  render'.caps = buf'[render'.item].caps /\ render'.caps # 0
  BY DEF StampedCaps
<1>1. CASE TakeLoan \/ CopyStart
  <2>1. /\ render.pc = "take" /\ started /\ caps # 0
        /\ render'.caps = caps /\ render'.item = render.item
    BY <1>1, BufBasics DEF TakeLoan, CopyStart, RenderState, HeaderInv
  <2>2. ctl \in {"run", "unlock"}
    BY <2>1 DEF HeaderInv, Phases
  <2> QED BY <2>1, <2>2, CapsKept DEF HeaderInv, InputCaps, Holding
<1>2. CASE render.pc \in Stamped /\ render'.item = render.item /\ render'.caps = render.caps
  BY <1>2, CapsKept DEF HeaderInv, StampedCaps, Stamped, Holding
<1> QED BY <1>1, <1>2, RenderMoves DEF HeaderInv

LEMMA FlightStep == HeaderInv /\ Next => FlightCaps'
<1> SUFFICES ASSUME HeaderInv, Next
             PROVE  \A sm \in InFlight' :
                      IF sm.eos THEN sm.caps = 0
                      ELSE FilledNext(sm.item) /\ sm.caps = buf'[sm.item].caps
  BY DEF FlightCaps, Filled, FilledNext
<1>1. ASSUME NEW sm \in InFlight
      PROVE  IF sm.eos THEN sm.caps = 0
             ELSE FilledNext(sm.item) /\ sm.caps = buf'[sm.item].caps
  BY <1>1, CapsKept DEF HeaderInv, FlightCaps
<1>2. ASSUME SendsFrame
      PROVE  /\ FrameSample.eos = FALSE /\ FilledNext(FrameSample.item)
             /\ FrameSample.caps = buf'[FrameSample.item].caps
  <2>1. render.pc \in {"zsend", "csend"} /\ buf' = buf
    BY <1>2 DEF SendsFrame, ZeroCopySend, CopySend
  <2>2. Filled(render.item) /\ render.caps = buf[render.item].caps
    BY <2>1 DEF HeaderInv, BufInv, Buffers, Holding, StampedCaps, Stamped
  <2> QED BY <2>1, <2>2 DEF FrameSample, Filled, FilledNext
<1>3. EosSample.eos = TRUE /\ EosSample.caps = 0
  BY DEF EosSample
<1> QED BY <1>1, <1>2, <1>3, FlightMoves DEF HeaderInv

LEMMA HeaderInit == Init => HeaderInv
<1> SUFFICES ASSUME Init PROVE HeaderInv
  OBVIOUS
<1>1. \A i \in Items : buf[i].st = "none" /\ buf[i].caps = 0
  BY DEF Init, NoBuffer
<1>2. InFlight = {}
  BY DEF Init, ShmInit, InFlight, Queued
<1>3. render.pc = "idle" /\ input = <<>> /\ caps = 0 /\ ctl = "stopped" /\ ~started
  BY DEF Init, Idle
<1>4. Buffers
  BY <1>1, <1>3 DEF Buffers, Holding, Filled
<1>5. Phases /\ NoCapsYet /\ InputCaps /\ StampedCaps /\ FlightCaps
  BY <1>2, <1>3 DEF Phases, NoCapsYet, InputCaps, StampedCaps, Stamped, FlightCaps
<1> QED BY <1>4, <1>5, TypeInit DEF HeaderInv, BufInv

LEMMA HeaderStep == HeaderInv /\ [Next]_vars => HeaderInv'
<1> SUFFICES ASSUME HeaderInv, [Next]_vars PROVE HeaderInv'
  OBVIOUS
<1>1. TypeOK'
  BY TypeStep DEF HeaderInv, BufInv
<1>2. CASE Next
  BY <1>1, <1>2, BuffersStep, PhasesStep, NoCapsStep, InputCapsStep, StampedStep, FlightStep
  DEF HeaderInv, BufInv
<1>3. CASE UNCHANGED vars
  <2>1. UNCHANGED <<ring, borrowed, started, caps, render, ctl, input, next, upcaps, buf>>
    BY <1>3 DEF vars, shmVars, elementVars, streamVars, upVars
  <2>2. Buffers'
    BY <2>1 DEF HeaderInv, BufInv, Buffers, Filled
  <2>3. Phases' /\ NoCapsYet' /\ StampedCaps'
    BY <2>1 DEF HeaderInv, Phases, NoCapsYet, StampedCaps
  <2>4. InputCaps'
    BY <2>1 DEF HeaderInv, InputCaps
  <2>5. FlightCaps'
    BY <2>1, InFlightSame DEF HeaderInv, FlightCaps, Filled
  <2> QED BY <1>1, <2>2, <2>3, <2>4, <2>5 DEF HeaderInv, BufInv
<1> QED BY <1>2, <1>3

\* Each header in flight has the caps its frame was pushed under, for any number
\* of live buffers, renegotiations, flushes and restarts and whatever fails
\* (sink.rs:492-497).
THEOREM HeadersDescribeFrames == Spec => []HeaderDescribesFrame
<1>1. HeaderInv => HeaderDescribesFrame
  BY DEF HeaderInv, FlightCaps, HeaderDescribesFrame
<1> QED BY <1>1, HeaderInit, HeaderStep, PTL DEF Spec

----------------------------------------------------------------------------
\* Order.

\* The items in flight or already read, in render and not yet sent, in the
\* input, and in buffers the upstream still owns.
SentNos   == {sm.item : sm \in InFlight} \cup {seen[s] : s \in Subs}
RenderNos == {i \in {render.item} : render.pc \in Unsent}
InputNos  == {input[k].item : k \in {j \in 1..Len(input) : input[j].kind # "caps"}}

Lower(A, B) == \A a \in A, b \in B : a < b

\* Whatever is further on has a lower number.
Staged(sent, rendered, waiting, owned, n) ==
  /\ Lower(sent, rendered \cup waiting \cup owned)
  /\ Lower(rendered, waiting \cup owned)
  /\ Lower(waiting, owned)
  /\ Lower(sent \cup rendered \cup waiting \cup owned, {n})

InOrder == Staged(SentNos, RenderNos, InputNos, Owned, next)

Sorted ==
  \A k, l \in 1..Len(input) :
    k < l /\ input[k].kind # "caps" /\ input[l].kind # "caps" => input[k].item < input[l].item

OneSample == \A a, b \in InFlight : a.item = b.item => a = b

OrderInv == HeaderInv /\ InOrder /\ Sorted /\ OneSample /\ RingOrder

ChannelInv == FrameInv /\ OrderInv

\* How the numbers of the four places and the next number may move in a step.
Advance(S, R, I, O, n, S2, R2, I2, O2, n2) ==
  \* an item is sent
  \/ S2 \subseteq S \cup R /\ R2 = {} /\ I2 \subseteq I /\ O2 \subseteq O
  \* the head of the input is taken
  \/ S2 \subseteq S /\ R2 \subseteq I /\ I2 \subseteq I /\ O2 \subseteq O /\ Lower(R2, I2)
  \* an item is produced
  \/ S2 \subseteq S /\ R2 \subseteq R /\ I2 \subseteq I \cup {n} /\ O2 = {} /\ n2 > n
  \* the first owned buffer is pushed
  \/ /\ S2 \subseteq S /\ R2 \subseteq R /\ I2 \subseteq I \cup O /\ O2 \subseteq O
     /\ Lower(I2 \cap O, O2)
  \* a buffer is allocated, or none of this
  \/ S2 \subseteq S /\ R2 \subseteq R /\ I2 \subseteq I /\ O2 \subseteq O \cup (n..(n2 - 1))

LEMMA StagedMoves ==
  ASSUME NEW S, NEW R, NEW I, NEW O, NEW n \in Nat, S \cup R \cup I \cup O \subseteq Nat,
         NEW S2, NEW R2, NEW I2, NEW O2, NEW n2 \in Nat, n2 >= n,
         Staged(S, R, I, O, n), Advance(S, R, I, O, n, S2, R2, I2, O2, n2)
  PROVE  Staged(S2, R2, I2, O2, n2)
<1>1. /\ Lower(S, R) /\ Lower(S, I) /\ Lower(S, O) /\ Lower(S, {n})
      /\ Lower(R, I) /\ Lower(R, O) /\ Lower(R, {n})
      /\ Lower(I, O) /\ Lower(I, {n}) /\ Lower(O, {n})
  BY DEF Staged, Lower
<1>2. /\ Lower(S2, R2) /\ Lower(S2, I2) /\ Lower(S2, O2) /\ Lower(S2, {n2})
      /\ Lower(R2, I2) /\ Lower(R2, O2) /\ Lower(R2, {n2})
      /\ Lower(I2, O2) /\ Lower(I2, {n2}) /\ Lower(O2, {n2})
  <2>1. CASE S2 \subseteq S \cup R /\ R2 = {} /\ I2 \subseteq I /\ O2 \subseteq O
    BY <1>1, <2>1 DEF Lower
  <2>2. CASE S2 \subseteq S /\ R2 \subseteq I /\ I2 \subseteq I /\ O2 \subseteq O /\ Lower(R2, I2)
    BY <1>1, <2>2 DEF Lower
  <2>3. CASE S2 \subseteq S /\ R2 \subseteq R /\ I2 \subseteq I \cup {n} /\ O2 = {} /\ n2 > n
    BY <1>1, <2>3 DEF Lower
  <2>4. CASE /\ S2 \subseteq S /\ R2 \subseteq R /\ I2 \subseteq I \cup O /\ O2 \subseteq O
             /\ Lower(I2 \cap O, O2)
    BY <1>1, <2>4 DEF Lower
  <2>5. CASE /\ S2 \subseteq S /\ R2 \subseteq R /\ I2 \subseteq I
             /\ O2 \subseteq O \cup (n..(n2 - 1))
    BY <1>1, <2>5 DEF Lower
  <2> QED BY <2>1, <2>2, <2>3, <2>4, <2>5 DEF Advance
<1> QED BY <1>2 DEF Staged, Lower

LEMMA OrderBasics ==
  ASSUME OrderInv
  PROVE  /\ TypeOK /\ BufInv /\ input \in Seq(Pushed) /\ next \in Nat
         /\ render \in RenderState /\ InFlight \subseteq Sample
         /\ SentNos \cup RenderNos \cup InputNos \cup Owned \subseteq Nat
         /\ \A k \in 1..Len(input) : input[k] \in Pushed /\ input[k].item \in Items
<1>1. TypeOK /\ BufInv /\ input \in Seq(Pushed) /\ next \in Nat /\ render \in RenderState
      /\ InFlight \subseteq Sample
      /\ \A k \in 1..Len(input) : input[k] \in Pushed /\ input[k].item \in Items
  BY BufBasics, InFlightType DEF OrderInv, HeaderInv
<1>2. Items \subseteq Nat /\ Owned \subseteq Nat
  BY Bounds DEF Items, Owned
<1>3. SentNos \subseteq Nat
  <2>1. \A sm \in InFlight : sm.item \in Nat
    BY <1>1, <1>2 DEF Sample
  <2>2. \A s \in Subs : seen[s] \in Nat
    BY <1>1, Bounds DEF TypeOK, ShmTypeOK
  <2> QED BY <2>1, <2>2 DEF SentNos
<1>4. RenderNos \subseteq Nat
  <2>1. render.item \in Nat
    BY <1>1, Bounds DEF RenderState
  <2> QED BY <2>1 DEF RenderNos
<1>5. InputNos \subseteq Nat
  BY <1>1, <1>2 DEF InputNos
<1> QED BY <1>1, <1>2, <1>3, <1>4, <1>5

LEMMA SentMoves ==
  ASSUME OrderInv, Next
  PROVE  \/ SentNos' \subseteq SentNos
         \/ /\ SendsFrame \/ EosSend
            /\ SentNos' \subseteq SentNos \cup RenderNos /\ RenderNos' = {}
<1>1. \A s \in Subs : seen'[s] \in SentNos
  <2>1. CASE Consumer
    <3>1. PICK s \in Subs : Subscriber(s)
      BY <2>1 DEF Consumer
    <3>2. CASE Receive(s)
      <4>1. ring[s] \in Seq(Sample) /\ ring[s] # <<>>
        BY <3>2, OrderBasics DEF Receive, TypeOK, ShmTypeOK
      <4>2. Head(ring[s]) \in InFlight
        <5>1. Head(ring[s]) = ring[s][1] /\ 1 \in 1..Len(ring[s])
          BY <4>1
        <5> QED BY <5>1 DEF InFlight, Queued
      <4>3. \A r \in Subs : seen'[r] = seen[r] \/ seen'[r] = Head(ring[s]).item
        BY <3>2, OrderBasics DEF Receive, TypeOK, ShmTypeOK
      <4> QED BY <4>2, <4>3 DEF SentNos
    <3>3. CASE seen' = seen
      BY <3>3 DEF SentNos
    <3> QED BY <3>1, <3>2, <3>3 DEF Subscriber, Attach, Detach, Release, Park, Wake, WaitTimeout
  <2>2. CASE ~Consumer
    <3>1. seen' = seen
      BY <2>2, RingsUntouched DEF SendsFrame, ZeroCopySend, CopySend, EosSend
    <3> QED BY <3>1 DEF SentNos
  <2> QED BY <2>1, <2>2
<1>2. CASE ~SendsFrame /\ ~EosSend
  <2>1. InFlight' \subseteq InFlight
    BY <1>2, FlightMoves, OrderBasics
  <2> QED BY <1>1, <2>1 DEF SentNos
<1>3. CASE SendsFrame \/ EosSend
  <2>1. \A sm \in InFlight' : sm \in InFlight \/ sm.item = render.item
    BY <1>3, FlightMoves, OrderBasics DEF FrameSample, EosSample
  <2>2. render.item \in RenderNos
    BY <1>3 DEF SendsFrame, ZeroCopySend, CopySend, EosSend, RenderNos, Unsent
  <2>3. render'.pc \notin Unsent
    BY <1>3, OrderBasics DEF SendsFrame, ZeroCopySend, CopySend, EosSend, RenderState, Unsent
  <2> QED BY <1>1, <1>3, <2>1, <2>2, <2>3 DEF SentNos, RenderNos
<1> QED BY <1>2, <1>3

\* Taking the head of the input: it is in front of the rest.
LEMMA HeadFirst ==
  ASSUME OrderInv, input # <<>>, input' = Tail(input)
  PROVE  /\ InputNos' \subseteq InputNos
         /\ Head(input).kind # "caps" =>
              Head(input).item \in InputNos /\ Lower({Head(input).item}, InputNos')
<1>1. /\ Head(input) = input[1] /\ 1 \in 1..Len(input)
      /\ \A k \in 1..Len(input') : /\ k + 1 \in 1..Len(input) /\ 1 < k + 1
                                   /\ input'[k] = input[k + 1]
  BY OrderBasics
<1> QED BY <1>1 DEF OrderInv, Sorted, InputNos, Lower

LEMMA RenderNosMoves ==
  ASSUME OrderInv, Next
  PROVE  \/ RenderNos' \subseteq RenderNos
         \/ /\ RenderBegin \/ PublishEos
            /\ input # <<>> /\ input' = Tail(input)
            /\ RenderNos' \subseteq InputNos /\ Lower(RenderNos', InputNos')
<1>1. CASE RenderBegin \/ PublishEos
  <2>1. input # <<>> /\ input' = Tail(input) /\ Head(input).kind # "caps"
    BY <1>1 DEF RenderBegin, PublishEos, Take
  <2>2. render'.item = Head(input).item \/ render'.pc \notin Unsent
    <3>1. CASE RenderBegin
      BY <3>1 DEF RenderBegin, Idle
    <3>2. CASE PublishEos
      <4>1. render = Idle
        BY <3>2 DEF PublishEos, Take
      <4>2. render' = render \/ render'.item = Head(input).item
        BY <3>2 DEF PublishEos, Idle
      <4> QED BY <4>1, <4>2 DEF Idle, Unsent
    <3> QED BY <1>1, <3>1, <3>2
  <2>3. \A i \in RenderNos' : i = Head(input).item
    BY <2>2 DEF RenderNos
  <2> QED BY <1>1, <2>1, <2>3, HeadFirst DEF Lower
<1>2. CASE ~RenderBegin /\ ~PublishEos
  BY <1>2, RenderMoves, OrderBasics DEF RenderNos
<1> QED BY <1>1, <1>2

\* Only alloc_buffer gives the upstream a buffer, that of the next item.
LEMMA OwnedMoves ==
  ASSUME OrderInv, Next
  PROVE  IF AllocBuffer THEN Owned' \subseteq Owned \cup {next} ELSE Owned' \subseteq Owned
<1>1. \A i \in Items : buf[i] \in Buffer
  BY OrderBasics, BufBasics
<1>2. ASSUME NEW i \in Items, \A j \in Items : j # i => buf'[j] = buf[j], buf'[i].st # "own"
      PROVE  Owned' \subseteq Owned
  BY <1>2 DEF Owned
<1>3. ASSUME NEW i \in Items, buf' = Done(i) PROVE Owned' \subseteq Owned
  BY <1>1, <1>2, <1>3, OrderBasics, BufBasics DEF Done, Buffer
<1>4. CASE buf' = buf
  BY <1>4 DEF Owned
<1>5. CASE AllocBuffer
  <2>1. \A j \in Items : j # next => buf'[j] = buf[j]
    BY <1>5, OrderBasics, BufBasics DEF AllocBuffer
  <2> QED BY <1>5, <2>1 DEF Owned
<1>6. CASE PushSystem
  <2>1. next \in Items /\ buf'[next].st = "queued" /\ \A j \in Items : j # next => buf'[j] = buf[j]
    BY <1>6, OrderBasics, BufBasics DEF PushSystem, Produce
  <2>2. ~AllocBuffer
    BY <1>6, OrderBasics DEF PushSystem, Produce, AllocBuffer
  <2> QED BY <1>2, <2>1, <2>2
<1>7. ASSUME NEW i \in Items, FillAndPush(i) PROVE Owned' \subseteq Owned
  <2>1. buf'[i].st = "queued" /\ \A j \in Items : j # i => buf'[j] = buf[j]
    BY <1>7, OrderBasics, BufBasics DEF FillAndPush, Buffer
  <2> QED BY <1>2, <2>1
<1>8. CASE Drop
  <2>1. PICK i \in Items : HandleDrop(i)
    BY <1>8 DEF Drop
  <2>2. buf'[i].st = "gone" /\ \A j \in Items : j # i => buf'[j] = buf[j]
    BY <2>1, OrderBasics, BufBasics DEF HandleDrop, Buffer
  <2> QED BY <1>2, <2>2
<1>9. CASE FlushItem \/ RenderBegin
  <2>1. Head(input).item \in Items
    BY <1>9, OrderBasics, HeadFilled DEF FlushItem, RenderBegin, Take
  <2>2. CASE RenderBegin
    <3>1. /\ buf'[Head(input).item].st = "render"
          /\ \A j \in Items : j # Head(input).item => buf'[j] = buf[j]
      BY <2>1, <2>2, OrderBasics, BufBasics DEF RenderBegin, Buffer
    <3> QED BY <1>2, <2>1, <3>1
  <2> QED BY <1>3, <1>4, <1>9, <2>1, <2>2 DEF FlushItem
<1>10. CASE TakeLoan
  <2>1. render.item \in Items
    BY <1>10, OrderBasics, BufBasics DEF TakeLoan
  <2>2. /\ buf'[render.item].st = "taken"
        /\ \A j \in Items : j # render.item => buf'[j] = buf[j]
    BY <1>10, <2>1, OrderBasics, BufBasics DEF TakeLoan, Buffer
  <2> QED BY <1>2, <2>1, <2>2
<1>11. CASE Render /\ ~RenderBegin /\ ~TakeLoan
  <2>1. buf' = buf \/ (render.pc # "idle" /\ buf' = Done(render.item))
    BY <1>11 DEF Render, AwaitConnection, AwaitFlushing, RenderRefused, ZeroCopySend,
       ZeroCopyNotify, CopyStart, CopyLoan, CopyLoanFails, CopySend, CopyNotify, SendFails,
       NotifyFails, Return
  <2> QED BY <1>3, <1>4, <2>1, OrderBasics, BufBasics
<1>12. CASE Application \/ Consumer \/ SetCaps \/ PublishEos \/ EosSend \/ EosNotify
            \/ PushCaps \/ PushEos \/ ProposeAllocation \/ AcquireBegin \/ AllocFails
  BY <1>4, <1>12 DEF Application, Start, Stop, Unlock, UnlockStop, FlushStop, Consumer, SetCaps,
     PublishEos, EosSend, EosNotify, PushCaps, PushEos, ProposeAllocation, AcquireBegin, AllocFails
<1> QED BY <1>5, <1>6, <1>7, <1>8, <1>9, <1>10, <1>11, <1>12 DEF Next, Streaming, Upstream

\* What is pushed: the next item, when no buffer is owned, or the first one.
LEMMA PushedItem ==
  ASSUME OrderInv, Pushes
  PROVE  \E e \in Pushed :
           /\ input' = Append(input, e)
           /\ \/ e.item = next /\ next' = next + 1 /\ Owned = {}
              \/ /\ e.item \in Owned /\ next' = next
                 /\ Owned' \subseteq Owned /\ Lower({e.item}, Owned')
<1>1. CASE PushCaps \/ PushEos \/ PushSystem
  <2>1. next \in Items /\ next' = next + 1 /\ Owned = {}
    BY <1>1 DEF PushCaps, PushEos, PushSystem, Produce
  <2>2. \E kind \in {"caps", "eos", "buffer"} :
          input' = Append(input, [kind |-> kind, item |-> next])
    BY <1>1 DEF PushCaps, PushEos, PushSystem, Push
  <2>3. \A kind \in {"caps", "eos", "buffer"} : [kind |-> kind, item |-> next] \in Pushed
    BY <2>1 DEF Pushed
  <2> QED BY <2>1, <2>2, <2>3
<1>2. ASSUME NEW i \in Items, FillAndPush(i)
      PROVE  \E e \in Pushed :
               /\ input' = Append(input, e)
               /\ e.item \in Owned /\ next' = next
               /\ Owned' \subseteq Owned /\ Lower({e.item}, Owned')
  <2>1. /\ i \in Owned /\ next' = next /\ \A j \in Owned : i <= j
        /\ input' = Append(input, [kind |-> "buffer", item |-> i])
    BY <1>2 DEF FillAndPush, Push, upVars
  <2>2. Owned' \subseteq Owned \ {i}
    <3>1. /\ \A j \in Items : j # i => buf'[j] = buf[j]
          /\ buf'[i].st = "queued"
      BY <1>2, OrderBasics, BufBasics DEF FillAndPush, Buffer
    <3> QED BY <3>1 DEF Owned
  <2>3. Lower({i}, Owned')
    BY <2>1, <2>2, OrderBasics DEF Lower
  <2>4. [kind |-> "buffer", item |-> i] \in Pushed
    BY DEF Pushed
  <2> QED BY <2>1, <2>2, <2>3, <2>4
<1> QED BY <1>1, <1>2 DEF Pushes

LEMMA AppendNos ==
  ASSUME OrderInv, NEW e \in Pushed, input' = Append(input, e)
  PROVE  InputNos' \subseteq InputNos \cup {e.item}
<1>1. \A k \in 1..Len(input') : input'[k] = e \/ (k \in 1..Len(input) /\ input'[k] = input[k])
  BY OrderBasics
<1> QED BY <1>1 DEF InputNos

LEMMA NextMoves ==
  ASSUME OrderInv, Next
  PROVE  next' \in Nat /\ next' >= next
  BY StepSettles, OrderBasics DEF Settles

LEMMA InOrderStep == OrderInv /\ Next => InOrder'
<1> SUFFICES ASSUME OrderInv, Next
             PROVE  Staged(SentNos', RenderNos', InputNos', Owned', next')
  BY DEF InOrder, Staged
<1> DEFINE Moves == Advance(SentNos, RenderNos, InputNos, Owned, next,
                           SentNos', RenderNos', InputNos', Owned', next')
<1>1. Moves
  <2>1. CASE SendsFrame \/ EosSend
    <3>1. input' = input
      BY <2>1 DEF SendsFrame, ZeroCopySend, CopySend, EosSend, RenderFrame
    <3>2. ~AllocBuffer
      BY <2>1 DEF SendsFrame, ZeroCopySend, CopySend, EosSend, AllocBuffer, RenderFrame, upVars
    <3>3. InputNos' = InputNos /\ Owned' \subseteq Owned
      BY <3>1, <3>2, OwnedMoves DEF InputNos
    <3>4. SentNos' \subseteq SentNos \/ RenderNos' = {}
      BY SentMoves
    <3> QED BY <2>1, <3>3, SentMoves, RenderNosMoves DEF Advance
  <2>2. CASE ~SendsFrame /\ ~EosSend /\ TakesHead
    <3>1. input # <<>> /\ input' = Tail(input)
      BY <2>2 DEF TakesHead, FlushItem, SetCaps, PublishEos, RenderBegin, Take
    <3>2. ~AllocBuffer
      BY <3>1, OrderBasics DEF AllocBuffer
    <3> QED BY <2>2, <3>1, <3>2, SentMoves, HeadFirst, RenderNosMoves, OwnedMoves DEF Advance
  <2>3. CASE Pushes
    <3>1. PICK e \in Pushed :
            /\ input' = Append(input, e)
            /\ \/ e.item = next /\ next' = next + 1 /\ Owned = {}
               \/ /\ e.item \in Owned /\ next' = next
                  /\ Owned' \subseteq Owned /\ Lower({e.item}, Owned')
      BY <2>3, PushedItem
    <3>2. InputNos' \subseteq InputNos \cup {e.item}
      BY <3>1, AppendNos
    <3>3. render' = render /\ ~AllocBuffer
      <4>1. render' = render
        BY <2>3, PushMoves, OrderBasics
      <4>2. ~AllocBuffer
        BY <3>1, OrderBasics DEF AllocBuffer
      <4> QED BY <4>1, <4>2
    <3>4. SentNos' \subseteq SentNos
      <4>1. ~SendsFrame /\ ~EosSend
        BY <3>3, OrderBasics DEF SendsFrame, ZeroCopySend, CopySend, EosSend, RenderState
      <4> QED BY <4>1, SentMoves
    <3>5. RenderNos' = RenderNos
      BY <3>3 DEF RenderNos
    <3>6. Owned' \subseteq Owned
      BY <3>3, OwnedMoves
    <3>7. CASE e.item = next /\ next' = next + 1 /\ Owned = {}
      BY <3>2, <3>4, <3>5, <3>6, <3>7, OrderBasics DEF Advance
    <3>8. CASE e.item \in Owned /\ next' = next /\ Lower({e.item}, Owned')
      <4>1. InputNos \cap Owned = {}
        <5>1. Lower(InputNos, Owned)
          BY DEF OrderInv, InOrder, Staged
        <5>2. \A i \in InputNos \cap Owned : i < i
          BY <5>1 DEF Lower
        <5> QED BY <5>2, OrderBasics
      <4>2. Lower(InputNos' \cap Owned, Owned')
        BY <3>2, <3>8, <4>1 DEF Lower
      <4> QED BY <3>2, <3>4, <3>5, <3>6, <3>8, <4>2 DEF Advance
    <3> QED BY <3>1, <3>7, <3>8
  <2>4. CASE AllocBuffer
    <3>1. next' = next + 1 /\ input' = input /\ render' = render
      BY <2>4 DEF AllocBuffer, streamVars
    <3>2. Owned' \subseteq Owned \cup {next}
      BY <2>4, OwnedMoves
    <3>3. RenderNos' = RenderNos /\ InputNos' = InputNos
      BY <3>1 DEF RenderNos, InputNos
    <3>4. SentNos' \subseteq SentNos
      <4>1. ~SendsFrame /\ ~EosSend
        BY <3>1, OrderBasics DEF SendsFrame, ZeroCopySend, CopySend, EosSend, RenderState
      <4> QED BY <4>1, SentMoves
    <3>5. next..(next' - 1) = {next}
      BY <3>1, OrderBasics
    <3> QED BY <3>2, <3>3, <3>4, <3>5 DEF Advance
  <2>5. CASE ~SendsFrame /\ ~EosSend /\ ~TakesHead /\ ~Pushes /\ ~AllocBuffer
    <3>1. InputNos' \subseteq InputNos
      <4>1. CASE input' = StickyCaps
        <5>1. \A k \in 1..Len(input') : input'[k].kind = "caps"
          BY <4>1 DEF StickyCaps
        <5> QED BY <5>1 DEF InputNos
      <4>2. CASE input' = input
        BY <4>2 DEF InputNos
      <4> QED BY <2>5, <4>1, <4>2, InputMoves
    <3> QED BY <2>5, <3>1, SentMoves, RenderNosMoves, OwnedMoves DEF TakesHead, Advance
  <2> QED BY <2>1, <2>2, <2>3, <2>4, <2>5
<1>2. Staged(SentNos, RenderNos, InputNos, Owned, next)
  BY DEF OrderInv, InOrder
<1>3. next \in Nat /\ SentNos \cup RenderNos \cup InputNos \cup Owned \subseteq Nat
  BY OrderBasics
<1>4. next' \in Nat /\ next' >= next
  BY NextMoves
<1> QED BY <1>1, <1>2, <1>3, <1>4, StagedMoves

LEMMA SortedStep == OrderInv /\ Next => Sorted'
<1> SUFFICES ASSUME OrderInv, Next PROVE Sorted'
  OBVIOUS
<1>1. CASE input # <<>> /\ input' = Tail(input)
  <2>1. \A k \in 1..Len(input') : k \in Int /\ k + 1 \in 1..Len(input) /\ input'[k] = input[k + 1]
    BY <1>1, OrderBasics
  <2> QED BY <2>1 DEF OrderInv, Sorted
<1>2. CASE Pushes
  <2>1. PICK e \in Pushed : input' = Append(input, e) /\ (e.item = next \/ e.item \in Owned)
    BY <1>2, PushedItem
  <2>2. \A i \in InputNos : i < e.item
    <3>1. Lower(InputNos, Owned) /\ Lower(InputNos, {next})
      BY DEF OrderInv, InOrder, Staged, Lower
    <3> QED BY <2>1, <3>1 DEF Lower
  <2>3. /\ Len(input) \in Nat /\ Len(input') = Len(input) + 1 /\ input'[Len(input) + 1] = e
        /\ \A k \in 1..Len(input') : k = Len(input) + 1 \/ k \in 1..Len(input)
        /\ \A k \in 1..Len(input) : input'[k] = input[k]
    BY <2>1, OrderBasics
  <2>4. ASSUME NEW k \in 1..Len(input'), NEW l \in 1..Len(input'), k < l,
               input'[k].kind # "caps", input'[l].kind # "caps"
        PROVE  input'[k].item < input'[l].item
    <3>1. k \in 1..Len(input)
      BY <2>3, <2>4
    <3>2. CASE l \in 1..Len(input)
      BY <2>3, <2>4, <3>1, <3>2 DEF OrderInv, Sorted
    <3>3. CASE l = Len(input) + 1
      <4>1. input[k].item \in InputNos
        BY <2>3, <2>4, <3>1 DEF InputNos
      <4> QED BY <2>2, <2>3, <3>1, <3>3, <4>1
    <3> QED BY <2>3, <3>2, <3>3
  <2> QED BY <2>4 DEF Sorted
<1>3. CASE input' = StickyCaps
  <2>1. \A k \in 1..Len(input') : input'[k].kind = "caps"
    BY <1>3 DEF StickyCaps
  <2> QED BY <2>1 DEF Sorted
<1>4. CASE input' = input
  BY <1>4 DEF OrderInv, Sorted
<1> QED BY <1>1, <1>2, <1>3, <1>4, InputMoves

\* A sample that is sent has a number no sample in flight has.
LEMMA OneSampleStep == OrderInv /\ Next => OneSample'
<1> SUFFICES ASSUME OrderInv, Next
             PROVE  \A a, b \in InFlight' : a.item = b.item => a = b
  BY DEF OneSample
<1>1. CASE InFlight' \subseteq InFlight
  BY <1>1 DEF OrderInv, OneSample
<1>2. ASSUME NEW sm, sm.item = render.item, render.pc \in Unsent,
             InFlight' \subseteq InFlight \cup {sm}
      PROVE  \A a, b \in InFlight' : a.item = b.item => a = b
  <2>1. \A a \in InFlight : a.item < render.item
    <3>1. Lower(SentNos, RenderNos)
      BY DEF OrderInv, InOrder, Staged, Lower
    <3> QED BY <1>2, <3>1 DEF Lower, SentNos, RenderNos
  <2>2. render.item \in Int
    BY OrderBasics, Bounds DEF RenderState
  <2>3. \A a \in InFlight : a.item # sm.item
    BY <1>2, <2>1, <2>2
  <2> QED BY <1>2, <2>3 DEF OrderInv, OneSample
<1>3. CASE SendsFrame
  <2>1. FrameSample.item = render.item /\ render.pc \in Unsent
    BY <1>3 DEF FrameSample, SendsFrame, ZeroCopySend, CopySend, Unsent
  <2>2. InFlight' \subseteq InFlight \cup {FrameSample}
    BY <1>3, FlightMoves, OrderBasics DEF SendsFrame, ZeroCopySend, CopySend, EosSend
  <2> QED BY <1>2, <2>1, <2>2
<1>4. CASE EosSend
  <2>1. EosSample.item = render.item /\ render.pc \in Unsent
    BY <1>4 DEF EosSample, EosSend, Unsent
  <2>2. InFlight' \subseteq InFlight \cup {EosSample}
    BY <1>4, FlightMoves, OrderBasics DEF SendsFrame, ZeroCopySend, CopySend, EosSend
  <2> QED BY <1>2, <2>1, <2>2
<1> QED BY <1>1, <1>3, <1>4, FlightMoves, OrderBasics

LEMMA RingOrderStep == OrderInv /\ Next => RingOrder'
<1> SUFFICES ASSUME OrderInv, Next PROVE RingOrder'
  OBVIOUS
<1>1. ShmTypeOK /\ RingOrder
  BY OrderBasics DEF OrderInv, TypeOK
<1>2. ASSUME NEW sm \in Sample, Send(sm, RingOverflow), seen' = seen,
             sm.item = render.item, render.pc \in Unsent
      PROVE  RingOrder'
  <2>1. \A n \in SentNos : n < sm.item
    <3>1. Lower(SentNos, RenderNos)
      BY DEF OrderInv, InOrder, Staged, Lower
    <3> QED BY <1>2, <3>1 DEF Lower, RenderNos
  <2>2. \A s \in Subs : seen[s] < sm.item /\ \A k \in 1..Len(ring[s]) : ring[s][k].item < sm.item
    BY <2>1 DEF SentNos, InFlight, Queued
  <2> QED BY <1>1, <1>2, <2>2, SendRises, RingOverflowType
<1>3. CASE SendsFrame
  <2>1. /\ FrameSample.item = render.item /\ render.pc \in Unsent /\ seen' = seen
    BY <1>3 DEF FrameSample, SendsFrame, ZeroCopySend, CopySend, Unsent
  <2>2. FrameSample \in Sample /\ Send(FrameSample, RingOverflow)
    BY <1>3, FlightMoves, OrderBasics DEF SendsFrame, ZeroCopySend, CopySend, EosSend
  <2> QED BY <1>2, <2>1, <2>2
<1>4. CASE EosSend
  <2>1. /\ EosSample.item = render.item /\ render.pc \in Unsent /\ seen' = seen
    BY <1>4 DEF EosSample, EosSend, Unsent
  <2>2. EosSample \in Sample /\ Send(EosSample, RingOverflow)
    BY <1>4, FlightMoves, OrderBasics DEF SendsFrame, ZeroCopySend, CopySend, EosSend
  <2> QED BY <1>2, <2>1, <2>2
<1>5. CASE Consumer
  <2>1. PICK s \in Subs : PortStep(s)
    BY <1>5 DEF Consumer, Subscriber, PortStep
  <2> QED BY <1>1, <2>1, PortRises
<1>6. CASE ~SendsFrame /\ ~EosSend /\ ~Consumer
  <2>1. ring' = ring /\ seen' = seen
    BY <1>6, RingsUntouched
  <2> QED BY <1>1, <2>1 DEF RingOrder
<1> QED BY <1>3, <1>4, <1>5, <1>6

LEMMA OrderInit == Init => OrderInv
<1> SUFFICES ASSUME Init PROVE OrderInv
  OBVIOUS
<1>1. InFlight = {} /\ \A s \in Subs : seen[s] = 0 /\ ring[s] = <<>>
  BY DEF Init, ShmInit, InFlight, Queued
<1>2. RenderNos = {} /\ InputNos = {} /\ next = 1 /\ input = <<>>
  BY DEF Init, Idle, RenderNos, Unsent, InputNos
<1>3. Owned = {}
  BY DEF Init, NoBuffer, Owned
<1>4. InOrder
  BY <1>1, <1>2, <1>3 DEF InOrder, Staged, Lower, SentNos
<1>5. Sorted /\ OneSample /\ RingOrder
  BY <1>1, <1>2 DEF Sorted, OneSample, RingOrder, Rising
<1> QED BY <1>4, <1>5, HeaderInit DEF OrderInv

\* What the sink does not touch, it keeps.
LEMMA OrderSame ==
  ASSUME OrderInv, HeaderInv', RingOrder', InFlight' \subseteq InFlight,
         \A s \in Subs : seen'[s] \in SentNos, UNCHANGED <<render, input, next, buf>>
  PROVE  OrderInv'
<1>1. SentNos' \subseteq SentNos
  BY DEF SentNos
<1>2. RenderNos' = RenderNos /\ InputNos' = InputNos /\ Owned' = Owned
  BY DEF RenderNos, InputNos, Owned
<1>3. InOrder'
  BY <1>1, <1>2 DEF OrderInv, InOrder, Staged, Lower
<1>4. Sorted' /\ OneSample'
  BY DEF OrderInv, Sorted, OneSample
<1> QED BY <1>3, <1>4 DEF OrderInv

LEMMA OrderStep == OrderInv /\ [Next]_vars => OrderInv'
<1> SUFFICES ASSUME OrderInv, [Next]_vars PROVE OrderInv'
  OBVIOUS
<1>1. HeaderInv'
  BY HeaderStep DEF OrderInv
<1>2. CASE Next
  BY <1>1, <1>2, InOrderStep, SortedStep, OneSampleStep, RingOrderStep DEF OrderInv
<1>3. CASE UNCHANGED vars
  <2>1. UNCHANGED <<ring, borrowed, seen, render, input, next, buf>>
    BY <1>3 DEF vars, shmVars, streamVars, upVars
  <2>2. InFlight' = InFlight /\ \A s \in Subs : seen'[s] \in SentNos
    BY <2>1, InFlightSame DEF SentNos
  <2>3. RingOrder'
    BY <2>1 DEF OrderInv, RingOrder
  <2> QED BY <1>1, <2>1, <2>2, <2>3, OrderSame
<1> QED BY <1>2, <1>3

\* What waits in the ring of a subscriber is newer than all it has read, and in
\* the order it was pushed: it reads no item twice or late, whatever was
\* overwritten, over flushes, restarts and failures (sink.rs:530-545, 583-595).
THEOREM ReadersReadInOrder == Spec => []RingOrder
<1>1. OrderInv => RingOrder
  BY DEF OrderInv
<1> QED BY <1>1, OrderInit, OrderStep, PTL DEF Spec

LEMMA ChannelInit == Init => ChannelInv
  BY FrameInit, OrderInit DEF ChannelInv

LEMMA ChannelStep == MaxLive <= 1 /\ ChannelInv /\ [Next]_vars => ChannelInv'
  BY FrameInvStep, OrderStep DEF ChannelInv

LEMMA ChannelBasics ==
  ASSUME ChannelInv
  PROVE  /\ OrderInv /\ FrameInv /\ HeaderInv /\ InOrder /\ OneSample
         /\ TypeOK /\ BufInv /\ input \in Seq(Pushed) /\ next \in Nat
         /\ render \in RenderState /\ InFlight \subseteq Sample
         /\ SentNos \cup RenderNos \cup InputNos \cup Owned \subseteq Nat
  BY OrderBasics DEF ChannelInv, OrderInv

----------------------------------------------------------------------------
\* What readers see.

\* A sample as its reader sees it, when its pixels are intact.
View(sm) == [item |-> sm.item, caps |-> sm.caps, eos |-> sm.eos,
             pixels |-> IF sm.eos THEN 0 ELSE sm.item]
Views(q) == [k \in 1..Len(q) |-> View(q[k])]

QueueViews == [s \in Subs |-> Views(ring[s])]
HeldViews  == [s \in Subs |-> {View(sm) : sm \in borrowed[s]}]

LEMMA ViewsSeq ==
  ASSUME NEW q \in Seq(Sample)
  PROVE  /\ Views(q) \in Seq({View(sm) : sm \in Sample})
         /\ Len(Views(q)) = Len(q)
         /\ Views(q) = <<>> <=> q = <<>>
<1>1. \A k \in 1..Len(q) : Views(q)[k] \in {View(sm) : sm \in Sample}
  BY DEF Views
<1>2. Len(q) \in Nat /\ DOMAIN Views(q) = 1..Len(q) /\ Views(q) = [k \in 1..Len(q) |-> Views(q)[k]]
  BY DEF Views
<1>3. Views(q) \in Seq({View(sm) : sm \in Sample}) /\ Len(Views(q)) = Len(q)
  BY <1>1, <1>2
<1> QED BY <1>3

LEMMA ViewsAppend ==
  ASSUME NEW q \in Seq(Sample), NEW sm \in Sample
  PROVE  Views(Append(q, sm)) = Append(Views(q), View(sm))
<1> DEFINE V == {View(a) : a \in Sample}
           s == Views(Append(q, sm))
           t == Append(Views(q), View(sm))
<1>1. Append(q, sm) \in Seq(Sample) /\ Len(Append(q, sm)) = Len(q) + 1 /\ Len(q) \in Nat
  OBVIOUS
<1>2. s \in Seq(V) /\ Len(s) = Len(q) + 1
  BY <1>1, ViewsSeq
<1>3. Views(q) \in Seq(V) /\ View(sm) \in V /\ Len(Views(q)) = Len(q)
  BY ViewsSeq
<1>4. t \in Seq(V) /\ Len(t) = Len(q) + 1
  BY <1>1, <1>3
<1>5. \A k \in 1..(Len(q) + 1) : s[k] = t[k]
  BY <1>1, <1>3 DEF Views
<1> HIDE DEF V, s, t
<1>6. s = t
  BY <1>2, <1>4, <1>5, SeqEqual
<1> QED BY <1>6 DEF s, t

LEMMA ViewsTail ==
  ASSUME NEW q \in Seq(Sample), q # <<>>
  PROVE  /\ Views(Tail(q)) = Tail(Views(q))
         /\ Head(Views(q)) = View(Head(q))
<1> DEFINE V == {View(a) : a \in Sample}
           s == Views(Tail(q))
           t == Tail(Views(q))
<1>1. /\ Tail(q) \in Seq(Sample) /\ Len(Tail(q)) = Len(q) - 1 /\ Len(q) \in Nat \ {0}
      /\ Head(q) = q[1] /\ \A k \in 1..(Len(q) - 1) : Tail(q)[k] = q[k + 1]
  OBVIOUS
<1>2. s \in Seq(V) /\ Len(s) = Len(q) - 1
  BY <1>1, ViewsSeq
<1>3. Views(q) \in Seq(V) /\ Len(Views(q)) = Len(q) /\ Views(q) # <<>>
  BY <1>1, ViewsSeq
<1>4. t \in Seq(V) /\ Len(t) = Len(q) - 1 /\ Head(Views(q)) = Views(q)[1]
      /\ \A k \in 1..(Len(q) - 1) : t[k] = Views(q)[k + 1]
  BY <1>1, <1>3
<1>5. \A k \in 1..(Len(q) - 1) : s[k] = t[k]
  BY <1>1, <1>4 DEF Views
<1>6. Head(Views(q)) = View(Head(q))
  BY <1>1, <1>4 DEF Views
<1> HIDE DEF V, s, t
<1>7. s = t
  BY <1>2, <1>4, <1>5, SeqEqual
<1> QED BY <1>6, <1>7 DEF s, t

LEMMA ReadersSee == ChannelInv => Queue = QueueViews /\ Held = HeldViews
<1> SUFFICES ASSUME ChannelInv PROVE Queue = QueueViews /\ Held = HeldViews
  OBVIOUS
<1>1. \A sm \in InFlight : Seen(sm) = View(sm)
  BY DEF ChannelInv, FrameInv, FrameIntact, Seen, View
<1>2. \A s \in Subs : \A k \in 1..Len(ring[s]) : ring[s][k] \in InFlight
  BY DEF InFlight, Queued
<1>3. \A s \in Subs : borrowed[s] \subseteq InFlight
  BY DEF InFlight
<1>4. Queue = QueueViews
  BY <1>1, <1>2 DEF Queue, QueueViews, Views
<1>5. Held = HeldViews
  <2>1. \A s \in Subs : {Seen(sm) : sm \in borrowed[s]} = {View(sm) : sm \in borrowed[s]}
    BY <1>1, <1>3
  <2> QED BY <2>1 DEF Held, HeldViews
<1> QED BY <1>4, <1>5

\* No two samples a reader has look the same.
LEMMA ViewsDiffer ==
  ASSUME ChannelInv, NEW a \in InFlight, NEW b \in InFlight, View(a) = View(b)
  PROVE  a = b
<1>1. a.item = b.item
  BY DEF View
<1> QED BY <1>1 DEF ChannelInv, OrderInv, OneSample

LEMMA ReadersSeeNext == ChannelInv' => Queue' = QueueViews' /\ Held' = HeldViews'
<1>1. ChannelInv' => (Queue = QueueViews /\ Held = HeldViews)'
  BY ReadersSee, PTL
<1> QED BY <1>1

----------------------------------------------------------------------------
\* The steps of the channel.

\* No buffer gets caps: nothing is offered.
LEMMA OffersNothing ==
  ASSUME \A i \in Items : buf'[i].caps = buf[i].caps
  PROVE  Offered' = Offered
  BY DEF Offered, Given

\* One buffer gets caps: its frame is offered.
LEMMA OffersOne ==
  ASSUME NEW i \in Items, buf[i].caps = 0, buf'[i].caps \in Items,
         \A j \in Items : j # i => buf'[j].caps = buf[j].caps
  PROVE  Offered' = Offered \cup {Channel!Frame(i, buf'[i].caps)}
<1>1. buf'[i].caps # 0
  BY Bounds DEF Items
<1> DEFINE had == {j \in Items : buf[j].caps # 0}
           has == {j \in Items : buf'[j].caps # 0}
<1>2. has = had \cup {i} /\ i \notin had
  BY <1>1
<1> DEFINE G(j) == [item |-> j, caps |-> buf'[j].caps, eos |-> FALSE, pixels |-> j]
<1>3. \A j \in had : Given(j) = G(j)
  BY <1>2 DEF Given
<1>4. Channel!Frame(i, buf'[i].caps) = G(i)
  BY DEF Channel!Frame
<1>5. Offered' = {G(j) : j \in has}
  BY DEF Offered, Given
<1>6. Offered = {Given(j) : j \in had}
  BY DEF Offered
<1> HIDE DEF G, has, had
<1> QED BY <1>2, <1>3, <1>4, <1>5, <1>6

LEMMA Publishes ==
  ASSUME ChannelInv, ChannelInv', NEW sm \in Sample, Send(sm, RingOverflow),
         UNCHANGED <<borrowed, attached, seen>>, Offered' = Offered,
         sm.item = render.item, render.pc \in Unsent
  PROVE  Channel!Publish(View(sm))
<1>1. Queue = QueueViews /\ Held = HeldViews /\ Queue' = QueueViews' /\ Held' = HeldViews'
  BY ReadersSee, ReadersSeeNext
<1>2. \A s \in Subs : ring[s] \in Seq(Sample)
  BY ChannelBasics DEF TypeOK, ShmTypeOK
<1>3. \A s \in Subs : Len(Queue[s]) = Len(ring[s]) /\ Queue[s] = Views(ring[s])
  BY <1>1, <1>2, ViewsSeq DEF QueueViews
<1>4. Lower(SentNos, {render.item})
  <2>1. Lower(SentNos, RenderNos)
    BY DEF ChannelInv, OrderInv, InOrder, Staged, Lower
  <2> QED BY <2>1 DEF RenderNos
<1>5. View(sm).item = render.item
  BY DEF View
<1>6. ASSUME NEW s \in attached
      PROVE  /\ View(sm).item > seen[s]
             /\ \A e \in Channel!Waiting(s) : View(sm).item > e.item
             /\ Len(Queue[s]) < BufferSize \/ (SafeOverflow /\ ~Lossless)
  <2>1. s \in Subs
    BY ChannelBasics DEF TypeOK, ShmTypeOK
  <2>2. seen[s] \in SentNos
    BY <2>1 DEF SentNos
  <2>3. \A e \in Channel!Waiting(s) : e.item \in SentNos
    <3>1. \A k \in 1..Len(ring[s]) : ring[s][k].item \in SentNos
      BY <2>1 DEF SentNos, InFlight, Queued
    <3>2. \A k \in 1..Len(ring[s]) : Queue[s][k].item = ring[s][k].item
      <4>1. \A k \in 1..Len(ring[s]) : Queue[s][k] = View(ring[s][k])
        BY <1>3, <2>1 DEF Views
      <4>2. \A k \in 1..Len(ring[s]) : View(ring[s][k]).item = ring[s][k].item
        BY DEF View
      <4> QED BY <4>1, <4>2
    <3> QED BY <1>3, <2>1, <3>1, <3>2 DEF Channel!Waiting
  <2>4. \A n \in SentNos : n < render.item /\ n \in Nat
    BY <1>4, ChannelBasics DEF Lower
  <2>5. render.item \in Nat
    BY ChannelBasics, Bounds DEF RenderState
  <2>6. Len(Queue[s]) < BufferSize \/ RingOverflow
    BY <1>2, <1>3, <2>1, Bounds DEF Send, RingFull
  <2> QED BY <1>5, <2>2, <2>3, <2>4, <2>5, <2>6 DEF RingOverflow
<1>7. Queue' = [s \in Subs |->
                  IF s \notin attached THEN Queue[s]
                  ELSE IF Len(Queue[s]) < BufferSize THEN Append(Queue[s], View(sm))
                  ELSE Append(Tail(Queue[s]), View(sm))]
  <2>1. ASSUME NEW s \in Subs
        PROVE  Views(ring'[s]) =
                 IF s \notin attached THEN Queue[s]
                 ELSE IF Len(Queue[s]) < BufferSize THEN Append(Queue[s], View(sm))
                 ELSE Append(Tail(Queue[s]), View(sm))
    <3>1. CASE s \notin attached
      <4>1. ring'[s] = ring[s]
        BY <3>1 DEF Send
      <4> QED BY <1>3, <3>1, <4>1
    <3>2. CASE s \in attached /\ Len(ring[s]) < BufferSize
      <4>1. ring'[s] = Append(ring[s], sm)
        BY <1>2, <3>2, Bounds DEF Send, RingFull
      <4> QED BY <1>2, <1>3, <3>2, <4>1, ViewsAppend
    <3>3. CASE s \in attached /\ ~(Len(ring[s]) < BufferSize)
      <4>1. ring'[s] = Append(Tail(ring[s]), sm)
        BY <1>2, <3>3, Bounds DEF Send, RingFull
      <4>2. ring[s] # <<>>
        BY <1>2, <3>3, Bounds
      <4>3. Tail(ring[s]) \in Seq(Sample)
        BY <1>2, <4>2
      <4> QED BY <1>2, <1>3, <3>3, <4>1, <4>2, <4>3, ViewsAppend, ViewsTail
    <3> QED BY <3>1, <3>2, <3>3
  <2> QED BY <1>1, <2>1 DEF QueueViews
<1>8. Held' = Held
  BY <1>1 DEF HeldViews
<1> QED BY <1>6, <1>7, <1>8 DEF Channel!Publish

LEMMA ReadersKeep ==
  ASSUME ChannelInv, ChannelInv', UNCHANGED <<ring, borrowed>>
  PROVE  Queue' = Queue /\ Held' = Held
  BY ReadersSee, ReadersSeeNext DEF QueueViews, HeldViews, Views

\* A step that neither sends, nor is a consumer's, nor pushes a buffer does not show.
LEMMA QuietHides ==
  ASSUME ChannelInv, ChannelInv', Next, ~Consumer, ~SendsFrame, ~EosSend,
         ~PushSystem, \A i \in Items : ~FillAndPush(i)
  PROVE  UNCHANGED Channel!vars
<1>1. UNCHANGED <<ring, borrowed, attached, seen>>
  BY RingsUntouched
<1>2. \A i \in Items : buf'[i].caps = buf[i].caps
  <2>1. buf \in [Items -> Buffer] /\ \A i \in Items : buf[i].st = "none" => buf[i].caps = 0
    BY ChannelBasics, BufBasics DEF BufInv, Buffers, Filled
  <2>2. CASE AllocBuffer
    <3>1. next \in Items /\ buf[next].caps = 0 /\ buf'[next].caps = 0
      <4>1. next \in Items
        BY <2>2, ChannelBasics DEF AllocBuffer, TypeOK, UpstreamTypeOK
      <4>2. buf[next].st = "none"
        BY <4>1, ChannelBasics DEF BufInv, Buffers
      <4> QED BY <2>1, <2>2, <4>1, <4>2 DEF AllocBuffer
    <3>2. \A j \in Items : j # next => buf'[j] = buf[j]
      BY <2>2, AllocHandle DEF ChannelInv
    <3> QED BY <3>1, <3>2
  <2>3. CASE Drop
    BY <2>1, <2>3 DEF Drop, HandleDrop, Buffer
  <2>4. CASE (Application \/ Upstream) /\ ~AllocBuffer
    BY <2>4 DEF Application, Start, Stop, Unlock, UnlockStop, FlushStop, Upstream,
       PushCaps, PushEos, Produce, ProposeAllocation, AcquireBegin, AllocFails
  <2>5. CASE Streaming
    <3>1. render.pc # "idle" => render.item \in Items
      BY ChannelBasics, BufBasics
    <3>2. input # <<>> => Head(input).item \in Items
      BY ChannelBasics, HeadFilled
    <3>3. CASE buf' = buf
      BY <3>3
    <3>4. CASE FlushItem
      BY <2>1, <3>2, <3>4, DoneType DEF FlushItem
    <3>5. CASE RenderBegin
      BY <2>1, <3>2, <3>5 DEF RenderBegin, Take, Buffer
    <3>6. CASE TakeLoan
      BY <2>1, <3>1, <3>6 DEF TakeLoan, Buffer
    <3>7. CASE render.pc # "idle" /\ buf' = Done(render.item)
      BY <2>1, <3>1, <3>7, DoneType
    <3> QED BY <2>5, <3>3, <3>4, <3>5, <3>6, <3>7
            DEF SendsFrame, Streaming, Render, AwaitConnection, AwaitFlushing, RenderRefused,
            ZeroCopyNotify, CopyStart, CopyLoan, CopyLoanFails, CopyNotify, SendFails,
            NotifyFails, SetCaps, PublishEos, EosNotify, Return
  <2> QED BY <2>2, <2>3, <2>4, <2>5 DEF Next
<1> QED BY <1>1, <1>2, ReadersKeep, OffersNothing DEF Channel!vars

LEMMA OfferShows ==
  ASSUME ChannelInv, ChannelInv', PushSystem \/ \E i \in Items : FillAndPush(i)
  PROVE  Channel!Next \/ UNCHANGED Channel!vars
<1>1. UNCHANGED <<ring, borrowed, attached, seen>>
  BY DEF PushSystem, Produce, FillAndPush, shmVars
<1>2. PICK i \in Items : /\ buf[i].caps = 0 /\ buf'[i].caps = upcaps
                         /\ \A j \in Items : j # i => buf'[j] = buf[j]
  <2>1. CASE PushSystem
    <3>1. next \in Items /\ ~Filled(next)
      BY <2>1, ChannelBasics DEF PushSystem, Produce, BufInv, Buffers, Filled
    <3>2. /\ buf'[next].caps = upcaps
          /\ \A j \in Items : j # next => buf'[j] = buf[j]
      BY <2>1, <3>1, ChannelBasics, BufBasics DEF PushSystem
    <3> QED BY <3>1, <3>2, ChannelBasics DEF BufInv, Buffers
  <2>2. ASSUME NEW i \in Items, FillAndPush(i)
        PROVE  /\ buf[i].caps = 0 /\ buf'[i].caps = upcaps
               /\ \A j \in Items : j # i => buf'[j] = buf[j]
    <3>1. ~Filled(i)
      BY <2>2 DEF FillAndPush, Owned, Filled
    <3>2. buf'[i].caps = upcaps /\ \A j \in Items : j # i => buf'[j] = buf[j]
      BY <2>2, ChannelBasics, BufBasics DEF FillAndPush, Buffer
    <3> QED BY <3>1, <3>2, ChannelBasics DEF BufInv, Buffers
  <2> QED BY <2>1, <2>2
<1>3. Queue' = Queue /\ Held' = Held
  BY <1>1, ReadersKeep
<1>4. CASE upcaps = 0
  <2>1. \A j \in Items : buf'[j].caps = buf[j].caps
    BY <1>2, <1>4
  <2> QED BY <1>1, <1>3, <2>1, OffersNothing DEF Channel!vars
<1>5. CASE upcaps # 0
  <2>1. upcaps \in Items
    BY <1>5, ChannelBasics, BufBasics, Bounds DEF Items
  <2>2. \A j \in Items : j # i => buf'[j].caps = buf[j].caps
    BY <1>2
  <2>3. Offered' = Offered \cup {Channel!Frame(i, upcaps)}
    BY <1>2, <2>1, <2>2, OffersOne
  <2>4. Channel!Offer(i, upcaps)
    BY <1>1, <1>3, <2>3 DEF Channel!Offer
  <2> QED BY <2>1, <2>4 DEF Channel!Next
<1> QED BY <1>4, <1>5

\* A sample that is sent is a frame that was offered, or the end.
LEMMA SendShows ==
  ASSUME ChannelInv, ChannelInv', Next, SendsFrame \/ EosSend
  PROVE  Channel!Next
<1>1. UNCHANGED <<borrowed, attached, seen>> /\ Offered' = Offered
  <2>1. UNCHANGED <<borrowed, attached, seen, buf>>
    BY DEF SendsFrame, ZeroCopySend, CopySend, EosSend
  <2> QED BY <2>1, OffersNothing
<1>2. CASE SendsFrame
  <2>1. FrameSample \in Sample /\ Send(FrameSample, RingOverflow)
    BY <1>2, FlightMoves, ChannelBasics DEF SendsFrame, ZeroCopySend, CopySend, EosSend
  <2>2. render.pc \in Unsent /\ render.pc \in Stamped /\ render.item \in Items
    BY <1>2, ChannelBasics, BufBasics DEF SendsFrame, ZeroCopySend, CopySend, Unsent, Stamped
  <2>3. View(FrameSample) = Given(render.item)
    <3>1. render.caps = buf[render.item].caps
      BY <2>2 DEF ChannelInv, OrderInv, HeaderInv, StampedCaps
    <3> QED BY <3>1 DEF View, FrameSample, Given
  <2>4. Given(render.item) \in Offered
    <3>1. buf[render.item].caps # 0
      BY <2>2 DEF ChannelInv, OrderInv, HeaderInv, StampedCaps
    <3> QED BY <2>2, <3>1 DEF Offered
  <2>5. Channel!Publish(View(FrameSample))
    <3>1. FrameSample.item = render.item
      BY DEF FrameSample
    <3> QED BY <1>1, <2>1, <2>2, <3>1, Publishes
  <2> QED BY <2>3, <2>4, <2>5 DEF Channel!Next
<1>3. CASE EosSend
  <2>1. EosSample \in Sample /\ Send(EosSample, RingOverflow)
    BY <1>3, FlightMoves, ChannelBasics DEF SendsFrame, ZeroCopySend, CopySend, EosSend
  <2>2. render.pc \in Unsent /\ render.item \in Items
    BY <1>3, ChannelBasics, BufBasics DEF EosSend, Unsent
  <2>3. View(EosSample) = Channel!End(render.item)
    BY DEF View, EosSample, Channel!End
  <2>4. Channel!Publish(View(EosSample))
    <3>1. EosSample.item = render.item
      BY DEF EosSample
    <3> QED BY <1>1, <2>1, <2>2, <3>1, Publishes
  <2> QED BY <2>2, <2>3, <2>4 DEF Channel!Next
<1> QED BY <1>2, <1>3

LEMMA ConsumerShows ==
  ASSUME ChannelInv, ChannelInv', Consumer
  PROVE  Channel!Next \/ UNCHANGED Channel!vars
<1>1. PICK s \in Subs : Subscriber(s)
  BY DEF Consumer
<1>2. Offered' = Offered
  BY OffersNothing DEF Consumer
<1>3. /\ Queue = QueueViews /\ Held = HeldViews
      /\ Queue' = QueueViews' /\ Held' = HeldViews'
  BY ReadersSee, ReadersSeeNext
<1>4. /\ ring \in [Subs -> Seq(Sample)] /\ borrowed \in [Subs -> SUBSET Sample]
      /\ seen \in [Subs -> 0..MaxItems]
  BY ChannelBasics DEF TypeOK, ShmTypeOK
<1>5. CASE Attach(s)
  <2>1. Queue' = Queue /\ Held' = Held
    BY <1>5, ReadersKeep DEF Attach
  <2> QED BY <1>2, <1>5, <2>1 DEF Attach, Channel!Join, Channel!Next
<1>6. CASE Park(s) \/ Wake(s) \/ WaitTimeout(s)
  <2>1. UNCHANGED <<ring, borrowed, attached, seen>>
    BY <1>6 DEF Park, Wake, WaitTimeout
  <2> QED BY <1>2, <2>1, ReadersKeep DEF Channel!vars
<1>7. CASE Detach(s)
  <2>1. Views(<<>>) = <<>>
    <3>1. <<>> \in Seq(Sample)
      OBVIOUS
    <3> QED BY <3>1, ViewsSeq
  <2>2. Queue' = [Queue EXCEPT ![s] = <<>>]
    BY <1>3, <1>4, <1>7, <2>1 DEF Detach, QueueViews
  <2>3. Held' = [Held EXCEPT ![s] = {}]
    BY <1>3, <1>4, <1>7 DEF Detach, HeldViews
  <2>4. Channel!Leave(s)
    BY <1>2, <1>7, <2>2, <2>3 DEF Detach, Channel!Leave
  <2> QED BY <2>4 DEF Channel!Next
<1>8. CASE Receive(s)
  <2>1. /\ ring[s] \in Seq(Sample) /\ ring[s] # <<>> /\ s \in attached
        /\ ring' = [ring EXCEPT ![s] = Tail(ring[s])]
        /\ borrowed' = [borrowed EXCEPT ![s] = borrowed[s] \cup {Head(ring[s])}]
        /\ seen' = [seen EXCEPT ![s] = Head(ring[s]).item]
        /\ attached' = attached
    BY <1>4, <1>8 DEF Receive
  <2>2. /\ Views(Tail(ring[s])) = Tail(Views(ring[s]))
        /\ Head(Views(ring[s])) = View(Head(ring[s]))
        /\ Views(ring[s]) # <<>>
    BY <2>1, ViewsTail, ViewsSeq
  <2>3. Queue[s] = Views(ring[s]) /\ Held[s] = {View(sm) : sm \in borrowed[s]}
    BY <1>3 DEF QueueViews, HeldViews
  <2>4. Queue' = [Queue EXCEPT ![s] = Tail(Queue[s])]
    <3>1. QueueViews' = [r \in Subs |-> Views(ring'[r])]
      BY DEF QueueViews, Views
    <3>2. \A r \in Subs : Views(ring'[r]) = IF r = s THEN Tail(Views(ring[s])) ELSE Views(ring[r])
      BY <1>4, <2>1, <2>2
    <3> QED BY <1>3, <2>3, <3>1, <3>2 DEF QueueViews
  <2>5. Held' = [Held EXCEPT ![s] = Held[s] \cup {Head(Queue[s])}]
    <3>1. HeldViews' = [r \in Subs |-> {View(sm) : sm \in borrowed'[r]}]
      BY DEF HeldViews, View
    <3>2. {View(sm) : sm \in borrowed[s] \cup {Head(ring[s])}}
            = {View(sm) : sm \in borrowed[s]} \cup {View(Head(ring[s]))}
      OBVIOUS
    <3>3. \A r \in Subs : {View(sm) : sm \in borrowed'[r]}
            = IF r = s THEN {View(sm) : sm \in borrowed[s]} \cup {View(Head(ring[s]))}
              ELSE {View(sm) : sm \in borrowed[r]}
      BY <1>4, <2>1, <3>2
    <3> QED BY <1>3, <2>2, <2>3, <3>1, <3>3 DEF HeldViews
  <2>6. Head(Queue[s]).item = Head(ring[s]).item
    BY <2>2, <2>3 DEF View
  <2>7. Channel!Take(s)
    BY <1>2, <2>1, <2>2, <2>3, <2>4, <2>5, <2>6 DEF Channel!Take
  <2> QED BY <2>7 DEF Channel!Next
<1>9. ASSUME NEW sm \in borrowed[s], Release(s, sm)
      PROVE  Channel!Next
  <2>1. /\ borrowed' = [borrowed EXCEPT ![s] = borrowed[s] \ {sm}]
        /\ UNCHANGED <<ring, attached, seen>>
    BY <1>9 DEF Release
  <2>2. Queue' = Queue
    BY <1>3, <2>1 DEF QueueViews, Views
  <2>3. \A a \in borrowed[s] : View(a) = View(sm) => a = sm
    <3>1. borrowed[s] \subseteq InFlight
      BY DEF InFlight
    <3> QED BY <3>1, ViewsDiffer
  <2>4. Held' = [Held EXCEPT ![s] = Held[s] \ {View(sm)}]
    <3>1. HeldViews' = [r \in Subs |-> {View(a) : a \in borrowed'[r]}]
      BY DEF HeldViews, View
    <3>2. {View(a) : a \in borrowed[s] \ {sm}} = {View(a) : a \in borrowed[s]} \ {View(sm)}
      BY <2>3
    <3>3. \A r \in Subs : {View(a) : a \in borrowed'[r]}
            = IF r = s THEN {View(a) : a \in borrowed[s]} \ {View(sm)}
              ELSE {View(a) : a \in borrowed[r]}
      BY <1>4, <2>1, <3>2
    <3>4. Held[s] = {View(a) : a \in borrowed[s]}
      BY <1>3 DEF HeldViews
    <3> QED BY <1>3, <3>1, <3>3, <3>4 DEF HeldViews
  <2>5. View(sm) \in Held[s]
    BY <1>3 DEF HeldViews
  <2>6. Channel!GiveBack(s, View(sm))
    BY <1>2, <2>1, <2>2, <2>4, <2>5 DEF Channel!GiveBack
  <2> QED BY <2>5, <2>6 DEF Channel!Next
<1> QED BY <1>1, <1>5, <1>6, <1>7, <1>8, <1>9 DEF Subscriber

LEMMA ChannelStarts == Init => Channel!Init
<1> SUFFICES ASSUME Init PROVE Channel!Init
  OBVIOUS
<1>1. Offered = {}
  BY DEF Init, NoBuffer, Offered
<1>2. Queue = [s \in Subs |-> <<>>] /\ Held = [s \in Subs |-> {}]
  <2>1. \A s \in Subs : ring[s] = <<>> /\ borrowed[s] = {}
    BY DEF Init, ShmInit
  <2>2. \A s \in Subs : [k \in 1..Len(ring[s]) |-> Seen(ring[s][k])] = <<>>
    BY <2>1
  <2>3. \A s \in Subs : {Seen(sm) : sm \in borrowed[s]} = {}
    BY <2>1
  <2> QED BY <2>2, <2>3 DEF Queue, Held
<1> QED BY <1>1, <1>2 DEF Init, ShmInit, Channel!Init

LEMMA ChannelMoves ==
  ChannelInv /\ ChannelInv' /\ [Next]_vars => [Channel!Next]_(Channel!vars)
<1> SUFFICES ASSUME ChannelInv, ChannelInv', [Next]_vars
             PROVE  Channel!Next \/ UNCHANGED Channel!vars
  OBVIOUS
<1>1. CASE Next
  BY <1>1, QuietHides, OfferShows, SendShows, ConsumerShows
<1>2. CASE UNCHANGED vars
  <2>1. UNCHANGED <<ring, borrowed, attached, seen, buf>>
    BY <1>2 DEF vars, shmVars
  <2> QED BY <2>1, ReadersKeep, OffersNothing DEF Channel!vars
<1> QED BY <1>1, <1>2

\* The sink and its pool implement the channel, as long as at most one pool
\* buffer is alive at a time: shared memory, address reuse, renegotiation,
\* flushes, restarts, failures and the order of drops do not show in what
\* readers get (pool.rs:4-13, sink.rs:477-599).
THEOREM SinkIsAChannel ==
  ASSUME MaxLive <= 1
  PROVE  Spec => ImplementsChannel
<1>1. Spec => []ChannelInv
  BY ChannelInit, ChannelStep, PTL DEF Spec
<1>2. ChannelInv /\ ChannelInv' /\ [Next]_vars => [Channel!Next]_(Channel!vars)
  BY ChannelMoves
<1> QED BY <1>1, <1>2, ChannelStarts, PTL DEF Spec, ImplementsChannel, Channel!Spec
=============================================================================
