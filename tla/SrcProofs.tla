----------------------------- MODULE SrcProofs -----------------------------
(***************************************************************************)
(* The invariants of Src for every value of the constants.                 *)
(***************************************************************************)
EXTENDS Src, ShmProofs

CreateType == [pc : InPcs, sample : SUBSET Sample, changed : BOOLEAN]

\* create is over whenever the element is not running, and it waits on the
\* listener only from its receive loop.
Calls ==
  /\ ctl \in {"flushed", "inactive", "stopped"} => create.pc = "idle"
  /\ Me \in parked => create.pc = "receive"

\* The pad has the caps create remembers, unless they are about to be set or the
\* pad is being deactivated; and they are those of the frame in hand.
Remembered ==
  /\ ctl \in {"run", "flush", "flushed"} /\ ~(create.pc = "deliver" /\ create.changed)
       => pad = last_caps
  /\ create.pc = "deliver" => \A sm \in create.sample : sm.caps = last_caps
  /\ ctl = "stopped" => pad = 0

SrcInv == TypeOK /\ Calls /\ Remembered /\ UnderItsCaps

LEMMA MeType == Me \in Subs /\ Overflow \in BOOLEAN /\ MaxStarts \in Nat
  BY SrcAssumption DEF SrcAssumption

LEMMA IdleType == Idle \in CreateType /\ Idle.pc = "idle" /\ Idle.sample = {}
  BY DEF Idle, CreateType, InPcs

LEMMA SrcInit == Init => SrcInv
<1> SUFFICES ASSUME Init PROVE SrcInv
  OBVIOUS
<1>1. ShmTypeOK
  BY Bounds DEF Init, ShmInit, ShmTypeOK
<1>2. TypeOK
  <2>1. create \in CreateType /\ create.sample \subseteq borrowed[Me]
        /\ (create.pc = "deliver" <=> create.sample # {})
    BY IdleType DEF Init
  <2>2. delivered \in Seq(Frame)
    BY DEF Init
  <2>3. /\ pub \in [next : 1..(MaxItems + 1), notify : BOOLEAN]
        /\ last_caps \in 0..MaxItems /\ pad \in 0..MaxItems
        /\ frames_received \in Nat /\ starts \in 0..MaxStarts
    BY Bounds, MeType DEF Init
  <2> QED BY <1>1, <2>1, <2>2, <2>3 DEF Init, TypeOK, Ctls, CreateType
<1>3. Calls /\ Remembered /\ UnderItsCaps
  BY IdleType DEF Init, ShmInit, Calls, Remembered, UnderItsCaps
<1> QED BY <1>2, <1>3 DEF SrcInv

----------------------------------------------------------------------------
\* What the steps have in common.

\* A step of the port `Me` keeps the types of the service.
LEMMA MyPort ==
  ASSUME SrcInv, PortStep(Me) \/ UNCHANGED shmVars
  PROVE  ShmTypeOK'
<1>1. CASE PortStep(Me)
  BY <1>1, MeType, PortType DEF SrcInv, TypeOK
<1>2. CASE UNCHANGED shmVars
  BY <1>2 DEF SrcInv, TypeOK, ShmTypeOK, shmVars
<1> QED BY <1>1, <1>2

\* So does a sample that create takes and drops again.
LEMMA TakenAndDropped ==
  ASSUME SrcInv, CanReceive, TakeAndDrop
  PROVE  ShmTypeOK'
<1>1. Head(ring[Me]) \in Sample /\ Tail(ring[Me]) \in Seq(Sample)
  BY MeType DEF SrcInv, TypeOK, ShmTypeOK, CanReceive, Receiving
<1>2. Head(ring[Me]).item \in 0..MaxItems
  BY <1>1, Bounds DEF Sample, Items
<1> QED BY <1>1, <1>2, MeType DEF TakeAndDrop, Received, SrcInv, TypeOK, ShmTypeOK

\* A step of the streaming thread before it has a frame in hand.
LEMMA EmptyHanded ==
  ASSUME SrcInv, ShmTypeOK', create' \in CreateType, create'.sample = {},
         create'.pc # "deliver", create.pc # "deliver",
         ctl = "run" \/ create.pc # "idle",
         Me \in parked' => create'.pc = "receive",
         frames_received' \in Nat, flow' \in {"Ok", "Flushing", "Eos", "NotNegotiated", "Error"},
         task' \in {"running", "paused"},
         UNCHANGED <<last_caps, unlocked, ctl, starts, pad, delivered, pub>>
  PROVE  SrcInv'
<1>1. TypeOK'
  BY DEF SrcInv, TypeOK, CreateType
<1>2. Calls'
  BY DEF SrcInv, Calls
<1>3. Remembered'
  BY DEF SrcInv, Remembered
<1>4. UnderItsCaps'
  BY DEF SrcInv, UnderItsCaps
<1> QED BY <1>1, <1>2, <1>3, <1>4 DEF SrcInv

----------------------------------------------------------------------------
LEMMA ApplicationInv == SrcInv /\ Application => SrcInv'
<1> SUFFICES ASSUME SrcInv, Application PROVE SrcInv'
  OBVIOUS
<1> USE MeType
<1>1. CASE Start
  <2>1. ShmTypeOK' /\ parked' = parked /\ borrowed' = borrowed
    BY <1>1, MyPort DEF Start, Attach, PortStep
  <2>2. starts' \in 0..MaxStarts
    BY <1>1 DEF Start, SrcInv, TypeOK
  <2>3. TypeOK'
    <3>1. last_caps' \in 0..MaxItems /\ frames_received' \in Nat
      BY <1>1, Bounds DEF Start
    <3> QED BY <1>1, <2>1, <2>2, <3>1 DEF Start, SrcInv, TypeOK, Ctls
  <2>4. Calls' /\ Remembered'
    BY <1>1, <2>1 DEF Start, SrcInv, Calls, Remembered
  <2> QED BY <1>1, <2>3, <2>4 DEF Start, SrcInv, UnderItsCaps
<1>2. CASE Unlock
  <2>1. ShmTypeOK' /\ parked' = parked /\ borrowed' = borrowed
    BY <1>2, MyPort DEF Unlock, shmVars
  <2>2. TypeOK'
    BY <1>2, <2>1 DEF Unlock, SrcInv, TypeOK, Ctls
  <2> QED BY <1>2, <2>1, <2>2 DEF Unlock, SrcInv, Calls, Remembered, UnderItsCaps
<1>3. CASE UnlockStop
  <2>1. ShmTypeOK' /\ parked' = parked /\ borrowed' = borrowed
    BY <1>3, MyPort DEF UnlockStop, shmVars
  <2>2. TypeOK'
    BY <1>3, <2>1 DEF UnlockStop, SrcInv, TypeOK, Ctls
  <2> QED BY <1>3, <2>1, <2>2 DEF UnlockStop, SrcInv, Calls, Remembered, UnderItsCaps
<1>4. CASE FlushStop
  <2>1. ShmTypeOK' /\ parked' = parked /\ borrowed' = borrowed
    BY <1>4, MyPort DEF FlushStop, shmVars
  <2>2. TypeOK'
    BY <1>4, <2>1 DEF FlushStop, SrcInv, TypeOK, Ctls, fields
  <2> QED BY <1>4, <2>1, <2>2 DEF FlushStop, SrcInv, Calls, Remembered, UnderItsCaps, fields
<1>5. CASE Stop
  <2>1. ShmTypeOK' /\ parked' = parked \ {Me}
    BY <1>5, MyPort DEF Stop, Detach, PortStep
  <2>2. create.pc = "idle" /\ create.sample = {}
    BY <1>5 DEF Stop, SrcInv, Calls, TypeOK
  <2>3. TypeOK'
    BY <1>5, <2>1, <2>2, Bounds DEF Stop, SrcInv, TypeOK, Ctls
  <2> QED BY <1>5, <2>1, <2>2, <2>3 DEF Stop, SrcInv, Calls, Remembered, UnderItsCaps
<1> QED BY <1>1, <1>2, <1>3, <1>4, <1>5 DEF Application

----------------------------------------------------------------------------
\* A receive that finds a sample create has no use for.
LEMMA DroppedInv ==
  SrcInv /\ (ReceiveEos \/ ReceiveMalformed \/ ReceiveCapless) => SrcInv'
<1> SUFFICES ASSUME SrcInv, ReceiveEos \/ ReceiveMalformed \/ ReceiveCapless
             PROVE  SrcInv'
  OBVIOUS
<1>1. CanReceive /\ TakeAndDrop /\ Me \notin parked
  BY DEF ReceiveEos, ReceiveMalformed, ReceiveCapless, IsFrame, CanReceive, Receiving
<1>2. ShmTypeOK' /\ Me \notin parked'
  BY <1>1, TakenAndDropped DEF TakeAndDrop
<1>3. create.pc = "receive" /\ create \in CreateType /\ create.sample = {}
  BY <1>1 DEF CanReceive, Receiving, SrcInv, TypeOK, CreateType
<1>4. CASE ReceiveEos
  BY <1>2, <1>3, <1>4, EmptyHanded, IdleType
  DEF ReceiveEos, Return, fields, SrcInv, TypeOK
<1>5. CASE ReceiveMalformed
  <2>1. create' \in CreateType /\ create'.sample = {} /\ create'.pc = "check"
    BY <1>3, <1>5 DEF ReceiveMalformed, CreateType, InPcs
  <2> QED BY <1>2, <1>3, <1>5, <2>1, EmptyHanded
          DEF ReceiveMalformed, fields, baseVars, SrcInv, TypeOK
<1>6. CASE ReceiveCapless
  BY <1>2, <1>3, <1>6, EmptyHanded, IdleType
  DEF ReceiveCapless, Return, SrcInv, TypeOK
<1> QED BY <1>4, <1>5, <1>6

LEMMA LoopInv ==
  SrcInv /\ (CreateBegin \/ Flushing \/ Check \/ ReceiveFails \/ Wait \/ Notified \/ TimedOut)
    => SrcInv'
<1> SUFFICES ASSUME SrcInv,
                    CreateBegin \/ Flushing \/ Check \/ ReceiveFails \/ Wait
                      \/ Notified \/ TimedOut
             PROVE  SrcInv'
  OBVIOUS
<1> USE MeType
<1>1. create \in CreateType /\ (create.pc # "deliver" => create.sample = {})
      /\ (Me \in parked => create.pc = "receive")
  BY DEF SrcInv, TypeOK, CreateType, Calls
<1>2. CASE CreateBegin
  <2>1. create' \in CreateType /\ create'.sample = {} /\ create'.pc = "check"
    BY <1>1, <1>2 DEF CreateBegin, CreateType, InPcs
  <2> QED BY <1>1, <1>2, <2>1, MyPort, EmptyHanded
          DEF CreateBegin, fields, baseVars, shmVars, SrcInv, TypeOK
<1>3. CASE Flushing
  BY <1>1, <1>3, IdleType, MyPort, EmptyHanded
  DEF Flushing, Return, fields, shmVars, SrcInv, TypeOK
<1>4. CASE Check
  <2>1. create' \in CreateType /\ create'.sample = {} /\ create'.pc = "receive"
    BY <1>1, <1>4 DEF Check, CreateType, InPcs
  <2> QED BY <1>1, <1>4, <2>1, MyPort, EmptyHanded
          DEF Check, fields, baseVars, shmVars, SrcInv, TypeOK
<1>5. CASE ReceiveFails
  BY <1>1, <1>5, IdleType, MyPort, EmptyHanded
  DEF ReceiveFails, Receiving, Return, fields, shmVars, SrcInv, TypeOK
<1>6. CASE Wait
  BY <1>1, <1>6, MyPort, EmptyHanded
  DEF Wait, PortStep, fields, baseVars, SrcInv, TypeOK
<1>7. CASE Notified \/ TimedOut
  <2>1. Me \in parked /\ Me \notin parked' /\ PortStep(Me) /\ WaitEnds
    BY <1>7 DEF Notified, TimedOut, Wake, WaitTimeout, PortStep
  <2>2. create' \in CreateType /\ create'.sample = {} /\ create'.pc = "check"
    BY <1>1, <2>1 DEF WaitEnds, CreateType, InPcs
  <2> QED BY <1>1, <2>1, <2>2, MyPort, EmptyHanded
          DEF WaitEnds, fields, baseVars, SrcInv, TypeOK
<1> QED BY <1>2, <1>3, <1>4, <1>5, <1>6, <1>7

\* The frame in hand has the caps that create now remembers.
LEMMA ReceiveFrameInv == SrcInv /\ ReceiveFrame => SrcInv'
<1> SUFFICES ASSUME SrcInv, ReceiveFrame PROVE SrcInv'
  OBVIOUS
<1> USE MeType
<1>1. Receive(Me) /\ create.pc = "receive" /\ Me \notin parked
  BY DEF ReceiveFrame, IsFrame, CanReceive, Receiving
<1>2. ShmTypeOK' /\ parked' = parked
  BY <1>1, MyPort DEF PortStep, Receive
<1>3. Received \in Sample /\ Received.caps \in 0..MaxItems
  <2>1. Received \in Sample
    BY <1>1 DEF Received, Receive, SrcInv, TypeOK, ShmTypeOK
  <2> QED BY <2>1 DEF Sample
<1>4. Received \in borrowed'[Me]
  BY <1>1 DEF Received, Receive, SrcInv, TypeOK, ShmTypeOK
<1>5. /\ create'.pc = "deliver" /\ create'.sample = {Received}
      /\ create'.changed = (Received.caps # last_caps) /\ create' \in CreateType
  BY <1>3 DEF ReceiveFrame, CreateType, InPcs
<1>6. last_caps' = Received.caps /\ frames_received' = frames_received + 1
      /\ UNCHANGED <<unlocked, flow, task, ctl, starts, pad, delivered, pub>>
  BY DEF ReceiveFrame, baseVars
<1>7. TypeOK'
  BY <1>2, <1>3, <1>4, <1>5, <1>6 DEF SrcInv, TypeOK, CreateType
<1>8. Calls'
  BY <1>1, <1>2, <1>5, <1>6 DEF SrcInv, Calls
<1>9. Remembered'
  BY <1>1, <1>5, <1>6 DEF SrcInv, Remembered
<1> QED BY <1>6, <1>7, <1>8, <1>9 DEF SrcInv, UnderItsCaps

----------------------------------------------------------------------------
LEMMA DropHandType ==
  ASSUME SrcInv, DropHand
  PROVE  ShmTypeOK' /\ parked' = parked
  BY MeType DEF SrcInv, TypeOK, ShmTypeOK, DropHand

LEMMA CapsSetType == SrcInv => CapsSet \in 0..MaxItems
  BY DEF SrcInv, TypeOK, CapsSet

\* create ends with the frame in hand: a frame that is pushed finds its own caps
\* on the pad.
LEMMA DeliverInv ==
  SrcInv /\ (Deliver \/ DeliverFlushing \/ DeliverRefused) => SrcInv'
<1> SUFFICES ASSUME SrcInv, Deliver \/ DeliverFlushing \/ DeliverRefused PROVE SrcInv'
  OBVIOUS
<1>1. create.pc = "deliver" /\ Me \notin parked /\ create'.pc = "idle"
      /\ create'.sample = {} /\ create' \in CreateType
      /\ ctl \in {"run", "flush", "deactivate"}
  BY IdleType DEF Deliver, DeliverFlushing, DeliverRefused, Return, SrcInv, Calls, TypeOK, Ctls
<1>2. ShmTypeOK' /\ parked' = parked
  BY MyPort, DropHandType DEF Deliver, DeliverFlushing, DeliverRefused, shmVars
<1>3. UNCHANGED <<last_caps, unlocked, frames_received, ctl, starts, pub>>
  BY DEF Deliver, DeliverFlushing, DeliverRefused, Return, fields
<1>4. ctl # "deactivate" => CapsSet = last_caps
  BY <1>1 DEF CapsSet, SrcInv, Remembered
<1>5. pad' \in 0..MaxItems /\ (ctl \in {"run", "flush"} => pad' = last_caps)
  <2>1. CASE Deliver BY <1>4, <2>1, CapsSetType DEF Deliver
  <2>2. CASE DeliverFlushing BY <1>4, <2>2, CapsSetType DEF DeliverFlushing
  <2>3. CASE DeliverRefused BY <2>3 DEF DeliverRefused, SetCapsFails, SrcInv, TypeOK
  <2> QED BY <2>1, <2>2, <2>3
<1>6. flow' \in {"Ok", "Flushing", "Eos", "NotNegotiated", "Error"}
      /\ task' \in {"running", "paused"}
  BY DEF Deliver, DeliverFlushing, DeliverRefused, Return, SrcInv, TypeOK
<1>7. delivered' \in Seq(Frame) /\ UnderItsCaps'
  <2>1. CASE Deliver
    <3>1. PICK sm \in create.sample :
            delivered' = Append(delivered, [item |-> sm.item, caps |-> sm.caps,
                                            under |-> CapsSet])
      BY <2>1 DEF Deliver
    <3>2. sm \in Sample /\ sm.caps = last_caps /\ CapsSet = last_caps
      BY <1>1, <1>4, <2>1 DEF Deliver, SrcInv, TypeOK, Remembered
    <3>3. [item |-> sm.item, caps |-> sm.caps, under |-> CapsSet] \in Frame
      BY <3>2, CapsSetType DEF Sample, Frame
    <3>4. delivered \in Seq(Frame)
      BY DEF SrcInv, TypeOK
    <3> QED BY <3>1, <3>2, <3>3, <3>4 DEF SrcInv, UnderItsCaps
  <2>2. CASE DeliverFlushing \/ DeliverRefused
    BY <2>2 DEF DeliverFlushing, DeliverRefused, SrcInv, TypeOK, UnderItsCaps
  <2> QED BY <2>1, <2>2
<1>8. TypeOK'
  BY <1>1, <1>2, <1>3, <1>5, <1>6, <1>7 DEF SrcInv, TypeOK, CreateType
<1>9. Calls' /\ Remembered'
  BY <1>1, <1>2, <1>3, <1>5 DEF SrcInv, Calls, Remembered
<1> QED BY <1>7, <1>8, <1>9 DEF SrcInv

LEMMA StreamingInv == SrcInv /\ (Streaming \/ TimedOut) => SrcInv'
  BY DroppedInv, LoopInv, ReceiveFrameInv, DeliverInv DEF Streaming

----------------------------------------------------------------------------
\* A step of another process, or of downstream, leaves the element as it is.
LEMMA ElementUntouched ==
  ASSUME SrcInv, ShmTypeOK', create.sample \subseteq borrowed'[Me], parked' = parked,
         pub' \in [next : 1..(MaxItems + 1), notify : BOOLEAN],
         UNCHANGED <<fields, create, baseVars>>
  PROVE  SrcInv'
<1>1. UNCHANGED <<last_caps, unlocked, frames_received, create, flow, task, ctl, starts,
                  pad, delivered>>
  BY DEF fields, baseVars
<1>2. TypeOK'
  BY <1>1 DEF SrcInv, TypeOK
<1>3. Calls' /\ Remembered' /\ UnderItsCaps'
  BY <1>1 DEF SrcInv, Calls, Remembered, UnderItsCaps
<1> QED BY <1>2, <1>3 DEF SrcInv

LEMMA FreeBufferInv == SrcInv /\ FreeBuffer => SrcInv'
<1> SUFFICES ASSUME SrcInv, FreeBuffer PROVE SrcInv'
  OBVIOUS
<1>1. PICK sm \in borrowed[Me] \ create.sample : Release(Me, sm)
  BY DEF FreeBuffer
<1>2. PortStep(Me)
  BY <1>1 DEF PortStep
<1>3. create.sample \subseteq borrowed'[Me] /\ parked' = parked
  BY <1>1, MeType DEF Release, SrcInv, TypeOK, ShmTypeOK
<1>4. pub' \in [next : 1..(MaxItems + 1), notify : BOOLEAN]
  BY DEF FreeBuffer, SrcInv, TypeOK
<1> QED BY <1>2, <1>3, <1>4, MyPort, ElementUntouched DEF FreeBuffer

LEMMA PublishInv == SrcInv /\ Publish => SrcInv'
<1> SUFFICES ASSUME SrcInv, Publish PROVE SrcInv'
  OBVIOUS
<1>1. PICK x \in Free(1), c \in Items \cap 1..2, e \in BOOLEAN :
        Send([slot |-> x, item |-> pub.next, caps |-> c, eos |-> e], Overflow)
  BY DEF Publish
<1>2. [slot |-> x, item |-> pub.next, caps |-> c, eos |-> e] \in Sample
  <2>1. x \in Slots /\ pub.next \in Items /\ c \in 0..MaxItems
    BY Bounds DEF Publish, Free, Items
  <2> QED BY <2>1 DEF Sample
<1>3. loans' \subseteq Slots /\ ring' \in [Subs -> Seq(Sample)]
  BY <1>1, <1>2, SendType, MeType DEF SrcInv, TypeOK
<1>4. ShmTypeOK' /\ create.sample \subseteq borrowed'[Me] /\ parked' = parked
  BY <1>3 DEF Publish, SrcInv, TypeOK, ShmTypeOK
<1>5. pub.next + 1 \in 1..(MaxItems + 1)
  BY Bounds DEF Publish, Items
<1>6. pub' \in [next : 1..(MaxItems + 1), notify : BOOLEAN]
  BY <1>5 DEF Publish
<1> QED BY <1>4, <1>6, ElementUntouched DEF Publish

LEMMA PublishNotifyInv == SrcInv /\ PublishNotify => SrcInv'
<1> SUFFICES ASSUME SrcInv, PublishNotify PROVE SrcInv'
  OBVIOUS
<1>1. ShmTypeOK' /\ create.sample \subseteq borrowed'[Me] /\ parked' = parked
  BY DEF PublishNotify, Notify, SrcInv, TypeOK, ShmTypeOK
<1>2. pub' \in [next : 1..(MaxItems + 1), notify : BOOLEAN]
  BY DEF PublishNotify, SrcInv, TypeOK
<1> QED BY <1>1, <1>2, ElementUntouched DEF PublishNotify

LEMMA SrcStep == SrcInv /\ [Next]_vars => SrcInv'
<1>1. ASSUME SrcInv, Next PROVE SrcInv'
  BY <1>1, ApplicationInv, StreamingInv, FreeBufferInv, PublishInv, PublishNotifyInv
  DEF Next, Element, Environment
<1>2. ASSUME SrcInv, UNCHANGED vars PROVE SrcInv'
  <2>1. ShmTypeOK' /\ parked' = parked /\ borrowed' = borrowed
    BY <1>2, MyPort DEF vars, shmVars
  <2>2. pub' = pub /\ UNCHANGED <<fields, create, baseVars>>
    BY <1>2 DEF vars
  <2> QED BY <1>2, <2>1, <2>2, ElementUntouched DEF SrcInv, TypeOK
<1> QED BY <1>1, <1>2

----------------------------------------------------------------------------
LEMMA SrcInvariant == Spec => []SrcInv
<1> QED BY SrcInit, SrcStep, PTL DEF Spec

\* The state of the source element and of its ports is always of its type:
\* create holds one sample exactly while it delivers, and the sample is borrowed.
THEOREM SrcTypeCorrect == Spec => []TypeOK
<1>1. SrcInv => TypeOK
  BY DEF SrcInv
<1> QED BY <1>1, SrcInvariant, PTL

\* Every frame goes downstream under the caps of its own header, for any
\* number of restarts, flushes, frames and any choice of frames that cannot be
\* delivered.
THEOREM FramesUnderTheirCaps == Spec => []UnderItsCaps
<1>1. SrcInv => UnderItsCaps
  BY DEF SrcInv
<1> QED BY <1>1, SrcInvariant, PTL

=============================================================================
