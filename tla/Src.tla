-------------------------------- MODULE Src --------------------------------
(***************************************************************************)
(* iceoryx2src (source.rs), run by three threads:                          *)
(*                                                                         *)
(*   - the streaming thread, in which GstBaseSrc calls create again and    *)
(*     again and pushes the buffer it returns;                             *)
(*   - the application thread, which starts and stops the element and      *)
(*     calls unlock / unlock_stop around a flush or a deactivation;        *)
(*   - whoever downstream drops a buffer, and with it a received sample.   *)
(*                                                                         *)
(* The subscriber `Me` of Shm is this element.  Environment is any other   *)
(* process that publishes on the service: it sends, then notifies.         *)
(***************************************************************************)
EXTENDS Shm

CONSTANTS
  Me,         \* this element among the subscribers
  Malformed,  \* items whose geometry validate_geometry rejects
  Capless,    \* items without aux caps, whose header builds none either
  Overflow,   \* whether the service was opened with safe overflow
  MaxStarts   \* bound: how often the element is started

ASSUME SrcAssumption ==
  /\ Me \in Subs /\ Malformed \subseteq Items /\ Capless \subseteq Items
  /\ Overflow \in BOOLEAN /\ MaxStarts \in Nat

VARIABLES
  last_caps,        \* state.last_caps, 0 when None; state is Some while attached
  unlocked,         \* the flag unlock sets
  frames_received,
  create,           \* where create is, its sample (at most one) and caps_changed
  flow,             \* what the last create returned
  task,             \* "running" | "paused": the streaming task of GstBaseSrc
  ctl,              \* what the application has the element do
  starts,
  pad,              \* caps of the source pad, 0 for none
  delivered,        \* history: frames pushed, with the pad's caps of that moment
  pub               \* Environment: next item, and whether a notify is due

fields      == <<last_caps, unlocked, frames_received>>
baseVars    == <<flow, task, ctl, starts, pad, delivered>>
vars == <<shmVars, fields, create, baseVars, pub>>

Idle   == [pc |-> "idle", sample |-> {}, changed |-> FALSE]
InPcs  == {"idle", "check", "receive", "deliver"}
Frame  == [item : Items, caps : 0..MaxItems, under : 0..MaxItems]
Ctls   == {"stopped", "run", "flush", "flushed", "deactivate", "inactive"}

TypeOK ==
  /\ ShmTypeOK
  /\ unlocked \in BOOLEAN
  /\ last_caps \in 0..MaxItems /\ pad \in 0..MaxItems
  /\ frames_received \in Nat /\ starts \in 0..MaxStarts
  /\ create \in [pc : InPcs, sample : SUBSET Sample, changed : BOOLEAN]
  /\ create.pc = "deliver" <=> create.sample # {}
  /\ create.sample \subseteq borrowed[Me]
  /\ flow \in {"Ok", "Flushing", "Eos", "NotNegotiated", "Error"}
  /\ task \in {"running", "paused"} /\ ctl \in Ctls
  /\ delivered \in Seq(Frame)
  /\ pub \in [next : 1..(MaxItems + 1), notify : BOOLEAN]

Init ==
  /\ ShmInit
  /\ last_caps = 0 /\ unlocked = FALSE /\ frames_received = 0
  /\ create = Idle /\ flow = "Ok" /\ task = "paused" /\ ctl = "stopped"
  /\ starts = 0 /\ pad = 0 /\ delivered = <<>>
  /\ pub = [next |-> 1, notify |-> FALSE]

----------------------------------------------------------------------------
\* The application thread.

\* Mutant of Start: last_caps outlives the stop.
StartKeepsCaps ==
  /\ ctl = "stopped" /\ starts < MaxStarts
  /\ Attach(Me)
  /\ unlocked' = FALSE /\ frames_received' = 0
  /\ ctl' = "run" /\ task' = "running" /\ flow' = "Ok" /\ starts' = starts + 1
  /\ UNCHANGED <<last_caps, create, pad, delivered, pub>>

Start ==
  /\ ctl = "stopped" /\ starts < MaxStarts
  /\ Attach(Me)
  /\ last_caps' = 0 /\ unlocked' = FALSE /\ frames_received' = 0
  /\ ctl' = "run" /\ task' = "running" /\ flow' = "Ok" /\ starts' = starts + 1
  /\ UNCHANGED <<create, pad, delivered, pub>>

Unlock ==
  /\ ctl = "run"
  /\ ctl' \in {"flush", "deactivate"}
  /\ unlocked' = TRUE
  /\ UNCHANGED <<shmVars, last_caps, frames_received, create, flow, task, starts,
                 pad, delivered, pub>>

\* GstBaseSrc calls unlock_stop once create has returned.
UnlockStop ==
  /\ create.pc = "idle"
  /\ \/ ctl = "flush" /\ ctl' = "flushed"
     \/ ctl = "deactivate" /\ ctl' = "inactive"
  /\ unlocked' = FALSE /\ task' = "paused"
  /\ UNCHANGED <<shmVars, last_caps, frames_received, create, flow, starts, pad,
                 delivered, pub>>

FlushStop ==
  /\ ctl = "flushed"
  /\ ctl' = "run" /\ task' = "running" /\ flow' = "Ok"
  /\ UNCHANGED <<shmVars, fields, create, starts, pad, delivered, pub>>

\* A deactivated pad has lost its sticky caps.
Stop ==
  /\ ctl = "inactive"
  /\ Detach(Me)
  /\ ctl' = "stopped" /\ pad' = 0
  /\ UNCHANGED <<last_caps, unlocked, frames_received, create, flow, task, starts,
                 delivered, pub>>

----------------------------------------------------------------------------
\* create.

CreateBegin ==
  /\ ctl = "run" /\ task = "running" /\ create.pc = "idle"
  /\ create' = [create EXCEPT !.pc = "check"]
  /\ UNCHANGED <<shmVars, fields, baseVars, pub>>

\* create returns `result`; GstBaseSrc pauses its task on anything but Ok.
Return(result) ==
  /\ create' = Idle /\ flow' = result
  /\ task' = IF result = "Ok" THEN task ELSE "paused"
  /\ UNCHANGED <<ctl, starts, pub>>

Flushing ==
  /\ create.pc = "check" /\ unlocked
  /\ Return("Flushing")
  /\ UNCHANGED <<shmVars, fields, pad, delivered>>

Check ==
  /\ create.pc = "check" /\ ~unlocked
  /\ create' = [create EXCEPT !.pc = "receive"]
  /\ UNCHANGED <<shmVars, fields, baseVars, pub>>

\* receive() finds a sample; it fails when borrowed_max are out.
Receiving   == create.pc = "receive" /\ Me \notin parked /\ ring[Me] # <<>>
CanReceive  == Receiving /\ Cardinality(borrowed[Me]) < BorrowedMax
Received    == Head(ring[Me])

\* The sample is taken from the ring and dropped again before create goes on.
TakeAndDrop ==
  /\ ring' = [ring EXCEPT ![Me] = Tail(@)]
  /\ seen' = [seen EXCEPT ![Me] = Received.item]
  /\ UNCHANGED <<loans, borrowed, attached, event, parked>>

ReceiveEos ==
  /\ CanReceive /\ Received.eos
  /\ TakeAndDrop
  /\ Return("Eos")
  /\ UNCHANGED <<fields, pad, delivered>>

IsFrame == CanReceive /\ ~Received.eos

\* Mutant of ReceiveMalformed: create waits after the frame it has dropped,
\* with the notification of the frame behind it already consumed.
MalformedWaits ==
  /\ IsFrame /\ Received.item \in Malformed
  /\ ring' = [ring EXCEPT ![Me] = Tail(@)]
  /\ seen' = [seen EXCEPT ![Me] = Received.item]
  /\ parked' = parked \cup {Me}
  /\ UNCHANGED <<loans, borrowed, attached, event, fields, create, baseVars, pub>>

ReceiveMalformed ==
  /\ IsFrame /\ Received.item \in Malformed
  /\ TakeAndDrop
  /\ create' = [create EXCEPT !.pc = "check"]
  /\ UNCHANGED <<fields, baseVars, pub>>

ReceiveCapless ==
  /\ IsFrame /\ Received.item \in Capless \ Malformed
  /\ TakeAndDrop
  /\ frames_received' = frames_received + 1
  /\ Return("NotNegotiated")
  /\ UNCHANGED <<last_caps, unlocked, pad, delivered>>

ReceiveFrame ==
  /\ IsFrame /\ Received.item \notin Malformed \cup Capless
  /\ Receive(Me)
  /\ frames_received' = frames_received + 1
  /\ last_caps' = Received.caps
  /\ create' = [pc |-> "deliver", sample |-> {Received},
                changed |-> Received.caps # last_caps]
  /\ UNCHANGED <<unlocked, baseVars, pub>>

ReceiveFails ==
  /\ Receiving /\ ~CanReceive
  /\ Return("Error")
  /\ UNCHANGED <<shmVars, fields, pad, delivered>>

\* The ring is empty: timed_wait_one, with the state mutex held.
Wait ==
  /\ create.pc = "receive"
  /\ Park(Me)
  /\ UNCHANGED <<fields, create, baseVars, pub>>

WaitEnds ==
  /\ create' = [create EXCEPT !.pc = "check"]
  /\ UNCHANGED <<fields, baseVars, pub>>

Notified == Wake(Me) /\ WaitEnds

\* Mutant of TimedOut: the wait has no timeout.
NeverTimesOut == FALSE

TimedOut == WaitTimeout(Me) /\ WaitEnds

\* deliver: set_caps, which fails only on a pad that is being deactivated (a
\* flushing pad keeps the caps and sends them before the next buffer).
SetCapsFails == create.changed /\ ctl = "deactivate"
CapsSet      == IF create.changed THEN last_caps ELSE pad

DropHand ==
  /\ borrowed' = [borrowed EXCEPT ![Me] = @ \ create.sample]
  /\ UNCHANGED <<loans, ring, attached, event, parked, seen>>

DeliverRefused ==
  /\ create.pc = "deliver" /\ SetCapsFails
  /\ DropHand
  /\ Return("NotNegotiated")
  /\ UNCHANGED <<fields, pad, delivered>>

\* The buffer is returned and, on a flushing pad, dropped by GStreamer.
DeliverFlushing ==
  /\ create.pc = "deliver" /\ ~SetCapsFails /\ ctl # "run"
  /\ pad' = CapsSet
  /\ DropHand
  /\ Return("Flushing")
  /\ UNCHANGED <<fields, delivered>>

Deliver ==
  /\ create.pc = "deliver" /\ ctl = "run"
  /\ pad' = CapsSet
  /\ \E sm \in create.sample :
       delivered' = Append(delivered, [item |-> sm.item, caps |-> sm.caps,
                                       under |-> CapsSet])
  /\ Return("Ok")
  /\ UNCHANGED <<shmVars, fields>>

----------------------------------------------------------------------------
\* Mutant of FreeBuffer: the sample does not live as long as the buffer over it.
FreeEarly ==
  /\ \E sm \in borrowed[Me] : Release(Me, sm)
  /\ UNCHANGED <<fields, create, baseVars, pub>>

\* A buffer is dropped downstream: RecvSample, and with it the sample, goes.
FreeBuffer ==
  /\ \E sm \in borrowed[Me] \ create.sample : Release(Me, sm)
  /\ UNCHANGED <<fields, create, baseVars, pub>>

\* Another process publishes on the service; two layouts make every change of caps.
Publish ==
  /\ ~pub.notify /\ pub.next \in Items
  /\ \E x \in Free(1), c \in Items \cap 1..2, e \in BOOLEAN :
       Send([slot |-> x, item |-> pub.next, caps |-> c, eos |-> e], Overflow)
  /\ pub' = [next |-> pub.next + 1, notify |-> TRUE]
  /\ UNCHANGED <<borrowed, attached, event, parked, seen, fields, create, baseVars>>

PublishNotify ==
  /\ pub.notify
  /\ Notify
  /\ pub' = [pub EXCEPT !.notify = FALSE]
  /\ UNCHANGED <<loans, ring, borrowed, attached, parked, seen, fields, create, baseVars>>

Application == Start \/ Unlock \/ UnlockStop \/ FlushStop \/ Stop

\* What the streaming thread does of its own accord or when notified.
Streaming ==
  \/ CreateBegin \/ Flushing \/ Check
  \/ ReceiveEos \/ ReceiveMalformed \/ ReceiveCapless \/ ReceiveFrame \/ ReceiveFails
  \/ Wait \/ Notified \/ Deliver \/ DeliverFlushing \/ DeliverRefused

Element == Application \/ Streaming \/ TimedOut \/ FreeBuffer

Environment == Publish \/ PublishNotify

Next == Element \/ Environment

Spec == Init /\ [][Next]_vars

\* The streaming thread runs.  Nothing makes a wait end by its timeout.
FairSpec == Spec /\ WF_vars(Streaming)

\* A wait ends after WAIT_TIMEOUT at the latest.
WaitsEnd == WF_vars(TimedOut)

\* The publisher completes its notifications.
PublisherNotifies == WF_vars(PublishNotify)

----------------------------------------------------------------------------
\* Each frame goes downstream under the caps of its own header: renegotiation,
\* a failed set_caps, flush and restart leave no frame under other caps
\* (source.rs:11-13, 395-398, 432).
UnderItsCaps ==
  \A i \in 1..Len(delivered) : delivered[i].under = delivered[i].caps

\* unlock ends create, by the timeout of a wait if need be, whatever publishers
\* and downstream do (source.rs:49-51, 148-149).
UnlockEndsCreate ==
  WaitsEnd => ((unlocked /\ create.pc # "idle") ~> create.pc = "idle")

Arrived(i) == \E k \in 1..Len(delivered) : delivered[k].item = i

Full == Cardinality(borrowed[Me]) >= BorrowedMax

\* A well-formed frame on a ring without overflow goes downstream, unless the
\* element is flushed or stopped, the stream ended or downstream keeps all samples
\* it may; a malformed frame before it does not stop the stream.  Its notification
\* is enough: no timeout is assumed to end a wait (source.rs:8-9, 359-372, 404).
FrameArrives ==
  PublisherNotifies =>
    \A i \in Items \ (Malformed \cup Capless) :
      (\E sm \in Queued(Me) : sm.item = i /\ ~sm.eos)
        ~> (Arrived(i) \/ ctl # "run" \/ flow \in {"Eos", "NotNegotiated"} \/ Full)
=============================================================================
