-------------------------------- MODULE Sink --------------------------------
(***************************************************************************)
(* iceoryx2sink (sink.rs) with its zero-copy buffer pool (pool.rs), run by *)
(* the threads that call it:                                               *)
(*                                                                         *)
(*   - the streaming thread, which handles the items of the sink's input   *)
(*     in order: caps (set_caps), buffers (render) and EOS (event);        *)
(*   - the upstream thread, which acquires pool buffers, writes pixels     *)
(*     into them and pushes items;                                         *)
(*   - the application thread, which starts and stops the element and      *)
(*     calls unlock / unlock_stop around a flush;                          *)
(*   - whoever drops the last reference to a buffer.                       *)
(*                                                                         *)
(* An item is a number: the upstream produces 1, 2, 3 ... and each is a    *)
(* caps event, a buffer or an EOS event.  The pixels of frame i are the    *)
(* value i, the caps of caps event i are the value i.                      *)
(***************************************************************************)
EXTENDS Shm

CONSTANTS
  SafeOverflow, Lossless, WaitForConnection,  \* Settings
  MaxLive,     \* pool buffers the pipeline keeps alive at once
  Flushes,     \* whether the application flushes
  ClientsLeave,  \* whether subscribers detach
  StopsEarly,  \* whether stop may overlap the copy path of render
  Faults       \* whether iceoryx2's send and notify may fail

ASSUME SinkAssumption ==
  /\ SafeOverflow \in BOOLEAN /\ Lossless \in BOOLEAN /\ WaitForConnection \in BOOLEAN
  /\ Flushes \in BOOLEAN /\ ClientsLeave \in BOOLEAN
  /\ StopsEarly \in BOOLEAN /\ Faults \in BOOLEAN
  /\ MaxLive \in Nat

VARIABLES
  \* the element: State, Settings and atomics of sink.rs
  started,    \* state is Some
  publisher,  \* state.publisher is Some
  caps,       \* state.caps, 0 when None
  registry,   \* LoanRegistry: the slots of the loans awaiting send()
  unlocked,   \* the flag unlock sets
  clients,    \* num-clients
  counters,   \* frames-sent, frames-zero-copy, frames-copied
  \* the streaming thread
  render,     \* where it is, and with which item, slot and caps
  flow,       \* what the last render returned
  \* the element's surroundings
  session,    \* how often the element was started
  ctl,        \* "stopped" | "run" | "unlock" | "flush"
  input,      \* items pushed to the sink pad
  next,       \* next item the upstream produces
  upcaps,     \* caps of the upstream, 0 before the first
  ended,      \* the upstream pushed EOS: nothing follows before a flush or restart
  pool,       \* session whose pool the upstream allocates from, 0 for none
  acq,        \* session of the pool in acquire_buffer, 0 when idle
  buf,        \* the buffers
  \* history
  pixels,     \* the frame whose pixels a slot holds, 0 for none
  published   \* frames sent since start

elementVars == <<started, publisher, caps, registry, unlocked, clients, counters>>
streamVars  == <<render, flow>>
upVars      == <<next, upcaps, ended, pool, acq>>
histVars    == <<pixels, published>>
vars == <<shmVars, elementVars, streamVars, session, ctl, input, upVars, buf, histVars>>

\* Mutants of RingOverflow: `lossless` is forgotten; it is applied inverted.
OverflowWhenLossless == SafeOverflow
OverflowOnlyLossless == SafeOverflow /\ Lossless

\* sink.rs:318: a lossless sink opens the service without overflow.
RingOverflow == SafeOverflow /\ ~Lossless

Idle == [pc |-> "idle", item |-> 0, slot |-> NoSlot, caps |-> 0]
RenderPcs == {"idle", "await", "take", "zsend", "cloan", "csend", "esend",
              "znotify", "cnotify", "enotify"}
RenderState == [pc : RenderPcs, item : 0..MaxItems, slot : Slots \cup {NoSlot},
                caps : 0..MaxItems]

\* The loan the streaming thread has taken out of the registry or made itself.
InHand == IF render.pc \in {"zsend", "csend", "esend"} THEN {render.slot} ELSE {}

\* An item on its way to the sink.
Pushed == [kind : {"caps", "buffer", "eos"}, item : Items]

\* A buffer is not yet acquired, owned by the upstream, in the input, being
\* rendered, with its loan taken out of the registry, referenced by others
\* (last-sample, a tee) after its loan was taken or without that, or dropped.
\* Its slot is the address its LoanHandle names, NoSlot when its memory is
\* not from the pool.
BufferStates == {"none", "own", "queued", "render", "taken", "sent", "held", "gone"}
Buffer    == [st : BufferStates, slot : Slots \cup {NoSlot}, caps : 0..MaxItems]
NoBuffer  == [st |-> "none", slot |-> NoSlot, caps |-> 0]

Pooled(i) == buf[i].slot # NoSlot
Live(i)   == Pooled(i) /\ buf[i].st \notin {"none", "gone"}

\* The pixels a reader of buffer i's memory finds.
Content(i) == IF Pooled(i) THEN pixels[buf[i].slot] ELSE i

FlagTypeOK == {started, publisher, unlocked, ended} \subseteq BOOLEAN

ElementTypeOK ==
  /\ caps \in 0..MaxItems
  /\ registry \subseteq Slots
  /\ clients \in 0..Cardinality(Subs)
  /\ counters \in [sent : Nat, zero : Nat, copied : Nat]

StreamTypeOK ==
  /\ render \in RenderState
  /\ render.pc # "idle" => render.item \in Items
  /\ InHand \subseteq Slots
  /\ flow \in {"Ok", "Flushing", "Error", "NotNegotiated"}

UpstreamTypeOK ==
  /\ next \in 1..(MaxItems + 1)
  /\ upcaps \in 0..MaxItems
  /\ pool \in 0..MaxSessions /\ acq \in 0..MaxSessions
  /\ acq # 0 => next \in Items

PipelineTypeOK ==
  /\ session \in 0..MaxSessions
  /\ ctl \in {"stopped", "run", "unlock", "flush"}
  /\ input \in Seq(Pushed)
  /\ buf \in [Items -> Buffer]

HistoryTypeOK ==
  /\ pixels \in [Slots -> 0..MaxItems]
  /\ published \in Nat

\* The type invariant.
TypeOK ==
  /\ ShmTypeOK /\ FlagTypeOK /\ ElementTypeOK /\ StreamTypeOK
  /\ UpstreamTypeOK /\ PipelineTypeOK /\ HistoryTypeOK

Init ==
  /\ ShmInit
  /\ started = FALSE /\ publisher = FALSE /\ caps = 0 /\ registry = {}
  /\ unlocked = FALSE /\ clients = 0
  /\ counters = [sent |-> 0, zero |-> 0, copied |-> 0]
  /\ render = Idle /\ flow = "Ok"
  /\ session = 0 /\ ctl = "stopped" /\ input = <<>>
  /\ next = 1 /\ upcaps = 0 /\ ended = FALSE /\ pool = 0 /\ acq = 0
  /\ buf = [i \in Items |-> NoBuffer]
  /\ pixels = [x \in Slots |-> 0] /\ published = 0

----------------------------------------------------------------------------
\* The application thread.

\* GStreamer pushes the current caps again after a flush or a restart.
StickyCaps == IF upcaps = 0 THEN <<>> ELSE <<[kind |-> "caps", item |-> upcaps]>>

Start ==
  /\ ctl = "stopped" /\ session < MaxSessions
  /\ render = Idle /\ input = <<>>
  /\ session' = session + 1 /\ ctl' = "run" /\ input' = StickyCaps
  /\ started' = TRUE /\ publisher' = FALSE /\ caps' = 0
  /\ unlocked' = FALSE /\ clients' = 0
  /\ counters' = [sent |-> 0, zero |-> 0, copied |-> 0] /\ published' = 0
  /\ ended' = FALSE
  /\ UNCHANGED <<shmVars, registry, streamVars, next, upcaps, pool, acq, buf, pixels>>

\* The streaming thread holds the `state` mutex.
LockHeld == render.pc \in {"zsend", "znotify", "esend", "enotify"}

\* Only after the pads are inactive and render has returned; with StopsEarly
\* whenever the `state` mutex is free, which notify_after_send provides for.
Stop ==
  /\ ctl = "flush" \/ (ctl = "unlock" /\ StopsEarly)
  /\ ~LockHeld
  /\ ctl' = "stopped" /\ started' = FALSE /\ publisher' = FALSE /\ caps' = 0
  /\ UNCHANGED <<shmVars, registry, unlocked, clients, counters, streamVars,
                 session, input, upVars, buf, histVars>>

Unlock ==
  /\ Flushes
  /\ ctl = "run"
  /\ ctl' = "unlock" /\ unlocked' = TRUE
  /\ UNCHANGED <<shmVars, started, publisher, caps, registry, clients, counters,
                 streamVars, session, input, upVars, buf, histVars>>

\* GstBaseSink calls unlock_stop once it holds the lock render runs under.
UnlockStop ==
  /\ ctl = "unlock" /\ render = Idle
  /\ ctl' = "flush" /\ unlocked' = FALSE
  /\ UNCHANGED <<shmVars, started, publisher, caps, registry, clients, counters,
                 streamVars, session, input, upVars, buf, histVars>>

FlushStop ==
  /\ ctl = "flush" /\ input = <<>>
  /\ ctl' = "run" /\ input' = StickyCaps /\ ended' = FALSE
  /\ UNCHANGED <<shmVars, elementVars, streamVars, session, next, upcaps, pool, acq,
                 buf, histVars>>

----------------------------------------------------------------------------
\* The streaming thread between two items.

\* A buffer the pipeline is done with: pool memory is freed by HandleDrop.
Done(i) == [buf EXCEPT ![i].st = IF ~Pooled(i) THEN "gone"
                                 ELSE IF @ = "taken" THEN "sent" ELSE "held"]

\* A flushing or inactive pad drops what is pushed to it.
FlushItem ==
  /\ ctl \in {"flush", "stopped"} /\ input # <<>>
  /\ input' = Tail(input)
  /\ buf' = IF Head(input).kind = "buffer" THEN Done(Head(input).item) ELSE buf
  /\ UNCHANGED <<shmVars, elementVars, streamVars, session, ctl, upVars, histVars>>

Take(kind) ==
  /\ ctl \in {"run", "unlock"} /\ render = Idle
  /\ input # <<>> /\ Head(input).kind = kind
  /\ input' = Tail(input)

\* Mutant of SetCaps: the caps are cached with the publisher, on the first caps.
SetFirstCaps ==
  /\ Take("caps")
  /\ publisher' = TRUE
  /\ caps' = IF publisher THEN caps ELSE Head(input).item
  /\ UNCHANGED <<shmVars, started, registry, unlocked, clients, counters,
                 streamVars, session, ctl, upVars, buf, histVars>>

SetCaps ==
  /\ Take("caps")
  /\ publisher' = TRUE
  /\ caps' = Head(input).item
  /\ UNCHANGED <<shmVars, started, registry, unlocked, clients, counters,
                 streamVars, session, ctl, upVars, buf, histVars>>

\* publish_eos, up to its send: without a publisher there is nothing to say,
\* a failed loan is only logged.
PublishEos ==
  /\ Take("eos")
  /\ \/ /\ publisher
        /\ \E x \in Free(session) :
             /\ Loan(x)
             /\ render' = [Idle EXCEPT !.pc = "esend", !.item = Head(input).item,
                                       !.slot = x]
     \/ /\ ~publisher \/ ~CanLoan(session)
        /\ UNCHANGED <<loans, render>>
  /\ UNCHANGED <<ring, borrowed, attached, event, parked, seen, elementVars, flow,
                 session, ctl, upVars, buf, pixels, published>>

EosSend ==
  /\ render.pc = "esend"
  /\ Send([slot |-> render.slot, item |-> render.item, caps |-> 0, eos |-> TRUE],
          RingOverflow)
  /\ render' = [render EXCEPT !.pc = "enotify", !.slot = NoSlot]
  /\ UNCHANGED <<borrowed, attached, event, parked, seen, elementVars, flow,
                 session, ctl, input, upVars, buf, pixels, published>>

\* Mutant of EosNotify: publish_eos does not notify.
EosSilent ==
  /\ render.pc = "enotify"
  /\ render' = Idle
  /\ UNCHANGED <<shmVars, elementVars, flow, session, ctl, input, upVars, buf, histVars>>

\* The result of notify is ignored.
EosNotify ==
  /\ render.pc = "enotify"
  /\ Notify \/ (Faults /\ UNCHANGED event)
  /\ render' = Idle
  /\ UNCHANGED <<loans, ring, borrowed, attached, parked, seen, elementVars, flow,
                 session, ctl, input, upVars, buf, histVars>>

----------------------------------------------------------------------------
\* render.

RenderBegin ==
  /\ Take("buffer")
  /\ render' = [Idle EXCEPT !.pc = "await", !.item = Head(input).item]
  /\ buf' = [buf EXCEPT ![Head(input).item].st = "render"]
  /\ UNCHANGED <<shmVars, elementVars, flow, session, ctl, upVars, histVars>>

\* render returns `result`.
Return(result) ==
  /\ render' = Idle
  /\ flow' = result
  /\ buf' = Done(render.item)

\* A step of render that leaves the surroundings alone.
RenderFrame == UNCHANGED <<session, ctl, input, upVars>>

\* Mutant of PollClients: it counts the nodes of the service, the sink's too.
PollNodes == IF started THEN Cardinality(attached) + 1 ELSE 0

\* track_and_await_connection: one round of its loop.
PollClients == IF started THEN Cardinality(attached) ELSE 0

AwaitConnection ==
  /\ render.pc = "await" /\ ~unlocked
  /\ clients' = PollClients
  /\ render' = [render EXCEPT !.pc =
                  IF PollClients >= 1 \/ ~WaitForConnection THEN "take" ELSE "await"]
  /\ RenderFrame
  /\ UNCHANGED <<shmVars, started, publisher, caps, registry, unlocked, counters,
                 flow, buf, histVars>>

AwaitFlushing ==
  /\ render.pc = "await" /\ unlocked
  /\ Return("Flushing")
  /\ RenderFrame
  /\ UNCHANGED <<shmVars, elementVars, histVars>>

RenderRefused ==
  /\ render.pc = "take"
  /\ \/ ~started /\ Return("Error")
     \/ started /\ caps = 0 /\ Return("NotNegotiated")
  /\ RenderFrame
  /\ UNCHANGED <<shmVars, elementVars, histVars>>

\* registry.remove(&ptr): the registry is the current session's.
Registered(i) == buf[i].slot \in registry /\ buf[i].slot[1] = session

TakeLoan ==
  /\ render.pc = "take" /\ started /\ caps # 0
  /\ Registered(render.item)
  /\ registry' = registry \ {buf[render.item].slot}
  /\ render' = [render EXCEPT !.pc = "zsend", !.slot = buf[render.item].slot,
                              !.caps = caps]
  /\ buf' = [buf EXCEPT ![render.item].st = "taken"]
  /\ RenderFrame
  /\ UNCHANGED <<shmVars, started, publisher, caps, unlocked, clients, counters,
                 flow, histVars>>

CopyStart ==
  /\ render.pc = "take" /\ started /\ caps # 0
  /\ ~Registered(render.item)
  /\ render' = [render EXCEPT !.pc = "cloan", !.caps = caps]
  /\ RenderFrame
  /\ UNCHANGED <<shmVars, elementVars, flow, buf, histVars>>

FrameSample == [slot |-> render.slot, item |-> render.item, caps |-> render.caps,
                eos |-> FALSE]

ZeroCopySend ==
  /\ render.pc = "zsend"
  /\ Send(FrameSample, RingOverflow)
  /\ render' = [render EXCEPT !.pc = "znotify", !.slot = NoSlot]
  /\ published' = published + 1
  /\ RenderFrame
  /\ UNCHANGED <<borrowed, attached, event, parked, seen, elementVars, flow, buf,
                 pixels>>

\* The copy path loans outside the `state` mutex, from the publisher it cloned.
CopyLoan ==
  /\ render.pc = "cloan"
  /\ \E x \in Free(session) :
       Loan(x) /\ render' = [render EXCEPT !.pc = "csend", !.slot = x]
  /\ RenderFrame
  /\ UNCHANGED <<ring, borrowed, attached, event, parked, seen, elementVars, flow,
                 buf, histVars>>

\* Mutant of CopyLoanFails: the lossless retry never ends.
LosslessNeverFlushes ==
  /\ render.pc = "cloan" /\ ~CanLoan(session)
  /\ ~Lossless /\ Return("Error")
  /\ RenderFrame
  /\ UNCHANGED <<shmVars, elementVars, histVars>>

\* In lossless mode the loop of the failed loan ends only by unlock.
CopyLoanFails ==
  /\ render.pc = "cloan" /\ ~CanLoan(session)
  /\ \/ ~Lossless /\ Return("Error")
     \/ Lossless /\ unlocked /\ Return("Flushing")
  /\ RenderFrame
  /\ UNCHANGED <<shmVars, elementVars, histVars>>

\* Mutant of CopySend: the pixels are not copied.
SendWithoutCopy ==
  /\ render.pc = "csend"
  /\ Send(FrameSample, RingOverflow)
  /\ render' = [render EXCEPT !.pc = "cnotify", !.slot = NoSlot]
  /\ published' = published + 1
  /\ RenderFrame
  /\ UNCHANGED <<borrowed, attached, event, parked, seen, elementVars, flow, buf,
                 pixels>>

CopySend ==
  /\ render.pc = "csend"
  /\ pixels' = [pixels EXCEPT ![render.slot] = Content(render.item)]
  /\ Send(FrameSample, RingOverflow)
  /\ render' = [render EXCEPT !.pc = "cnotify", !.slot = NoSlot]
  /\ published' = published + 1
  /\ RenderFrame
  /\ UNCHANGED <<borrowed, attached, event, parked, seen, elementVars, flow, buf>>

\* A failed send consumes the sample: the loan is returned.
SendFails ==
  /\ Faults
  /\ render.pc \in {"zsend", "csend", "esend"}
  /\ loans' = loans \ {render.slot}
  /\ IF render.pc = "esend"
     THEN render' = Idle /\ UNCHANGED <<flow, buf>>
     ELSE Return("Error")
  /\ RenderFrame
  /\ UNCHANGED <<ring, borrowed, attached, event, parked, seen, elementVars,
                 pixels, published>>

\* Mutant of Count: frames-sent is left out.
CountPath(path) == counters' = [counters EXCEPT ![path] = @ + 1]

Count(path) == counters' = [counters EXCEPT !.sent = @ + 1, ![path] = @ + 1]

\* Mutant of ZeroCopyNotify: the zero-copy path forgets to notify.
ZeroCopyNoNotify ==
  /\ render.pc = "znotify"
  /\ Count("zero") /\ Return("Ok")
  /\ RenderFrame
  /\ UNCHANGED <<shmVars, started, publisher, caps, registry, unlocked, clients, histVars>>

ZeroCopyNotify ==
  /\ render.pc = "znotify"
  /\ Notify /\ Count("zero") /\ Return("Ok")
  /\ RenderFrame
  /\ UNCHANGED <<loans, ring, borrowed, attached, parked, seen, started, publisher,
                 caps, registry, unlocked, clients, histVars>>

\* notify_after_send: a no-op when the element has stopped meanwhile.
CopyNotify ==
  /\ render.pc = "cnotify"
  /\ IF started THEN Notify ELSE UNCHANGED event
  /\ Count("copied") /\ Return("Ok")
  /\ RenderFrame
  /\ UNCHANGED <<loans, ring, borrowed, attached, parked, seen, started, publisher,
                 caps, registry, unlocked, clients, histVars>>

NotifyFails ==
  /\ Faults
  /\ render.pc \in {"znotify", "cnotify"} /\ started
  /\ Return("Error")
  /\ RenderFrame
  /\ UNCHANGED <<shmVars, elementVars, histVars>>

----------------------------------------------------------------------------
\* The upstream and the pool.

Owned == {i \in Items : buf[i].st = "own"}
LiveBuffers == {i \in Items : Live(i)}

Push(kind, i) == input' = Append(input, [kind |-> kind, item |-> i])

Produce ==
  /\ ctl # "stopped" /\ ~ended
  /\ next \in Items /\ acq = 0 /\ Owned = {}
  /\ next' = next + 1
  /\ UNCHANGED <<shmVars, elementVars, streamVars, session, ctl, pool, acq, histVars>>

PushCaps == Produce /\ Push("caps", next) /\ upcaps' = next /\ UNCHANGED <<ended, buf>>
PushEos  == Produce /\ Push("eos", next) /\ ended' = TRUE /\ UNCHANGED <<upcaps, buf>>

\* A buffer in memory of the upstream's own.
PushSystem ==
  /\ Produce /\ Push("buffer", next)
  /\ buf' = [buf EXCEPT ![next] = [st |-> "queued", slot |-> NoSlot, caps |-> upcaps]]
  /\ UNCHANGED <<upcaps, ended>>

\* propose_allocation answers a query that is serialised with the items.
ProposeAllocation ==
  /\ ctl = "run" /\ render = Idle /\ input = <<>>
  /\ pool' = IF started /\ publisher THEN session ELSE 0
  /\ UNCHANGED <<shmVars, elementVars, streamVars, session, ctl, input, next, upcaps,
                 ended, acq, buf, histVars>>

AcquireBegin ==
  /\ ctl # "stopped" /\ ~ended
  /\ acq = 0 /\ pool # 0 /\ next \in Items
  /\ Cardinality(LiveBuffers) < MaxLive
  /\ acq' = pool
  /\ UNCHANGED <<shmVars, elementVars, streamVars, session, ctl, input, next, upcaps,
                 ended, pool, buf, histVars>>

\* Mutant of AllocBuffer: the loan is not registered.
AllocUnregistered ==
  /\ acq # 0
  /\ \E x \in Free(acq) :
       /\ Loan(x)
       /\ buf' = [buf EXCEPT ![next] = [st |-> "own", slot |-> x, caps |-> 0]]
       /\ pixels' = [pixels EXCEPT ![x] = 0]
  /\ next' = next + 1 /\ acq' = 0
  /\ UNCHANGED <<ring, borrowed, attached, event, parked, seen, elementVars, streamVars,
                 session, ctl, input, upcaps, ended, pool, published>>

\* alloc_buffer: the fresh loan is registered under its address.
AllocBuffer ==
  /\ acq # 0
  /\ \E x \in Free(acq) :
       /\ Loan(x)
       /\ registry' = registry \cup {x}
       /\ buf' = [buf EXCEPT ![next] = [st |-> "own", slot |-> x, caps |-> 0]]
       /\ pixels' = [pixels EXCEPT ![x] = 0]
  /\ next' = next + 1 /\ acq' = 0
  /\ UNCHANGED <<ring, borrowed, attached, event, parked, seen, started, publisher,
                 caps, unlocked, clients, counters, streamVars, session, ctl, input,
                 upcaps, ended, pool, published>>

AllocFails ==
  /\ acq # 0 /\ ~CanLoan(acq)
  /\ ~Lossless \/ unlocked
  /\ acq' = 0
  /\ UNCHANGED <<shmVars, elementVars, streamVars, session, ctl, input, next, upcaps,
                 ended, pool, buf, histVars>>

\* The upstream writes the frame through the LoanHandle and pushes the buffer.
FillAndPush(i) ==
  /\ i \in Owned /\ \A j \in Owned : i <= j
  /\ pixels' = [pixels EXCEPT ![buf[i].slot] = i]
  /\ buf' = [buf EXCEPT ![i].st = "queued", ![i].caps = upcaps]
  /\ Push("buffer", i)
  /\ UNCHANGED <<shmVars, elementVars, streamVars, session, ctl, upVars, published>>

\* Mutant of HandleDrop: the handle does not un-register its loan.
DropRegistered(i) ==
  /\ Live(i) /\ buf[i].st \in {"own", "sent", "held"}
  /\ buf' = [buf EXCEPT ![i].st = "gone", ![i].slot = NoSlot]
  /\ UNCHANGED <<shmVars, elementVars, streamVars, session, ctl, input, upVars, histVars>>

\* LoanHandle::drop, by the last reference: after render, or by an upstream
\* that gives the buffer up.
HandleDrop(i) ==
  /\ Live(i) /\ buf[i].st \in {"own", "sent", "held"}
  /\ registry' = registry \ {buf[i].slot}
  /\ loans' = loans \ ({buf[i].slot} \cap registry)
  /\ buf' = [buf EXCEPT ![i].st = "gone", ![i].slot = NoSlot]
  /\ UNCHANGED <<ring, borrowed, attached, event, parked, seen, started, publisher,
                 caps, unlocked, clients, counters, streamVars, session, ctl, input,
                 upVars, histVars>>

----------------------------------------------------------------------------
Render ==
  \/ RenderBegin \/ AwaitConnection \/ AwaitFlushing \/ RenderRefused
  \/ TakeLoan \/ ZeroCopySend \/ ZeroCopyNotify
  \/ CopyStart \/ CopyLoan \/ CopyLoanFails \/ CopySend \/ CopyNotify
  \/ SendFails \/ NotifyFails

Streaming == Render \/ FlushItem \/ SetCaps \/ PublishEos \/ EosSend \/ EosNotify

Upstream ==
  \/ PushCaps \/ PushEos \/ PushSystem \/ ProposeAllocation
  \/ AcquireBegin \/ AllocBuffer \/ AllocFails
  \/ \E i \in Items : FillAndPush(i)

Drop == \E i \in Items : HandleDrop(i)

Application == Start \/ Stop \/ Unlock \/ UnlockStop \/ FlushStop

Subscriber(s) ==
  \/ Attach(s) \/ (ClientsLeave /\ Detach(s)) \/ Receive(s) \/ (\E sm \in borrowed[s] : Release(s, sm))
  \/ Park(s) \/ Wake(s) \/ WaitTimeout(s)

Consumer ==
  /\ \E s \in Subs : Subscriber(s)
  /\ UNCHANGED <<elementVars, streamVars, session, ctl, input, upVars, buf, histVars>>

Next == Application \/ Streaming \/ Upstream \/ Drop \/ Consumer

Spec == Init /\ [][Next]_vars

\* The threads of the producing process run, and no failure is needed for it.
\* Nothing is assumed of the subscribers and the application.
ProducerFairness ==
  /\ WF_vars(Streaming /\ ~(SendFails \/ NotifyFails))
  /\ WF_vars(AllocBuffer \/ AllocFails)
  /\ \A i \in Items : WF_vars(FillAndPush(i)) /\ WF_vars(HandleDrop(i))

FairSpec == Spec /\ ProducerFairness

----------------------------------------------------------------------------
\* Safety.

\* No loan leaks: each outstanding loan is in the streaming thread's hand or
\* in the registry under the address of a live buffer, whose drop returns it;
\* and neither place names a loan that is already gone.  Holds for every way
\* buffers are kept, flushed, carried over a restart or given up
\* (pool.rs:73-78, sink.rs:502).
NoLeakedLoan ==
  /\ loans = registry \cup InHand
  /\ registry \cap InHand = {}
  /\ \A x \in registry : \E i \in Items : Live(i) /\ buf[i].slot = x

\* Every sample a subscriber can still read shows the frame its header names:
\* nobody wrote to the shared memory after it was sent (pool.rs:4-7).
FrameIntact ==
  \A sm \in InFlight : ~sm.eos => pixels[sm.slot] = sm.item

\* A buffer of the current session's pool is never sent by the copy path
\* (pool.rs:9-13).
PoolBufferIsZeroCopy ==
  render.pc \in {"cloan", "csend"} => buf[render.item].slot[1] # session

\* The header describes the frame: its layout is that of the caps in force
\* when the frame was pushed, across renegotiation, flush and restart
\* (sink.rs:492-497).
HeaderDescribesFrame ==
  \A sm \in InFlight : ~sm.eos => sm.caps = buf[sm.item].caps

\* A subscriber that waits on its listener with samples in its ring has been
\* notified, or is about to be: send always precedes notify, and no frame is
\* left for the timeout to find (sink.rs:540-544, 591-595).
NoMissedWakeup ==
  \A s \in parked :
    ring[s] # <<>> => s \in event \/ render.pc \in {"znotify", "cnotify", "enotify"}

\* frames-sent counts exactly the frames put on the ring since start, each
\* once and by one path (sink.rs:545-546, 596-597).
CountersMatchPublished ==
  /\ counters.sent = counters.zero + counters.copied
  /\ published = counters.sent
                 + (IF render.pc \in {"znotify", "cnotify"} THEN 1 ELSE 0)

\* A lossless sink never overwrites: a sample leaves the ring of a subscriber
\* only by being received (sink.rs:312-319).
NoUnreadLoss ==
  [][\A s \in attached \cap attached' : Queued(s) \subseteq Queued(s)' \cup borrowed'[s]]_vars

\* In lossless mode a failed loan means that the consumer is behind
\* (sink.rs:564-565): it still has a sample to receive or to release.
LosslessWaitsForConsumer ==
  Lossless /\ render.pc = "cloan" /\ ~CanLoan(session) => InFlight # {}

----------------------------------------------------------------------------
\* Liveness.

\* A lossy sink never stalls its pipeline: render returns whatever the
\* subscribers do or stop doing (sink.rs:477-599).
RenderReturns == render.pc # "idle" ~> render.pc = "idle"

\* unlock breaks render out of its wait for a subscriber and its wait for a
\* loan, whatever the subscribers do (sink.rs:126-128, 356-360).
UnlockFreesRender ==
  (unlocked /\ render.pc \in {"await", "cloan"}) ~> render.pc \notin {"await", "cloan"}

\* unlock breaks render and the pool's acquire_buffer out of every lossless
\* back-pressure wait (sink.rs:126-128), the one of send on a full ring and
\* the one between two polls of the flag included.
UnlockFreesAll ==
  /\ (unlocked /\ render.pc \in {"zsend", "csend"}) ~> render.pc \notin {"zsend", "csend"}
  /\ (unlocked /\ acq # 0) ~> acq = 0
=============================================================================
