# Formal models of gst-plugin-iceoryx2

TLA+ modules for the GStreamer elements and SDKs of this repository, TLC
configurations that check them on small instances, and TLAPS proofs that hold
for every value of the constants. Paths below are relative to the repository;
`sink.rs`, `pool.rs` and `source.rs` are in `crates/gst-plugin-iceoryx2/src/`,
the other Rust files in `crates/gst-plugin-iceoryx2-video/src/`.

    tlc -workers 2 -config MCSink_zero_copy.cfg MCSink.tla
    tlapm SinkFrameProofs.tla

## 1. Inventory

The repository carries video frames between processes over iceoryx2 shared
memory. A producer (the element `iceoryx2sink`, or `VideoFramePublisher` of the
Rust or the Python SDK) publishes a frame as a sample: a header, the pixels and
an aux blob. After each sample it notifies an event service of the same name. A
consumer (`iceoryx2src`, or `VideoFrameSubscriber`) receives samples from its
ring and waits on the event service when the ring is empty.

| Part | State | Operations | What makes it correct |
|---|---|---|---|
| `iceoryx2sink` (sink.rs) | `State` behind a mutex (publisher, notifier, caps, registry), `Settings`, counters, `clients`, `unlocked` | start, stop, unlock, unlock_stop, event, set_caps, propose_allocation, render | a published frame is never written again; the header has the caps of its frame; counters agree with what was sent; waits end on unlock; lossless loses nothing, lossy never stalls |
| Buffer pool (pool.rs) | `Inner` (publisher, registry, settings); the registry address -> loan is shared with the sink | acquire_buffer / alloc_buffer, writes through `LoanHandle`, its drop, release_buffer | every loan is sent or returned once; a handle touches its own loan only; a pool buffer is not copied |
| iceoryx2 services (opened in transport.rs:44-90) | data segment, rings, borrowed samples, events | loan, send, receive, release, notify, wait | external |
| `iceoryx2src` (source.rs) | `State` (subscriber, listener, last_caps), `unlocked`, frames_received | start, stop, unlock(_stop), create, deliver | frames in order under their caps; EOS once; flush returns within one wait; a malformed frame is dropped |
| Rust SDK (transport.rs) | ports | publish_frame, publish_eos, receive, receive_blocking | a blocking receive returns a frame or has waited |
| QoS (qos.rs) | none | `SinkConfig` -> `Qos` | both ends ask for the same values |
| Geometry (validate.rs, ndarray_ext.rs) | none | validate_geometry, view | the rows that readers take lie in the payload, no wrapping arithmetic |
| Aux blob (auxblob.rs of both crates) | none | build_aux, parse_aux | the parse of what was built, for every limit and padding |
| Header (header.rs) | none | set_format, format_name | fixed layout; names survive or are cut |
| Python SDK (python/gst_iceoryx2/video) | ports | as the Rust SDK | same wire behaviour |
| Plugin setup (python/gst_iceoryx2/\_\_init\_\_.py) | a link in a temp directory | \_plugin_link_path, setup_gstreamer | concurrent processes all end with a valid link |

Interaction: the streaming thread calls set_caps, event and render; the upstream
thread calls acquire_buffer and writes pixels; whichever thread drops the last
reference to a buffer runs `LoanHandle::drop`; the application's thread calls
start, stop, unlock and unlock_stop. They share the `state` mutex, the registry's
mutex and the atomic `unlocked`. Producer and consumer share only the services.

The hard parts: a registry keyed by addresses that are reused; the copy path,
which gives up the `state` mutex before it loans and sends; two poll loops and a
send that wait for somebody else; buffers that survive a flush or a restart;
renegotiation, in band at the receiving end; failing sends and notifications;
notifications that outlive what they announced; headers and blobs that any process
may have written. `PROJECT.json` lists each hazard
at its line, with the properties that cover it.

## 2. Modules

| Module | Content |
|---|---|
| `Shm` | the iceoryx2 services as the code uses them (external) |
| `Sink` | sink.rs and pool.rs over `Shm`, with the threads around them; their properties |
| `FrameChannel` | abstract: what a video channel promises, without shared memory |
| `SinkChannel` | the refinement mapping under which `Sink` implements `FrameChannel` |
| `Src` | source.rs over `Shm`, with its threads and a publisher as environment |
| `Link` | `Sink` and `Src` over one `Shm`: the subscriber of one is the element of the other |
| `Sdk` | transport.rs over `Shm`: one publisher, subscribers and their owners |
| `Geometry` | what publishers declare in a header, validate.rs, ndarray_ext.rs |
| `AuxBlob` | auxblob.rs of both crates and the tails that sink.rs writes |
| `MCSink`, `MCLink`, `MCSrc`, `MCSdk`, `MCWire` | model checking; `MCWire` examines `Geometry` and `AuxBlob` side by side |
| `ShmProofs` | facts about the constants and operators of `Shm` |
| `SinkProofs` | types, counters, wakeups and loans of `Sink` |
| `SinkFrameProofs` | published frames stay intact; pool buffers are never copied |
| `SinkChannelProofs` | headers describe their frames; readers read in order; lossless loses nothing; `Sink` implements `FrameChannel` |
| `LinkProofs` | what the source delivers is what was pushed to the sink, and stays it |
| `SrcProofs`, `SdkProofs` | the theorems about these modules |
| `WireProofs` | the theorems about `Geometry` and `AuxBlob` |

Pool and sink are one module because they share the registry, the publisher and
the flag, and no property worth stating concerns the pool alone.

### Sink and the code

An *item* is a number 1, 2, 3 ...: a caps event, a buffer or an EOS event. The
pixels of frame i are the value i and the caps of caps event i are the value i,
so "which frame is in this memory" and "which layout does this header have" are
comparisons of numbers. A *slot* is a cell of the data segment of one session's
publisher, and stands for its address.

| Model | Code |
|---|---|
| `started`, `publisher`, `caps`, `registry` | `Option<State>` and its fields, pool.rs:54 |
| `unlocked`, `clients`, `counters` | the atomics of `Iceoryx2Sink` (sink.rs:119-129) |
| `render` (`pc`, `item`, `slot`, `caps`) | the locals of `render` and `publish_eos` |
| `loans`, `ring`, `borrowed`, `event` (Shm) | the publisher's loans, rings, received samples, pending events |
| `buf` | each buffer: its holder, the address in its `LoanHandle`, the caps it was pushed with |
| `pool`, `acq` | the pool upstream was given, and a call of acquire_buffer in progress |
| `input`, `next`, `upcaps`, `ended`, `ctl`, `session`, `flow` | the pipeline around the element |
| `pixels`, `published`, `seen` | history: memory contents, frames sent, last item received |

`render` is split where another thread can interfere: after its wait for a
subscriber (`AwaitConnection`), at the decision between the two paths
(`TakeLoan`, `CopyStart`), at the loan (`CopyLoan`, `CopyLoanFails`), at the send
(`ZeroCopySend`, `CopySend`) and at the notification, after which it counts and
returns (`ZeroCopyNotify`, `CopyNotify`). `LockHeld` says where it holds the
`state` mutex, which `Stop` needs. set_caps and propose_allocation run under the
mutex and are one action each. `SendFails`, `NotifyFails` and `RenderRefused`
are the error returns; under `Faults` the first two can happen at any time.

Not in this module: properties set while the element runs; the connect and
disconnect signals; a caps event that does not parse; sizes and the other header
fields, which are in `Geometry`, and the aux blob, which is in `AuxBlob`.

### FrameChannel and SinkChannel

In `FrameChannel` a frame is a value: number, caps, pixels. The producer offers
it, publishes it behind everything published before, and cannot change it any
more; each reader has a queue of its own, which drops its oldest frame when the
channel is lossy and full and never overflows when it is lossless; what a reader took it
keeps until it gives it back. `SinkChannel` maps to it what can be *seen*: a
sample in a ring or in a reader's hand becomes its header together with the pixels
that lie in its slot *now*. A write to shared memory that a reader has access to,
a header with other caps, a frame that was never pushed, an item out of order or
one sent twice would each be a step the channel does not have.

### Src and the code

| Model | Code |
|---|---|
| `Me \in attached` | `state` is Some (source.rs:135-154) |
| `last_caps`, `unlocked`, `frames_received` | the fields of that name |
| `create` (`pc`, `sample`, `changed`) | where create is, its `RecvSample` and `caps_changed` |
| `borrowed[Me]` | samples in create's hand and in buffers downstream |
| `flow`, `task`, `ctl`, `starts`, `pad` | GstBaseSrc: last flow return, task, what the application does, the pad's caps |
| `delivered` | history: frames pushed, with the pad's caps of that moment |
| `pub` | the environment: another process that sends and then notifies |

create is split where it lets others in: at the flag (`Flushing`, `Check`), at
receive (one action for EOS, a malformed frame, a frame without caps, a frame, and a
receive that fails because downstream keeps borrowed_max samples), at the wait
(`Wait`, `Notified`, `TimedOut`) and at deliver. `FreeBuffer` is a buffer dropped
downstream, at any time. What the buffer carries besides its sample (timestamps,
VideoMeta, metas) is not in the model.

### Link

`Link` instantiates `Src` over the variables of `Sink`'s services, without its
environment: the sink publishes. Nothing is malformed or without caps, because
the sink's headers always validate (`PublishedAccepted`) and it writes the caps into
each frame that has room for them.

### Sdk and the code

`publish` is a call of publish_frame: loan, send, notify, each with its error
return. `call[s]` is a call of receive_blocking: it looks, waits (`parked`), looks
again, and returns; its `block_ms` is none ("forever") or some ("timed"), and
`elapsed` says that the wait ended by it. `WaitFails` is its error return. A return of `receive` is atomic.
`DropFrame` is an owner that drops a `VideoFrame`, `Open` and `Close` are the ports.
`missed` is history: the last notification of this subscriber failed.

### Geometry and AuxBlob

`Geometry` keeps the arithmetic: header fields are below `U` (2^32), lengths
below `W` (2^64, or 2^32), checked operations fail and casts wrap. Headers come
from the SDK (`SdkHeader`), from the sink (`SinkHeader`, with the layout
GstVideoInfo gives a frame, and `ZeroCopyHeader`, with the clamp of render on a
loan of any size) or from any process (`FromWire`). What readers of the source's
buffer take is `RowsInPixels`: rows as long as the *width* and format make them
(`RowLengths`), at starts that the offset and the stride of the VideoMeta give, which
casts strides to i32 (`Signed`). `FromShape` is what ndarray 0.16 asks of
a view: its last element (`LastElement`) lies inside and no two elements share a byte. It also
counts the axes that are not empty when another one is, so an array without pixels
is refused unless its other axes end inside the payload.

`AuxBlob` keeps bytes and lengths: `BuildAux` with its limit, both tails of render
(exact on the copy path, reserved and zeroed on the zero-copy path), and the two parsers on
these and on any tail: `ParseAux` of the core drops caps that are not `Utf8`, `ParseCaps` of the
plugin those that are not `CapsText`, and both keep the metas behind them. Which byte
strings are text and which are caps are constants; `AuxAssumption` says that what
`caps.to_string()` gives is both and not empty. A byte has `B` values and a length `P` bytes, so that every
tail up to `MaxTail` can be enumerated. The loops of the code are recursive functions
of the number of entries or bytes handled so far: `Kept` (metas that serialise),
`Entries` (entries written), `Horner` (bytes of a length read), `Parsed` (entries read,
one `ParseEntry` each). A limit is a set, `{}` for `None` and `{n}` for `Some(n)`.
The code casts lengths and the number of metas to u32; `AuxAssumption` says that none is
larger than that holds. Offsets add two of them in a usize of 64 bits, which cannot wrap; on a
32-bit target a foreign length could (auxblob.rs:85, 104), which is not modelled. `aux-bytes = 0` is a tail of
no bytes on the zero-copy path; the copy path appends its blob whatever the setting, although
SPEC.md:137 and 176 speak of it as a switch.

### What is assumed of iceoryx2

* A loan takes a cell that no loan, ring or subscriber holds; it fails when there
  is none or when `MaxLoans` (default 2) loans are outstanding. iceoryx2 sizes the
  data segment by the service's limits, so on a well configured service only the
  second cause may remain. The code reads a failed loan as "the ring is full
  (consumer behind)" (sink.rs:564-565, pool.rs:146), so the model keeps both.
* `send` on a full ring drops the oldest sample when the service has safe
  overflow. When it has not, `send` waits: the code sets no other strategy for
  samples that cannot be delivered, and waiting is iceoryx2's default. A send that
  fails consumes its sample.
* Each subscriber has one ring, read in order; receive fails when borrowed_max
  samples are out. History is 0, the default.
* A notification stays pending with each listener until it is consumed; several
  become one.

### What is assumed of GStreamer

* A flush calls unlock, then takes the lock under which render or create runs, and
  calls unlock_stop: `UnlockStop` needs an idle render or create. acquire_buffer is
  not under it.
* stop comes after render has returned. The comment of notify_after_send
  (sink.rs:645-647) provides for a stop during the copy path; `StopsEarly` adds it.
* After a flush or a restart the current caps are pushed again; after EOS nothing
  is pushed until then; an allocation query is serialised with the items.
* A buffer may live on after render (the sink's last-sample, a tee), and upstream
  may give a buffer up. `MaxLive` is the number of pool buffers alive at a time:
  1 is an upstream that works in the sink's thread with `enable-last-sample=false`,
  2 and more is everything else.
* GstBaseSrc pauses its task when create returns anything but Ok and starts it
  again after a flush. A flushing pad stores sticky caps, so set_caps
  succeeds on it; it fails on a pad that is being deactivated, and a deactivated
  pad has lost its caps. Buffers pushed to a flushing pad are dropped.
* stop drops the subscriber with what it holds; buffers that downstream keeps over
  a stop are not followed further.

## 3. Runs

A run's bounds are in its `.cfg`.

| Run | Result | What it shows |
|---|---|---|
| zero_copy | holds | types; `FrameIntact`, `PoolBufferIsZeroCopy`, `NoMissedWakeup`, `CountersMatchPublished` and `ImplementsChannel` for a lossy sink, flushes, a subscriber that comes and goes, one live pool buffer |
| restart | holds | `NoLeakedLoan`, `HeaderDescribesFrame` and `RenderReturns` over two sessions with faults and two live buffers |
| lossless | holds | `NoUnreadLoss`, `UnlockFreesRender` and `ImplementsChannel` for a lossless sink that waits for a connection, flushes, and is stopped during its copy path |
| link | holds | `DeliveredAsPushed`, `DownstreamIntact`, `EndToEnd`, `EosArrives` for a lossless sink and a source, both of which keep running |
| source | holds | types; `UnderItsCaps`, `UnlockEndsCreate`, `FrameArrives` over two starts with flushes, deactivation, malformed and capless frames, EOS and kept buffers |
| sdk | holds | types; `NoSleepOnFrame`, `ReaderAdvances` with failing sends, notifications and waits |
| wire | holds | `ReadsInside`, `PublishedAccepted`, `ViewNeverRefused`, `ContiguousViewable`; `RoundTrip`, `BestEffort` |
| torn_frame | violated | `FrameIntact` with two live buffers |
| unlock_waits | violated | `UnlockFreesAll` |
| self_wait | violated | `LosslessWaitsForConsumer` |
| none_early | violated | `NoneMeansElapsed` |
| short_stride | violated | `AcceptedNeverPast` |

Bounds, named as constants:

* `Sink`: `MaxItems` 3 or 4 (caps, two or three more items: renegotiation between two
  frames, EOS after a frame, a cell's reuse), `Cells` 2 and `BufferSize` and
  `BorrowedMax` 1 (every ring, borrow and pool can be full, and a cell is reused
  after two frames), `MaxLoans` 2 (iceoryx2's default), `MaxSessions` 1, and 2 where
  restarts matter. unlock_waits has three cells, so that a loan never fails for
  want of a cell.
* `Link`: `BorrowedMax` 2, because receive wants a free place while the frame before it
  is still downstream, and `Cells` 3, one more than downstream may keep: a third sample
  can lie in the ring while downstream keeps two, so receive fails and create ends the
  task; one session of each element, without flushes or a stop: these are
  in the runs of each element, and the theorems of `Link` have them for both.
* `Src`: ring and borrows of two, so that a frame waits behind another while one is
  kept; item 2 is malformed and item 4 has no caps; two layouts, which is every
  change there can be; two starts.
* `Sdk`: five items over a ring of two: it overflows while a notification is pending.
* `wire`: `U` 128 and `W` 512, so that a row of four channels just cannot wrap and
  products can (32 * 32 is a multiple of `W`); `Fields` 0, 3 and 32 (zero, odd, one whose
  products wrap) in every field of a header; tails of up to 12 bits, every one of them, which
  holds caps and two metas; byte strings of up to three bits that are no text, text that is
  no caps, and caps. short_stride has one format and few values, to keep its trace small.
* Runs with liveness properties use no symmetry. link, source and sdk end when the
  bounded upstream has nothing left to produce, and wire when both verdicts are
  in, so they do not check for deadlock.

Limits worth knowing:

* `NoMissedWakeup` and `CountersMatchPublished` are about runs without `Faults`.
  A failed notification leaves the frame for the wait's timeout and uncounted
  (sink.rs:595-597); after EOS it is ignored (sink.rs:676). `NoMissedWakeup` also
  needs that stop waits for render: a stop during the copy path leaves a frame
  sent and not notified.
* `FrameIntact`, `DownstreamIntact`, `PoolBufferIsZeroCopy` and the refinement need `MaxLive = 1`, see
  torn_frame.
* `FrameArrives` allows for what the code does deliberately: a frame without caps or a
  failed set_caps ends the stream with NotNegotiated, and a downstream that keeps
  borrowed_max samples makes create fail. `EndToEnd` and `EosArrives` allow for the last
  of these too: they promise delivery until create has returned Error (`Ended`). A third
  frame, or the EOS sentinel behind two kept buffers, does that (source.rs:410-413).
* `ReadsInside` is about the sink's frames, those on a loan that is too small included, and about
  headers whose strides hold a row. For the others see short_stride.
* `ViewNeverRefused` and `ContiguousViewable` are about frames with pixels. A header with height 0
  always passes the checks of header_pixels_to_ndarray_view and is refused by from_shape, and so is
  one with width 0 and a stride of 0 (`ndarray_ext.rs:19-20` names other reasons only).
* A failed loan loses the EOS sentinel, in lossless mode too (sink.rs:667). sink.rs:367-368 calls it
  best-effort, so `PublishEos` has that case and no property forbids it.

### Fairness

* `ProducerFairness`: weak fairness of the sink's streaming thread, of an
  acquire_buffer in progress, of an upstream that has a buffer to fill and of dropping
  buffers. These are threads of one process that only the modelled waits can hold
  up. A failure (`SendFails`, `NotifyFails`) is not something that must happen, so
  it does not count as progress. Nothing is assumed of subscribers and the
  application; `RenderReturns` and `UnlockFreesRender` hold whatever they do.
* `Src!FairSpec`: the streaming thread runs. The end of a wait by its timeout is not among
  its steps. `UnlockEndsCreate` adds as a premise that it ends after 100 ms at the latest
  (`WaitsEnd`): nobody else may end it. `FrameArrives` does not have that premise; its own is that
  the publisher notifies after each send (`PublisherNotifies`), so it shows that notifications are enough.
* `LinkFairSpec`: the sink's `ProducerFairness` and the source's streaming thread, without
  timeouts. Downstream of the source may keep its buffers for ever.
* `Sdk!FairSpec`: a call of publish_frame goes on, owners read in a loop and drop
  their frames, and `block_ms` elapses.

### What the violated runs found

* **torn_frame** (pool.rs:76). Buffer A is sent and still referenced; the consumer
  releases its sample; buffer B loans the same cell, so the registry maps the same
  address to B's loan; dropping A removes it. pool.rs:75 calls that drop a no-op.
  B's cell is now free while upstream writes to it, C may loan it, and what C
  publishes is overwritten.
* **self_wait** (sink.rs:566). A buffer that is not the pool's waits for a loan
  while upstream's pool buffers behind it hold all of them.
* **unlock_waits** (sink.rs:540 and 591, pool.rs:147). `unlock` ends the loop around
  the loan, not the wait inside `send`; and acquire_buffer samples the flag
  every 20 ms, so it does not see a flush that sets and clears it in between.
* **none_early** (transport.rs:252). A frame is sent, then its subscriber opens, then the frame
  is notified. The ring of the new subscriber is empty, the notification is pending, and
  receive_blocking without a limit finds no frame, is woken at once by it, looks again and
  returns None.
* **short_stride** (validate.rs:63). The extent of a plane is taken as stride times rows. An
  I420 frame of 4x4 in 32 bytes, as many as GStreamer's own layout has, whose third plane has stride 0
  and offset 32, is accepted; its rows of two pixels lie behind the payload. VideoMeta checks
  the size of the buffer against the default layout only (gst_video, external), which is why the
  property leaves out shorter buffers.

The second half of unlock_waits takes a failed loan as the code does, as a consumer
that holds all cells. The others do not depend on it.

## 4. Proofs

Each theorem is about the module's specification and every value of the constants its
`ASSUME`s allow: finite sets of subscribers and cells, positive limits, any settings,
any width of the arithmetic.

| Theorem | Statement | Assumes besides |
|---|---|---|
| `TypeCorrect` | `Spec => []TypeOK` (Sink) | |
| `NoLoanLeaks` | `Spec => []NoLeakedLoan` | |
| `HeadersDescribeFrames` | `Spec => []HeaderDescribesFrame` | |
| `ReadersReadInOrder` | `Spec => []RingOrder` | |
| `LosslessKeepsUnread` | `Spec => NoUnreadLoss` | `Lossless` |
| `FramesStayIntact` | `Spec => []FrameIntact` | `MaxLive <= 1` |
| `PoolNeverCopied` | `Spec => []PoolBufferIsZeroCopy` | `MaxLive <= 1` |
| `SinkIsAChannel` | `Spec => ImplementsChannel` | `MaxLive <= 1` |
| `CountersAgree` | `Spec => []CountersMatchPublished` | `~Faults` |
| `NobodySleeps` | `Spec => []NoMissedWakeup` | `~Faults`, `~StopsEarly` |
| `LinkDelivers` | `LinkSpec => []DeliveredAsPushed` (Link) | |
| `DownstreamStaysIntact` | `LinkSpec => []DownstreamIntact` | `MaxLive <= 1` |
| `SrcTypeCorrect`, `FramesUnderTheirCaps` | `[]TypeOK`, `[]UnderItsCaps` (Src) | |
| `SdkTypeCorrect`, `NobodySleepsOnFrames` | `[]TypeOK`, `[]NoSleepOnFrame` (Sdk) | |
| `AcceptedReadsInside`, `ChecksSuffice`, `PublishersAccepted`, `ContiguousFramesViewable` | the four invariants of `Geometry` | |
| `MetasSurvive`, `ParseIsBestEffort` | `AuxSpec => []RoundTrip`, `AuxSpec => []BestEffort` | |

`TypeOK` of `Sink` is inductive. The lemmas of `SinkProofs` say what the operators of
`Shm` and the buffer updates return, one step per action uses them. `TypeOK` of
`Src` and of `Sdk` say more than types (create has a sample in hand exactly while it
delivers, and it is borrowed; a frame is sent only with its loan; whoever is parked is
inside receive_blocking), and are inductive with that.

`NoLeakedLoan` is not inductive: `AllocBuffer` gives the buffer numbered `next` its
slot, and if that buffer named a slot before, the loan registered there would lose its
handle. `LoanInv` adds `Fresh`: buffers numbered `next` and above name no slot.
Then a new loan enters the registry with a handle of its own, and a drop removes
the loan its handle names. A stale drop returns another buffer's loan, but as
a whole: loan and registration go together. That is why this theorem needs no
bound on live buffers, while those about frames do.

`FrameInv` adds to `LoanInv` what keeps frames safe when at most one pool buffer
is alive: no two buffers have a handle, and none has while upstream acquires another
(`OneHandle`); the handle of a buffer still to be rendered names a loan in the registry
(`HandleNamesLoan`); the input holds each buffer once (`InputOrder`); what the
streaming thread holds is its own, and memory on its way to a send has the pixels
of its frame (`RenderHolds`); no loan is readable (`LoansUnread`). Every write
then goes to a loan, which no subscriber can read, and a sample leaves only a loan that
holds its frame. `CopyInv` adds to the claim that the copy path runs in a session.

`HeaderInv` follows the caps through the input. `InForce(q, c, k, d)` says that d
are the caps in force at place k of the input q when the sink has c: those of the last caps
event before k, or c. Each buffer in the input was pushed under the caps in
force at its place, the upstream's own caps are those in force at the end, and
what render has in its hand and what is in flight carries them. Flushes and restarts empty
the input and push the sticky caps again, while render is idle and a stopped element
has no state (`Running`); an upstream without caps has sent none (`NoCapsYet`);
and a pushed buffer keeps its caps (`Buffers`).

`OrderInv` adds order to `HeaderInv`: the items in flight and read, in render, in
the input, in the upstream's hand and still to come are five groups, each with lower
numbers than the next (`InOrder`), the input itself ascends (`Sorted`), no two samples in
flight have the same number (`OneSample`), and each ring ascends from what its
subscriber read last (`RingOrder`, which is the theorem). Nothing in it depends on the
number of live buffers. `Advance` lists the ways in which a step can move
numbers between the groups, and order is shown once for each of these rather than
for each action.

`LosslessKeepsUnread` needs types only: a sample leaves a ring by `receive`, by its
subscriber going away, or by a `send` that overflows, and in a lossless
service only the last of these cannot happen.

`ChannelInv` is `FrameInv` with `OrderInv`. `FrameInv` makes what a reader sees a
function of the sample alone (`ReadersSee`), and each step of `Sink` is a step
of the channel or none: `OfferShows`, `SendShows`, `ConsumerShows` and
`QuietHides` are the four cases.

`LinkDelivers` is about both elements. `LinkInv` joins `OrderInv` with what the source
knows: create has one frame in hand exactly while it delivers it, and that frame is the last
it has read and has the caps it remembers (`FrameInHand`); the calls end with
the element (`SrcCalls`); the pad has these caps when a frame leaves (`PadRemembers`); what
was delivered was pushed under the caps it left under and comes before the frame in
hand (`Log`), in ascending order (`LogRises`). A step of the sink
leaves the source's state alone and cannot take back a push; a step of the source is a step
of one subscriber for the sink, and a received frame is newer than all read before
(`RingOrder`) and has the caps it was pushed under (`FlightCaps`). As neither uses
`FrameInv`, the theorem needs no bound on live buffers: it says which frame arrives,
not that its pixels are intact.

`DownstreamStaysIntact` adds the pixels. The source takes no loan and puts nothing in
flight (`SourceTakes`), so `FrameInv` survives its steps (`LinkFrames`); and what
is borrowed but not in create's hand was delivered (`HeldDelivered`). So a buffer
downstream is a delivered frame in memory that no loan has, and only loans are written to.

`FramesUnderTheirCaps` rests on `SrcInv`: the pad has `last_caps`, unless create is about
to announce them or the element is being deactivated, after which nothing leaves
before a start; the sample in create's hand has `last_caps`; and a stopped
element's pad has none. `NobodySleeps` and
`NobodySleepsOnFrames` rest on the order send before notify: a subscriber parks on an
empty ring, and only a send fills it, which leaves a notification due.

The theorems of `Geometry` are arithmetic: `ProductMonotone`, `RowsFit` and `Layout`
(planes lie one behind the other and each holds the rows the receiver expects) are the
lemmas, and one step per verdict uses them. `AcceptedReadsInside` also needs that
GstVideoInfo's strides hold a row (`StridesHoldRows`), as chroma rows of odd widths are rounded
up and then padded; the two theorems about views that the last element of a view with pixels is
one before the end of its last row (`LastElementOf`).

`AuxInv` says what a state of `AuxBlob` can be: the shapes of its variables; the tail of a
copy is the blob, that of a zero-copy frame is the blob or nothing, and zeros
(`Written`); and what was read is what the two parsers make of the tail (`ParsedTail`),
where the caps of a byte string are `Heard` or none. The work is in the
lemmas about the recursive functions. The library's induction takes an operator as its
parameter, which the provers cannot instantiate. `UpTo` is induction stated with a set:
one that has 0, and with each number its successor, has all of 0..n, which follows
from the least element that well-foundedness gives (`Least`). `Recursion` then shows that a
recursive function exists, and so that `Power`, `Word`, `Entries`, `Horner` and
`Parsed` obey their equations. On these stand: a length is read as it
was written, and whatever is read is the word of a length (`ReadWritten`,
`WordOfRead`); an entry that lies at an offset is parsed, and what is parsed is an entry that
lies there (`EntryParsed`, `EntryMissing`); after k entries the parse of a blob
has the first k metas (`ParsesWritten`), and the parse of any tail has the longest run
of entries that lie there (`Found`, `ParsesAny`).

Each strengthening was checked with TLC, in lossless, faulty and restarting instances
where it applies, before it was proved.

Only model-checked: the liveness properties (`RenderReturns`, `UnlockFreesRender`,
`EndToEnd`, `EosArrives`, `UnlockEndsCreate`, `FrameArrives`, `ReaderAdvances`), because
liveness under fairness is out of the prover's reach. Every invariant and every action
property that a passing run checks is a theorem as well.

## 5. Not modelled, and what could follow

* Quality of service (qos.rs): the values have to agree, and what open_or_create
  does when they do not is iceoryx2's. The models take one agreed set of values.
* The byte layout of the header and the format name: golden tests pin them.
* The Python SDK mirrors the Rust one and golden tests keep them in step; it is not
  modelled a second time.
* Plugin setup (python/gst_iceoryx2/\_\_init\_\_.py): processes that replace the
  link at the same time race with each other; it is outside the video path.
* Registration, caps templates, property boilerplate, benchmarks, tests and packaging keep no
  state of interest. iceoryx2's own algorithms are not in this repository.

Next: the connect and disconnect signals with a watcher; a second subscriber in the
lossless runs on a larger machine.
