---------------------------- MODULE SinkChannel ----------------------------
(***************************************************************************)
(* The sink and its pool implement FrameChannel: the frame that a reader   *)
(* finds in the shared memory behind a sample, now or later, is the frame  *)
(* the upstream pushed.                                                    *)
(***************************************************************************)
EXTENDS Sink

\* What a reader sees of a sample: its header, and pixels from shared memory.
Seen(sm) == [item |-> sm.item, caps |-> sm.caps, eos |-> sm.eos,
             pixels |-> IF sm.eos THEN 0 ELSE pixels[sm.slot]]

\* A buffer pushed with caps, as its producer filled it.
Given(i) == [item |-> i, caps |-> buf[i].caps, eos |-> FALSE, pixels |-> i]

Offered == {Given(i) : i \in {j \in Items : buf[j].caps # 0}}
Queue   == [s \in Subs |-> [k \in 1..Len(ring[s]) |-> Seen(ring[s][k])]]
Held    == [s \in Subs |-> {Seen(sm) : sm \in borrowed[s]}]

Channel == INSTANCE FrameChannel WITH
  Readers <- Subs,
  Numbers <- Items,
  Caps    <- Items,
  Depth   <- BufferSize,
  Lossy   <- SafeOverflow /\ ~Lossless,
  offered <- Offered,
  joined  <- attached,
  queue   <- Queue,
  held    <- Held,
  got     <- seen

\* Shared memory, address reuse, renegotiation, flushes and restarts do not
\* show: readers get, in order, the frames that were pushed, each with its own
\* caps and unchanged until it is given back (pool.rs:4-13, sink.rs:477-599).
ImplementsChannel == Channel!Spec
=============================================================================
