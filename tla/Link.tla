-------------------------------- MODULE Link --------------------------------
(***************************************************************************)
(* A pipeline that ends in iceoryx2sink and one that begins with           *)
(* iceoryx2src, over the same services: the modules Sink and Src composed. *)
(* The subscriber of Sink is the element of Src, and its publisher is the  *)
(* Environment of Src.                                                     *)
(***************************************************************************)
EXTENDS Sink

CONSTANTS
  Me,         \* the source among the subscribers
  MaxStarts,  \* bound: how often the source is started
  SrcLeaves   \* whether the source's application flushes and stops it

ASSUME LinkAssumption == Subs = {Me} /\ MaxStarts \in Nat /\ SrcLeaves \in BOOLEAN

VARIABLES
  last_caps, srcUnlocked, frames_received, create, srcFlow, task, srcCtl, starts,
  pad, delivered

sinkVars == <<elementVars, streamVars, session, ctl, input, upVars, buf, histVars>>
srcVars  == <<last_caps, srcUnlocked, frames_received, create, srcFlow, task, srcCtl,
              starts, pad, delivered>>
linkVars == <<vars, srcVars>>

Source == INSTANCE Src WITH
  Malformed <- {},
  Capless   <- {},
  Overflow  <- RingOverflow,
  unlocked  <- srcUnlocked,
  flow      <- srcFlow,
  ctl       <- srcCtl,
  pub       <- [next |-> 1, notify |-> FALSE]

LinkInit == Init /\ Source!Init

\* The element, its pipeline and its application.
SinkStep ==
  /\ Application \/ Streaming \/ Upstream \/ Drop
  /\ UNCHANGED srcVars

SrcApplication == Source!Start \/ (SrcLeaves /\ Source!Application)

SrcStep ==
  /\ SrcApplication \/ Source!Streaming \/ Source!TimedOut \/ Source!FreeBuffer
  /\ UNCHANGED sinkVars

LinkNext == SinkStep \/ SrcStep

LinkSpec == LinkInit /\ [][LinkNext]_linkVars

\* The threads of both pipelines run.  Timeouts and applications are not needed,
\* and downstream of the source may keep its buffers for ever.
LinkFairSpec ==
  /\ LinkSpec
  /\ WF_linkVars(Streaming /\ UNCHANGED srcVars)
  /\ WF_linkVars((AllocBuffer \/ AllocFails) /\ UNCHANGED srcVars)
  /\ WF_linkVars((\E i \in Items : FillAndPush(i)) /\ UNCHANGED srcVars)
  /\ WF_linkVars(Drop /\ UNCHANGED srcVars)
  /\ WF_linkVars(Source!Streaming /\ UNCHANGED sinkVars)

----------------------------------------------------------------------------
\* What leaves the source is what entered the sink: in order, each frame once,
\* and under the caps it was pushed with (sink.rs:492-497, source.rs:381-398).
DeliveredAsPushed ==
  \A k \in 1..Len(delivered) :
    /\ delivered[k].under = buf[delivered[k].item].caps
    /\ k > 1 => delivered[k - 1].item < delivered[k].item

Delivered(i) == \E k \in 1..Len(delivered) : delivered[k].item = i

\* A buffer that downstream has not dropped was delivered to it and still shows the
\* frame that was pushed to the sink: its memory is neither reused nor written to,
\* whatever either element does meanwhile (pool.rs:4-7, source.rs:53-55).
DownstreamIntact ==
  \A sm \in borrowed[Me] \ create.sample : Delivered(sm.item) /\ pixels[sm.slot] = sm.item

\* Neither application has intervened.
Running == ctl = "run" /\ srcCtl = "run"

\* create has returned EOS, or has failed to receive because downstream keeps
\* borrowed_max buffers: GstBaseSrc has paused its task.
Ended == srcFlow \in {"Eos", "Error"}

\* A lossless link loses nothing: a frame pushed with caps comes out of the
\* source, unless the source's stream has ended, as it does when the downstream
\* keeps as many buffers as it may (SPEC.md:175, source.rs:403-415, sink.rs:561-580).
EndToEnd ==
  \A i \in Items :
    (buf[i].st = "queued" /\ buf[i].caps # 0 /\ Running)
      ~> (Delivered(i) \/ ~Running \/ Ended)

\* The sentinel on the ring of a running source ends its stream, as EOS unless
\* receive fails in front of it (sink.rs:656-679, source.rs:347-352, 410-413).
EosArrives ==
  (Running /\ \E sm \in Queued(Me) : sm.eos) ~> (Ended \/ ~Running)
=============================================================================
