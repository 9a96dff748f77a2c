-------------------------------- MODULE Sdk --------------------------------
(***************************************************************************)
(* The Rust SDK of transport.rs: one VideoFramePublisher and, for each     *)
(* member of Subs, a VideoFrameSubscriber whose owner calls receive and    *)
(* receive_blocking and keeps the frames it gets for as long as it wants.  *)
(***************************************************************************)
EXTENDS Shm

CONSTANTS
  Overflow,  \* whether the service was opened with safe overflow
  Faults,    \* whether iceoryx2's send, notify and waits may fail
  Blocking   \* how owners block: "forever" is block_ms None, "timed" some

ASSUME SdkAssumption ==
  Overflow \in BOOLEAN /\ Faults \in BOOLEAN /\ Blocking \subseteq {"forever", "timed"}

VARIABLES
  publish,  \* publish_frame: where it is, its frame and its loan
  call,     \* per subscriber: where receive_blocking is, block_ms, time is up
  result,   \* per subscriber: what the last call returned
  missed    \* history: subscribers whose last notification was lost

vars == <<shmVars, publish, call, result, missed>>

PublishPcs == {"idle", "send", "notify"}
CallPcs    == {"idle", "wait", "again"}
Results    == {"-", "frame", "None", "Err"}

TypeOK ==
  /\ ShmTypeOK
  /\ publish \in [pc : PublishPcs, item : 0..MaxItems, slot : Slots \cup {NoSlot}]
  /\ publish.pc = "send" => publish.slot \in loans /\ publish.item \in Items
  /\ call \in [Subs -> [pc : CallPcs, block : Blocking \cup {"-"}, elapsed : BOOLEAN]]
  /\ parked = {s \in Subs : call[s].pc = "wait"}
  /\ result \in [Subs -> Results]
  /\ missed \subseteq attached

Init ==
  /\ ShmInit
  /\ publish = [pc |-> "idle", item |-> 0, slot |-> NoSlot]
  /\ call = [s \in Subs |-> [pc |-> "idle", block |-> "-", elapsed |-> FALSE]]
  /\ result = [s \in Subs |-> "-"]
  /\ missed = {}

----------------------------------------------------------------------------
\* VideoFramePublisher::publish_frame.

PublishLoan ==
  /\ publish.pc = "idle" /\ publish.item < MaxItems
  /\ \E x \in Free(1) :
       /\ Loan(x)
       /\ publish' = [pc |-> "send", item |-> publish.item + 1, slot |-> x]
  /\ UNCHANGED <<ring, borrowed, attached, event, parked, seen, call, result, missed>>

\* Mutant of PublishLoanFails: the call goes on to send without a loan.
SendUnloaned ==
  /\ publish.pc = "idle" /\ publish.item < MaxItems /\ ~CanLoan(1)
  /\ publish' = [pc |-> "send", item |-> publish.item + 1, slot |-> NoSlot]
  /\ UNCHANGED <<shmVars, call, result, missed>>

\* A frame that gets no loan is reported to the caller and not sent.
PublishLoanFails ==
  /\ publish.pc = "idle" /\ publish.item < MaxItems /\ ~CanLoan(1)
  /\ publish' = [publish EXCEPT !.item = @ + 1]
  /\ UNCHANGED <<shmVars, call, result, missed>>

FrameSample == [slot |-> publish.slot, item |-> publish.item, caps |-> 0, eos |-> FALSE]

PublishSend ==
  /\ publish.pc = "send"
  /\ Send(FrameSample, Overflow)
  /\ publish' = [publish EXCEPT !.pc = "notify"]
  /\ UNCHANGED <<borrowed, attached, event, parked, seen, call, result, missed>>

\* A send that fails consumes the loan.
PublishSendFails ==
  /\ Faults /\ publish.pc = "send"
  /\ loans' = loans \ {publish.slot}
  /\ publish' = [publish EXCEPT !.pc = "idle", !.slot = NoSlot]
  /\ UNCHANGED <<ring, borrowed, attached, event, parked, seen, call, result, missed>>

PublishNotify ==
  /\ publish.pc = "notify"
  /\ \/ Notify /\ missed' = {}
     \/ Faults /\ missed' = attached /\ UNCHANGED event
  /\ publish' = [publish EXCEPT !.pc = "idle", !.slot = NoSlot]
  /\ UNCHANGED <<loans, ring, borrowed, attached, parked, seen, call, result>>

----------------------------------------------------------------------------
\* VideoFrameSubscriber.

\* receive() has a frame, or fails because the owner keeps borrowed_max frames.
Got(s) ==
  \/ Receive(s) /\ result' = [result EXCEPT ![s] = "frame"]
  \/ /\ ring[s] # <<>> /\ Cardinality(borrowed[s]) >= BorrowedMax
     /\ result' = [result EXCEPT ![s] = "Err"]
     /\ UNCHANGED shmVars

Return(s) == call' = [call EXCEPT ![s].pc = "idle", ![s].elapsed = FALSE]

\* receive(), or receive_blocking() that finds a frame at once.
ReceiveNow(s) ==
  /\ s \in attached /\ call[s].pc = "idle"
  /\ Got(s)
  /\ UNCHANGED <<publish, call, missed>>

\* Mutant of Block: receive_blocking waits before it looks.
WaitFirst(s) ==
  /\ s \in attached /\ call[s].pc = "idle"
  /\ parked' = parked \cup {s}
  /\ \E block \in Blocking :
       call' = [call EXCEPT ![s] = [pc |-> "wait", block |-> block, elapsed |-> FALSE]]
  /\ UNCHANGED <<loans, ring, borrowed, attached, event, seen, publish, result, missed>>

\* receive_blocking() that finds none and waits on the listener.
Block(s) ==
  /\ call[s].pc = "idle"
  /\ Park(s)
  /\ \E block \in Blocking :
       call' = [call EXCEPT ![s] = [pc |-> "wait", block |-> block, elapsed |-> FALSE]]
  /\ UNCHANGED <<publish, result, missed>>

Notified(s) ==
  /\ Wake(s)
  /\ call' = [call EXCEPT ![s].pc = "again"]
  /\ UNCHANGED <<publish, result, missed>>

\* Mutant of TimedOut: block_ms is ignored.
IgnoresBlockMs(s) == FALSE

TimedOut(s) ==
  /\ call[s].block = "timed"
  /\ WaitTimeout(s)
  /\ call' = [call EXCEPT ![s].pc = "again", ![s].elapsed = TRUE]
  /\ UNCHANGED <<publish, result, missed>>

\* A wait that fails is reported to the caller, without a second look.
WaitFails(s) ==
  /\ Faults /\ call[s].pc = "wait"
  /\ parked' = parked \ {s}
  /\ Return(s)
  /\ result' = [result EXCEPT ![s] = "Err"]
  /\ UNCHANGED <<loans, ring, borrowed, attached, event, seen, publish, missed>>

\* The second and last receive() of receive_blocking.
AgainGot(s) ==
  /\ call[s].pc = "again"
  /\ Got(s) /\ Return(s)
  /\ UNCHANGED <<publish, missed>>

AgainNone(s) ==
  /\ call[s].pc = "again" /\ ring[s] = <<>>
  /\ Return(s)
  /\ result' = [result EXCEPT ![s] = "None"]
  /\ UNCHANGED <<shmVars, publish, missed>>

Open(s)  == Attach(s) /\ UNCHANGED <<publish, call, result, missed>>
Close(s) ==
  /\ call[s].pc = "idle" /\ Detach(s)
  /\ missed' = missed \ {s}
  /\ UNCHANGED <<publish, call, result>>

DropFrame(s) ==
  /\ \E sm \in borrowed[s] : Release(s, sm)
  /\ UNCHANGED <<publish, call, result, missed>>

----------------------------------------------------------------------------
Publisher ==
  PublishLoan \/ PublishLoanFails \/ PublishSend \/ PublishSendFails \/ PublishNotify

\* A subscriber whose owner calls receive_blocking again and again.
Reading(s) ==
  ReceiveNow(s) \/ Block(s) \/ Notified(s) \/ AgainGot(s) \/ AgainNone(s)

Subscriber(s) ==
  Reading(s) \/ TimedOut(s) \/ WaitFails(s) \/ Open(s) \/ Close(s) \/ DropFrame(s)

Next == Publisher \/ \E s \in Subs : Subscriber(s)

Spec == Init /\ [][Next]_vars

\* The publisher completes its call, owners read on and drop their frames, and
\* the clock runs for those that gave a block_ms.
FairSpec ==
  /\ Spec
  /\ WF_vars(PublishSend) /\ WF_vars(PublishNotify)
  /\ \A s \in Subs : WF_vars(Reading(s)) /\ WF_vars(DropFrame(s)) /\ WF_vars(TimedOut(s))

----------------------------------------------------------------------------
\* A subscriber that waits with frames in its ring has been notified or is
\* about to be, although one notification may stand for many frames; only one
\* whose notification was lost may not (transport.rs:198-201, 206-208).
NoSleepOnFrame ==
  \A s \in parked : ring[s] # <<>> => s \in event \/ s \in missed \/ publish.pc = "notify"

\* An owner that reads in a loop gets each frame or a later one, by its timeout
\* when a notification was lost; without a timeout and a notification it waits
\* on (transport.rs:245-246).
ReaderAdvances ==
  \A i \in Items, s \in Subs :
    (\E sm \in Queued(s) : sm.item = i) ~>
      \/ seen[s] >= i \/ s \notin attached
      \/ s \in missed /\ call[s].block = "forever"

\* receive_blocking "Returns `None` when `block_ms` elapses with no frame;
\* blocks indefinitely when `block_ms` is `None`" (transport.rs:245-246).
NoneMeansElapsed ==
  [][\A s \in Subs :
       result[s] # "None" /\ result'[s] = "None" =>
         call[s].block = "timed" /\ call[s].elapsed]_vars
=============================================================================
