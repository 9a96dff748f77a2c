----------------------------- MODULE SdkProofs -----------------------------
(***************************************************************************)
(* The invariants of Sdk for every number of subscribers, cells, loans and *)
(* frames, with and without failing sends, notifies and waits.             *)
(***************************************************************************)
EXTENDS Sdk, ShmProofs

\* The inductive invariant: only an attached subscriber waits on its listener.
SdkInv == TypeOK /\ parked \subseteq attached /\ NoSleepOnFrame

LEMMA SdkInit == Init => SdkInv
  BY Bounds DEF Init, ShmInit, SdkInv, TypeOK, ShmTypeOK, NoSleepOnFrame, PublishPcs,
                CallPcs, Results, Items, Slots

----------------------------------------------------------------------------
\* The publisher.

LEMMA PublisherInv == SdkInv /\ Publisher => SdkInv'
<1> SUFFICES ASSUME SdkInv, Publisher PROVE SdkInv'
  OBVIOUS
<1> USE DEF PublishPcs, CallPcs, Results
<1>1. CASE PublishLoan
  <2>1. PICK x \in Free(1) :
          /\ Loan(x)
          /\ publish' = [pc |-> "send", item |-> publish.item + 1, slot |-> x]
    BY <1>1 DEF PublishLoan
  <2>2. x \in Slots /\ loans' = loans \cup {x} /\ publish.item + 1 \in Items
    BY <1>1, <2>1, Bounds DEF PublishLoan, Loan, Free, SdkInv, TypeOK, Items
  <2>3. publish' \in [pc : PublishPcs, item : 0..MaxItems, slot : Slots \cup {NoSlot}]
    BY <2>1, <2>2 DEF Items
  <2>4. UNCHANGED <<ring, borrowed, attached, event, parked, seen, call, result, missed>>
    BY <1>1 DEF PublishLoan
  <2>5. TypeOK'
    BY <2>1, <2>2, <2>3, <2>4 DEF SdkInv, TypeOK, ShmTypeOK
  <2> QED BY <1>1, <2>4, <2>5 DEF PublishLoan, SdkInv, NoSleepOnFrame
<1>2. CASE PublishLoanFails
  <2>1. publish' = [pc |-> "idle", item |-> publish.item + 1, slot |-> publish.slot]
    BY <1>2 DEF PublishLoanFails, SdkInv, TypeOK
  <2>2. publish.item + 1 \in 0..MaxItems
    BY <1>2, Bounds DEF PublishLoanFails, SdkInv, TypeOK
  <2>3. UNCHANGED <<shmVars, call, result, missed>>
    BY <1>2 DEF PublishLoanFails
  <2>4. TypeOK'
    BY <2>1, <2>2, <2>3 DEF SdkInv, TypeOK, ShmTypeOK, shmVars
  <2> QED BY <1>2, <2>3, <2>4 DEF PublishLoanFails, SdkInv, NoSleepOnFrame, shmVars
<1>3. CASE PublishSend
  <2>1. FrameSample \in Sample
    BY <1>3, Bounds DEF PublishSend, SdkInv, TypeOK, ShmTypeOK, FrameSample, Sample
  <2>2. loans' \subseteq Slots /\ ring' \in [Subs -> Seq(Sample)]
    BY <1>3, <2>1, SendType, SdkAssumption DEF SdkAssumption, PublishSend, SdkInv, TypeOK
  <2>3. publish' = [pc |-> "notify", item |-> publish.item, slot |-> publish.slot]
    BY <1>3 DEF PublishSend, SdkInv, TypeOK
  <2>4. UNCHANGED <<borrowed, attached, event, parked, seen, call, result, missed>>
    BY <1>3 DEF PublishSend
  <2>5. TypeOK'
    BY <2>2, <2>3, <2>4 DEF SdkInv, TypeOK, ShmTypeOK
  <2> QED BY <2>3, <2>4, <2>5 DEF SdkInv, NoSleepOnFrame
<1>4. CASE PublishSendFails
  <2>1. publish' = [pc |-> "idle", item |-> publish.item, slot |-> NoSlot]
    BY <1>4 DEF PublishSendFails, SdkInv, TypeOK
  <2>2. loans' \subseteq loans
        /\ UNCHANGED <<ring, borrowed, attached, event, parked, seen, call, result, missed>>
    BY <1>4 DEF PublishSendFails
  <2>3. TypeOK'
    BY <2>1, <2>2 DEF SdkInv, TypeOK, ShmTypeOK
  <2> QED BY <1>4, <2>2, <2>3 DEF PublishSendFails, SdkInv, NoSleepOnFrame
<1>5. CASE PublishNotify
  <2>1. publish' = [pc |-> "idle", item |-> publish.item, slot |-> NoSlot]
    BY <1>5 DEF PublishNotify, SdkInv, TypeOK
  <2>2. UNCHANGED <<loans, ring, borrowed, attached, parked, seen, call, result>>
    BY <1>5 DEF PublishNotify
  <2>3. \/ event' = event \cup attached /\ missed' = {}
        \/ event' = event /\ missed' = attached
    BY <1>5 DEF PublishNotify, Notify
  <2>4. TypeOK'
    BY <2>1, <2>2, <2>3 DEF SdkInv, TypeOK, ShmTypeOK
  <2>5. NoSleepOnFrame'
    BY <2>2, <2>3 DEF SdkInv, NoSleepOnFrame
  <2> QED BY <2>2, <2>4, <2>5 DEF SdkInv
<1> QED BY <1>1, <1>2, <1>3, <1>4, <1>5 DEF Publisher

----------------------------------------------------------------------------
\* A subscriber.

\* A port's step lets no attached subscriber fall asleep on a frame, and
\* notifications are lost only by those that wake up or leave.
LEMMA PortSleep ==
  ASSUME NEW s \in Subs, SdkInv, PortStep(s), UNCHANGED publish,
         missed' = missed \/ (Detach(s) /\ missed' = missed \ {s})
  PROVE  parked' \subseteq attached' /\ NoSleepOnFrame'
<1> USE DEF SdkInv, TypeOK, ShmTypeOK
<1>1. CASE Attach(s)
  BY <1>1 DEF Attach, Detach, NoSleepOnFrame
<1>2. CASE Detach(s)
  BY <1>2 DEF Detach, NoSleepOnFrame
<1>3. CASE Receive(s)
  BY <1>3 DEF Receive, Detach, NoSleepOnFrame
<1>4. CASE \E sm \in borrowed[s] : Release(s, sm)
  BY <1>4 DEF Release, Detach, NoSleepOnFrame
<1>5. CASE Park(s)
  BY <1>5 DEF Park, Detach, NoSleepOnFrame
<1>6. CASE Wake(s)
  BY <1>6 DEF Wake, Detach, NoSleepOnFrame
<1>7. CASE WaitTimeout(s)
  BY <1>7 DEF WaitTimeout, Detach, NoSleepOnFrame
<1> QED BY <1>1, <1>2, <1>3, <1>4, <1>5, <1>6, <1>7 DEF PortStep

LEMMA SubscriberInv ==
  ASSUME NEW s \in Subs, SdkInv, Subscriber(s)
  PROVE  SdkInv'
<1> USE DEF CallPcs, Results
<1>t. ShmTypeOK /\ call \in [Subs -> [pc : CallPcs, block : Blocking \cup {"-"}, elapsed : BOOLEAN]]
  BY DEF SdkInv, TypeOK
<1>g. ASSUME Got(s)
      PROVE  /\ PortStep(s) \/ UNCHANGED shmVars
             /\ parked' = parked /\ attached' = attached /\ loans' = loans
             /\ result' \in [Subs -> Results]
  <2>1. result' \in [Subs -> Results]
    BY <1>g DEF Got, SdkInv, TypeOK
  <2> QED BY <1>g, <2>1 DEF Got, PortStep, Receive, shmVars
\* What one subscriber's call becomes, and who waits then.
<1> DEFINE Becomes(pc) ==
             /\ call' \in [Subs -> [pc : CallPcs, block : Blocking \cup {"-"}, elapsed : BOOLEAN]]
             /\ call'[s].pc = pc
             /\ \A t \in Subs \ {s} : call'[t] = call[t]
<1>w. ASSUME NEW pc, Becomes(pc), parked' = IF pc = "wait" THEN parked \cup {s} ELSE parked \ {s}
      PROVE  /\ call' \in [Subs -> [pc : CallPcs, block : Blocking \cup {"-"}, elapsed : BOOLEAN]]
             /\ parked' = {t \in Subs : call'[t].pc = "wait"}
  BY <1>t, <1>w DEF SdkInv, TypeOK
<1>p. ASSUME PortStep(s) \/ UNCHANGED shmVars, loans' = loans, publish' = publish,
             missed' = missed \/ (Detach(s) /\ missed' = missed \ {s}),
             call' \in [Subs -> [pc : CallPcs, block : Blocking \cup {"-"}, elapsed : BOOLEAN]],
             parked' = {t \in Subs : call'[t].pc = "wait"},
             result' \in [Subs -> Results],
             missed' \subseteq attached'
      PROVE  SdkInv'
  <2>1. ShmTypeOK'
    BY <1>p, PortType DEF SdkInv, TypeOK, ShmTypeOK, shmVars
  <2>2. TypeOK'
    BY <1>p, <2>1 DEF SdkInv, TypeOK
  <2>3. parked' \subseteq attached' /\ NoSleepOnFrame'
    <3>1. CASE PortStep(s)
      BY <1>p, <3>1, PortSleep
    <3>2. CASE UNCHANGED shmVars
      BY <1>p, <3>2 DEF SdkInv, NoSleepOnFrame, shmVars, Detach
    <3> QED BY <1>p, <3>1, <3>2
  <2> QED BY <2>2, <2>3 DEF SdkInv
<1>1. CASE ReceiveNow(s)
  BY <1>1, <1>g, <1>p DEF ReceiveNow, SdkInv, TypeOK
<1>2. CASE Block(s)
  <2>1. PICK block \in Blocking :
          call' = [call EXCEPT ![s] = [pc |-> "wait", block |-> block, elapsed |-> FALSE]]
    BY <1>2 DEF Block
  <2>2. Becomes("wait")
    BY <2>1, <1>t
  <2>3. Park(s) /\ UNCHANGED <<publish, result, missed>>
    BY <1>2 DEF Block
  <2>4. parked' = parked \cup {s} /\ loans' = loans /\ attached' = attached
    BY <2>3 DEF Park
  <2> HIDE DEF Becomes
  <2>5. /\ call' \in [Subs -> [pc : CallPcs, block : Blocking \cup {"-"}, elapsed : BOOLEAN]]
        /\ parked' = {t \in Subs : call'[t].pc = "wait"}
    BY <1>w, <2>2, <2>4
  <2> QED BY <1>p, <2>3, <2>4, <2>5 DEF PortStep, SdkInv, TypeOK
<1>3. CASE Notified(s)
  <2>1. Becomes("again")
    BY <1>3, <1>t DEF Notified
  <2>2. Wake(s) /\ UNCHANGED <<publish, result, missed>>
    BY <1>3 DEF Notified
  <2>3. parked' = parked \ {s} /\ loans' = loans /\ attached' = attached
    BY <2>2 DEF Wake
  <2> HIDE DEF Becomes
  <2>4. /\ call' \in [Subs -> [pc : CallPcs, block : Blocking \cup {"-"}, elapsed : BOOLEAN]]
        /\ parked' = {t \in Subs : call'[t].pc = "wait"}
    BY <1>w, <2>1, <2>3
  <2> QED BY <1>p, <2>2, <2>3, <2>4 DEF PortStep, SdkInv, TypeOK
<1>4. CASE TimedOut(s)
  <2>1. Becomes("again")
    BY <1>4, <1>t DEF TimedOut
  <2>2. WaitTimeout(s) /\ UNCHANGED <<publish, result, missed>>
    BY <1>4 DEF TimedOut
  <2>3. parked' = parked \ {s} /\ loans' = loans /\ attached' = attached
    BY <2>2 DEF WaitTimeout
  <2> HIDE DEF Becomes
  <2>4. /\ call' \in [Subs -> [pc : CallPcs, block : Blocking \cup {"-"}, elapsed : BOOLEAN]]
        /\ parked' = {t \in Subs : call'[t].pc = "wait"}
    BY <1>w, <2>1, <2>3
  <2> QED BY <1>p, <2>2, <2>3, <2>4 DEF PortStep, SdkInv, TypeOK
<1>5. ASSUME call[s].pc = "again", Return(s), parked' = parked
      PROVE  /\ call' \in [Subs -> [pc : CallPcs, block : Blocking \cup {"-"}, elapsed : BOOLEAN]]
             /\ parked' = {t \in Subs : call'[t].pc = "wait"}
  <2>1. Becomes("idle")
    BY <1>5, <1>t DEF Return
  <2>2. parked' = parked \ {s}
    BY <1>5 DEF SdkInv, TypeOK
  <2> HIDE DEF Becomes
  <2> QED BY <1>w, <2>1, <2>2
<1>6. CASE AgainGot(s)
  BY <1>5, <1>6, <1>g, <1>p DEF AgainGot, SdkInv, TypeOK
<1>7. CASE AgainNone(s)
  <2>1. UNCHANGED shmVars /\ UNCHANGED <<publish, missed>> /\ result' \in [Subs -> Results]
    BY <1>7 DEF AgainNone, SdkInv, TypeOK
  <2> QED BY <1>5, <1>7, <1>p, <2>1 DEF AgainNone, SdkInv, TypeOK, shmVars
<1>8. CASE Open(s)
  <2>1. Attach(s) /\ UNCHANGED <<publish, call, result, missed>>
    BY <1>8 DEF Open
  <2> QED BY <1>p, <2>1 DEF Attach, PortStep, SdkInv, TypeOK
<1>9. CASE Close(s)
  <2>1. /\ call[s].pc = "idle" /\ Detach(s) /\ missed' = missed \ {s}
        /\ UNCHANGED <<publish, call, result>>
    BY <1>9 DEF Close
  <2>2. parked' = {t \in Subs : call'[t].pc = "wait"} /\ missed' \subseteq attached'
    BY <2>1 DEF Detach, SdkInv, TypeOK
  <2> QED BY <1>p, <2>1, <2>2 DEF Detach, PortStep, SdkInv, TypeOK
<1>10. CASE DropFrame(s)
  BY <1>10, <1>p DEF DropFrame, Release, PortStep, SdkInv, TypeOK
\* To the ports, a wait that fails is one that timed out.
<1>11. CASE WaitFails(s)
  <2>1. Becomes("idle")
    BY <1>11, <1>t DEF WaitFails, Return
  <2>2. s \in parked /\ parked' = parked \ {s}
        /\ UNCHANGED <<loans, ring, borrowed, attached, event, seen, publish, missed>>
    BY <1>11 DEF WaitFails, SdkInv, TypeOK
  <2>3. WaitTimeout(s)
    BY <2>2 DEF WaitTimeout
  <2>4. result' \in [Subs -> Results]
    BY <1>11 DEF WaitFails, SdkInv, TypeOK
  <2> HIDE DEF Becomes
  <2>5. /\ call' \in [Subs -> [pc : CallPcs, block : Blocking \cup {"-"}, elapsed : BOOLEAN]]
        /\ parked' = {t \in Subs : call'[t].pc = "wait"}
    BY <1>w, <2>1, <2>2
  <2> QED BY <1>p, <2>2, <2>3, <2>4, <2>5 DEF PortStep, SdkInv, TypeOK
<1> QED BY <1>1, <1>2, <1>3, <1>4, <1>6, <1>7, <1>8, <1>9, <1>10, <1>11 DEF Subscriber, Reading

----------------------------------------------------------------------------
LEMMA SdkStep == SdkInv /\ [Next]_vars => SdkInv'
<1> SUFFICES ASSUME SdkInv, [Next]_vars PROVE SdkInv'
  OBVIOUS
<1>1. CASE Publisher
  BY <1>1, PublisherInv
<1>2. CASE \E s \in Subs : Subscriber(s)
  BY <1>2, SubscriberInv
<1>3. CASE UNCHANGED vars
  BY <1>3 DEF SdkInv, TypeOK, ShmTypeOK, NoSleepOnFrame, vars, shmVars
<1> QED BY <1>1, <1>2, <1>3 DEF Next

LEMMA SdkInvariant == Spec => []SdkInv
  BY SdkInit, SdkStep, PTL DEF Spec

\* The publisher and its subscribers keep their types for every value of the
\* constants: the publisher never sends a frame it holds no loan for, and who
\* waits on a listener is inside receive_blocking.
THEOREM SdkTypeCorrect == Spec => []TypeOK
<1>1. SdkInv => TypeOK
  BY DEF SdkInv
<1> QED BY <1>1, SdkInvariant, PTL

\* No subscriber sleeps on a frame of which it was notified, for any number of
\* subscribers and frames and any failure of sends, notifies and waits.
THEOREM NobodySleepsOnFrames == Spec => []NoSleepOnFrame
<1>1. SdkInv => NoSleepOnFrame
  BY DEF SdkInv
<1> QED BY <1>1, SdkInvariant, PTL
=============================================================================
