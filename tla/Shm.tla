-------------------------------- MODULE Shm --------------------------------
(***************************************************************************)
(* The iceoryx2 publish/subscribe and event services of one video channel, *)
(* as the code under src/ uses them.  Nothing here is implemented in the   *)
(* repository, so every operator is an assumption about iceoryx2:          *)
(*                                                                         *)
(*   - a publisher owns a data segment of cells.  A loan takes a free cell *)
(*     and fails when there is none or when MaxLoans are outstanding;      *)
(*   - send turns a loan into a sample in the ring of every attached       *)
(*     subscriber.  On a full ring it drops the oldest sample when the     *)
(*     service was opened with safe overflow, and waits when it was not;   *)
(*   - a subscriber takes samples in order, at most BorrowedMax at a time, *)
(*     and a cell is free again when no ring and no subscriber holds it;   *)
(*   - a notification leaves one pending event with every listener.        *)
(*                                                                         *)
(* A slot is a cell of the publisher of one session (start .. stop of the  *)
(* sink element): its identity is the address that the code keys on.       *)
(***************************************************************************)
EXTENDS Integers, Sequences, FiniteSets

CONSTANTS
  Subs,         \* subscribers: iceoryx2src elements and SDK consumers
  Cells,        \* cells in a publisher's data segment
  MaxLoans,     \* loans a publisher may have outstanding
  BufferSize,   \* qos.buffer_size, the ring depth
  BorrowedMax,  \* qos.borrowed_max
  MaxSessions,  \* bound: how often the sink element is started
  MaxItems      \* bound: buffers and events the upstream produces

ASSUME ShmAssumption ==
  /\ IsFiniteSet(Subs) /\ IsFiniteSet(Cells)
  /\ MaxLoans \in Nat \ {0} /\ BufferSize \in Nat \ {0} /\ BorrowedMax \in Nat \ {0}
  /\ MaxSessions \in Nat /\ MaxItems \in Nat

Sessions == 1..MaxSessions
Items    == 1..MaxItems
Slots    == Sessions \X Cells
NoSlot   == <<0, 0>>

\* A published sample: its slot and the part of its header properties speak
\* of.  The pixels are not here: they stay in the slot.
Sample == [slot : Slots, item : Items, caps : 0..MaxItems, eos : BOOLEAN]

VARIABLES
  loans,     \* slots loaned and not yet sent or returned
  ring,      \* per subscriber: samples sent and not yet received
  borrowed,  \* per subscriber: samples received and not yet released
  attached,  \* subscribers connected to the service
  event,     \* subscribers whose listener has a notification pending
  parked,    \* subscribers that found the ring empty and wait for one
  seen       \* per subscriber: the last item received (history)

shmVars == <<loans, ring, borrowed, attached, event, parked, seen>>

ShmInit ==
  /\ loans = {}
  /\ ring = [s \in Subs |-> <<>>]
  /\ borrowed = [s \in Subs |-> {}]
  /\ attached = {}
  /\ event = {}
  /\ parked = {}
  /\ seen = [s \in Subs |-> 0]

ShmTypeOK ==
  /\ loans \subseteq Slots
  /\ ring \in [Subs -> Seq(Sample)]
  /\ borrowed \in [Subs -> SUBSET Sample]
  /\ attached \subseteq Subs
  /\ event \subseteq Subs
  /\ parked \subseteq Subs
  /\ seen \in [Subs -> 0..MaxItems]

----------------------------------------------------------------------------
\* The publisher's side.

Queued(s)   == {ring[s][i] : i \in 1..Len(ring[s])}
InFlight    == UNION {Queued(s) \cup borrowed[s] : s \in Subs}
InFlightSlots == {sm.slot : sm \in InFlight}

LoansOf(p)  == {x \in loans : x[1] = p}
Free(p)     == {x \in Slots : x[1] = p /\ x \notin loans \cup InFlightSlots}
CanLoan(p)  == Cardinality(LoansOf(p)) < MaxLoans /\ Free(p) # {}

RingFull(s) == Len(ring[s]) >= BufferSize

\* publisher.loan_slice_uninit succeeding with the slot x.
Loan(x) ==
  /\ CanLoan(x[1])
  /\ x \in Free(x[1])
  /\ loans' = loans \cup {x}

\* sample.send(): the wait on a full ring without overflow is the guard.
Send(sm, overflow) ==
  /\ overflow \/ \A s \in attached : ~RingFull(s)
  /\ loans' = loans \ {sm.slot}
  /\ ring' = [s \in Subs |->
                IF s \notin attached THEN ring[s]
                ELSE IF RingFull(s) THEN Append(Tail(ring[s]), sm)
                ELSE Append(ring[s], sm)]

\* notifier.notify().
Notify == event' = event \cup attached

----------------------------------------------------------------------------
\* A subscriber that receives until its ring is empty and then waits for a
\* notification or for the timeout of its wait.

Attach(s) ==
  /\ s \notin attached
  /\ attached' = attached \cup {s}
  /\ UNCHANGED <<loans, ring, borrowed, event, parked, seen>>

\* The ports are dropped, and with them everything they hold.
Detach(s) ==
  /\ s \in attached
  /\ attached' = attached \ {s}
  /\ ring' = [ring EXCEPT ![s] = <<>>]
  /\ borrowed' = [borrowed EXCEPT ![s] = {}]
  /\ event' = event \ {s}
  /\ parked' = parked \ {s}
  /\ UNCHANGED <<loans, seen>>

Receive(s) ==
  /\ s \in attached \ parked
  /\ ring[s] # <<>>
  /\ Cardinality(borrowed[s]) < BorrowedMax
  /\ ring' = [ring EXCEPT ![s] = Tail(@)]
  /\ borrowed' = [borrowed EXCEPT ![s] = @ \cup {Head(ring[s])}]
  /\ seen' = [seen EXCEPT ![s] = Head(ring[s]).item]
  /\ UNCHANGED <<loans, attached, event, parked>>

Release(s, sm) ==
  /\ sm \in borrowed[s]
  /\ borrowed' = [borrowed EXCEPT ![s] = @ \ {sm}]
  /\ UNCHANGED <<loans, ring, attached, event, parked, seen>>

Park(s) ==
  /\ s \in attached \ parked
  /\ ring[s] = <<>>
  /\ parked' = parked \cup {s}
  /\ UNCHANGED <<loans, ring, borrowed, attached, event, seen>>

Wake(s) ==
  /\ s \in parked \cap event
  /\ parked' = parked \ {s}
  /\ event' = event \ {s}
  /\ UNCHANGED <<loans, ring, borrowed, attached, seen>>

WaitTimeout(s) ==
  /\ s \in parked
  /\ parked' = parked \ {s}
  /\ UNCHANGED <<loans, ring, borrowed, attached, event, seen>>
=============================================================================
