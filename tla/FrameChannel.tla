---------------------------- MODULE FrameChannel ----------------------------
(***************************************************************************)
(* What a video channel promises, without shared memory: frames are values *)
(* that the producer offers, publishes in order and can no longer change,  *)
(* and that each reader gets from a queue of its own.  A lossy channel     *)
(* drops the oldest frame of a full queue, a lossless one drops none.      *)
(***************************************************************************)
EXTENDS Integers, Sequences

CONSTANTS
  Readers,
  Numbers,  \* what identifies a frame and orders frames; its pixels are its number
  Caps,     \* layouts of frames
  Depth,    \* frames a queue holds
  Lossy

VARIABLES
  offered,  \* frames the upstream has pushed
  joined,   \* readers of the channel
  queue,    \* per reader: frames published and not yet taken
  held,     \* per reader: frames taken and not yet given back
  got       \* per reader: the number of the last frame taken

vars == <<offered, joined, queue, held, got>>

Frame(i, c) == [item |-> i, caps |-> c, pixels |-> i, eos |-> FALSE]
End(i)      == [item |-> i, caps |-> 0, pixels |-> 0, eos |-> TRUE]

Waiting(r) == {queue[r][k] : k \in 1..Len(queue[r])}

Init ==
  /\ offered = {} /\ joined = {}
  /\ queue = [r \in Readers |-> <<>>]
  /\ held = [r \in Readers |-> {}]
  /\ got = [r \in Readers |-> 0]

Offer(i, c) ==
  /\ offered' = offered \cup {Frame(i, c)}
  /\ UNCHANGED <<joined, queue, held, got>>

\* What is published comes behind all that was published before.
Publish(f) ==
  /\ \A r \in joined :
       /\ f.item > got[r] /\ \A e \in Waiting(r) : f.item > e.item
       /\ Len(queue[r]) < Depth \/ Lossy
  /\ queue' = [r \in Readers |->
                 IF r \notin joined THEN queue[r]
                 ELSE IF Len(queue[r]) < Depth THEN Append(queue[r], f)
                 ELSE Append(Tail(queue[r]), f)]
  /\ UNCHANGED <<offered, joined, held, got>>

Join(r) ==
  /\ r \notin joined
  /\ joined' = joined \cup {r}
  /\ UNCHANGED <<offered, queue, held, got>>

Leave(r) ==
  /\ r \in joined
  /\ joined' = joined \ {r}
  /\ queue' = [queue EXCEPT ![r] = <<>>]
  /\ held' = [held EXCEPT ![r] = {}]
  /\ UNCHANGED <<offered, got>>

Take(r) ==
  /\ r \in joined /\ queue[r] # <<>>
  /\ queue' = [queue EXCEPT ![r] = Tail(@)]
  /\ held' = [held EXCEPT ![r] = @ \cup {Head(queue[r])}]
  /\ got' = [got EXCEPT ![r] = Head(queue[r]).item]
  /\ UNCHANGED <<offered, joined>>

GiveBack(r, f) ==
  /\ f \in held[r]
  /\ held' = [held EXCEPT ![r] = @ \ {f}]
  /\ UNCHANGED <<offered, joined, queue, got>>

Next ==
  \/ \E i \in Numbers, c \in Caps : Offer(i, c)
  \/ \E f \in offered : Publish(f)
  \/ \E i \in Numbers : Publish(End(i))
  \/ \E r \in Readers :
       Join(r) \/ Leave(r) \/ Take(r) \/ (\E f \in held[r] : GiveBack(r, f))

Spec == Init /\ [][Next]_vars
=============================================================================
