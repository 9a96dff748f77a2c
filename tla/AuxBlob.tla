------------------------------ MODULE AuxBlob ------------------------------
(***************************************************************************)
(* The aux blob behind the pixels of a sample: built by the sink from the  *)
(* caps string and the metas of a buffer (auxblob.rs of both crates,       *)
(* sink.rs), written into a tail that may be larger or too small, and      *)
(* parsed by the receiver from whatever the tail then holds.               *)
(*                                                                         *)
(* A u32 length is P bytes of base B, least significant first.  Offsets    *)
(* are usize of 64 bits: an offset plus a length never wraps.              *)
(***************************************************************************)
EXTENDS Integers, Sequences, FiniteSetsExt, SequencesExt

CONSTANTS
  B,         \* values of a byte
  P,         \* bytes of a length
  Texts,     \* caps strings
  Utf8,      \* byte strings that are text
  CapsText,  \* byte strings that GStreamer parses as caps
  Payloads,  \* what metas serialise to
  MaxMetas,  \* bound: metas on a buffer
  MaxTail    \* bound: bytes of a reserved or foreign tail

Bytes    == 0..(B - 1)
MinBytes == 2 * P  \* AUX_MIN_BYTES

\* A meta on a buffer: VideoMeta and metas that cannot serialise do not travel.
Metas == [travels : {TRUE}, bytes : Payloads] \cup [travels : {FALSE}, bytes : {<<>>}]

VARIABLES
  path,   \* "copy", "zero" (zero-copy) or "wire" (written by any process)
  caps,   \* the caps string of the frame
  metas,  \* the metas of its buffer
  tail,   \* the bytes behind the pixels
  stage,  \* "build" | "sent" | "read"
  got     \* what parse_aux returned

auxVars == <<path, caps, metas, tail, stage, got>>

\* caps is a set: empty for None.
Nothing == [caps |-> {}, metas |-> <<>>]

----------------------------------------------------------------------------
\* B^k, and the lengths that P bytes hold.
Power[k \in 0..P] == IF k = 0 THEN 1 ELSE B * Power[k - 1]

Lengths == 0..(Power[P] - 1)

\* Lengths are cast to u32: no caps string, no meta and no number of metas is
\* too large for it.  What caps.to_string() gives is never empty and parses.
ASSUME AuxAssumption ==
  /\ B \in Nat \ {0} /\ P \in Nat \ {0}
  /\ \A text \in Texts \cup Payloads : text \in Seq(Bytes) /\ Len(text) \in Lengths
  /\ Texts \subseteq (Utf8 \cap CapsText) \ {<<>>}
  /\ MaxMetas \in Lengths /\ MaxTail \in Nat

\* n shifted right by k bytes, for all k.
Shifted(n) ==
  LET shift[k \in 0..P] == IF k = 0 THEN n ELSE shift[k - 1] \div B IN shift

Word(n) == [k \in 1..P |-> Shifted(n)[k - 1] % B]

\* What the first k metas of a buffer that travel serialise to.
Kept(ms) ==
  LET kept[k \in 0..Len(ms)] ==
        IF k = 0 THEN <<>>
        ELSE IF ms[k].travels THEN Append(kept[k - 1], ms[k].bytes) ELSE kept[k - 1]
  IN  kept

Travelling(ms) == Kept(ms)[Len(ms)]

\* A byte string behind its length; the first k of them as entries.
Entry(text) == Word(Len(text)) \o text
Entries(bs) ==
  LET out[k \in 0..Len(bs)] ==
        IF k = 0 THEN <<>> ELSE out[k - 1] \o Entry(bs[k])
  IN  out

\* How many metas fit the limit (a set: empty for none), up to the first that
\* does not.
Fitting(text, ms, limit) ==
  LET fits(k) == \A most \in limit : Len(Entry(text)) + P + Len(Entries(ms)[k]) <= most
  IN  Max({k \in 0..Len(ms) : \A j \in 1..k : fits(j)})

\* Mutant of BuildAux: n_metas is not patched to what was written.
UnpatchedCount(text, ms, limit) ==
  Entry(text) \o Word(Len(ms)) \o Entries(ms)[Fitting(text, ms, limit)]

\* build_aux: the caps always, then metas until one does not fit the limit.
BuildAux(text, ms, limit) ==
  LET kept == Fitting(text, ms, limit)
  IN  Entry(text) \o Word(kept) \o Entries(ms)[kept]

\* read_u32 at the offset pos, -1 when fewer than P bytes remain: the most
\* significant byte is the last.
Horner(b, pos) ==
  LET value[k \in 0..P] ==
        IF k = 0 THEN 0 ELSE value[k - 1] * B + b[pos + P - k + 1]
  IN  value

ReadWord(b, pos) == IF pos + P > Len(b) THEN -1 ELSE Horner(b, pos)[P]

Slice(b, pos, n) == SubSeq(b, pos + 1, pos + n)

\* Mutant of ParseEntry: an entry that ends with the tail is dropped.
ParseStrictly(b, s) ==
  LET len == ReadWord(b, s.pos)
  IN  IF ~s.ok \/ len = -1 \/ s.pos + P + len >= Len(b)
      THEN [s EXCEPT !.ok = FALSE]
      ELSE [pos |-> s.pos + P + len,
            metas |-> Append(s.metas, Slice(b, s.pos + P, len)), ok |-> TRUE]

\* One entry at the offset s.pos, unless an earlier one was cut off or it is.
ParseEntry(b, s) ==
  LET len == ReadWord(b, s.pos)
  IN  IF ~s.ok \/ len = -1 \/ s.pos + P + len > Len(b)
      THEN [s EXCEPT !.ok = FALSE]
      ELSE [pos |-> s.pos + P + len,
            metas |-> Append(s.metas, Slice(b, s.pos + P, len)), ok |-> TRUE]

\* Up to n entries from the offset start, as far as the tail has them.
Parsed(b, start, n) ==
  LET step[k \in 0..n] ==
        IF k = 0 THEN [pos |-> start, metas |-> <<>>, ok |-> TRUE]
        ELSE ParseEntry(b, step[k - 1])
  IN  step

\* Mutant of ParseAux: caps that are no text end the parse.
IllegibleEnds(b) ==
  LET len  == ReadWord(b, 0)
      n    == ReadWord(b, P + len)
      text == Slice(b, P, len)
  IN  IF len = -1 \/ P + len > Len(b) \/ (len > 0 /\ text \notin Utf8) THEN Nothing
      ELSE [caps  |-> IF len > 0 THEN {text} ELSE {},
            metas |-> IF n = -1 THEN <<>> ELSE Parsed(b, P + len + P, n)[n].metas]

\* parse_aux of the core: caps that are no text are None, the metas behind them
\* are still parsed.
ParseAux(b) ==
  LET len  == ReadWord(b, 0)
      n    == ReadWord(b, P + len)
      text == Slice(b, P, len)
  IN  IF len = -1 \/ P + len > Len(b) THEN Nothing
      ELSE [caps  |-> IF len > 0 /\ text \in Utf8 THEN {text} ELSE {},
            metas |-> IF n = -1 THEN <<>> ELSE Parsed(b, P + len + P, n)[n].metas]

\* parse_aux of the plugin: caps that do not parse are None as well.
ParseCaps(parsed) == [caps |-> parsed.caps \cap CapsText, metas |-> parsed.metas]

----------------------------------------------------------------------------
AuxInit ==
  /\ got = Nothing
  /\ \/ /\ path \in {"copy", "zero"} /\ stage = "build" /\ tail = <<>>
        /\ caps \in Texts /\ metas \in BoundedSeq(Metas, MaxMetas)
     \/ /\ path = "wire" /\ stage = "sent"
        /\ tail \in BoundedSeq(Bytes, MaxTail)
        /\ caps = <<>> /\ metas = <<>>

\* The copy path loans room for the whole blob.
WriteCopy ==
  /\ path = "copy" /\ stage = "build"
  /\ tail' = BuildAux(caps, Travelling(metas), {})
  /\ stage' = "sent"
  /\ UNCHANGED <<path, caps, metas, got>>

\* The zero-copy path has a tail of n bytes: a blob that does not fit is left
\* out whole, and the slack is zeroed.
WriteZeroCopy ==
  /\ path = "zero" /\ stage = "build"
  /\ \E n \in 0..MaxTail :
       LET blob == BuildAux(caps, Travelling(metas), {n})
           used == IF n >= MinBytes /\ Len(blob) <= n THEN blob ELSE <<>>
       IN  tail' = used \o [i \in 1..(n - Len(used)) |-> 0]
  /\ stage' = "sent"
  /\ UNCHANGED <<path, caps, metas, got>>

Read ==
  /\ stage = "sent"
  /\ got' = ParseCaps(ParseAux(tail))
  /\ stage' = "read"
  /\ UNCHANGED <<path, caps, metas, tail>>

AuxNext == WriteCopy \/ WriteZeroCopy \/ Read

AuxSpec == AuxInit /\ [][AuxNext]_auxVars

----------------------------------------------------------------------------
\* Bytes of a blob with the first k metas.
SizeWith(k) == MinBytes + Len(caps) + Len(Entries(Travelling(metas))[k])

\* The receiver gets the caps and as many metas as the tail has room for, all
\* of them on the copy path, and none of the padding; nothing when the caps do
\* not fit (auxblob.rs:17-29, 31-37, sink.rs:510-535).
RoundTrip ==
  stage = "read" /\ path # "wire" =>
    IF SizeWith(0) > Len(tail) THEN got = Nothing
    ELSE /\ got.caps = {caps}
         /\ IsPrefix(got.metas, Travelling(metas))
         /\ SizeWith(Len(got.metas)) <= Len(tail)
         /\ got.metas = Travelling(metas) \/ SizeWith(Len(got.metas) + 1) > Len(tail)
         /\ path = "copy" => got.metas = Travelling(metas)

\* Of any tail the receiver gets what lies there up to the first fault, not
\* less, and never a byte behind the end.  Caps that are no text, or no caps,
\* are not a fault: they are None and the metas behind them are kept
\* (auxblob.rs:75-111 of the core, auxblob.rs:53-68 of the plugin).
BestEffort ==
  stage = "read" =>
    LET strings == BoundedSeq(Bytes, Power[P] - 1)
        starts(text, n, bs) ==
          IsPrefix(Entry(text) \o Word(n) \o Entries(bs)[Len(bs)], tail)
    IN  \/ got = Nothing /\ \A text \in strings : ~IsPrefix(Entry(text), tail)
        \/ \E text \in strings :
             /\ IsPrefix(Entry(text), tail)
             /\ got.caps = ({text} \cap Utf8 \cap CapsText) \ {<<>>}
             /\ \/ got.metas = <<>> /\ \A n \in Lengths : ~starts(text, n, <<>>)
                \/ \E n \in Lengths :
                     /\ starts(text, n, got.metas) /\ Len(got.metas) <= n
                     /\ Len(got.metas) < n =>
                          \A m \in strings : ~starts(text, n, Append(got.metas, m))
=============================================================================
