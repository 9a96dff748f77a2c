----------------------------- MODULE WireProofs -----------------------------
(***************************************************************************)
(* What travels in a sample: the invariants of Geometry for all headers,   *)
(* payloads and widths of the arithmetic, and those of AuxBlob for all     *)
(* blobs, tails and limits.                                                *)
(*                                                                         *)
(* The functions of AuxBlob recurse on the number of an entry or a byte.   *)
(* Least, UpTo and Recursion reason about them with sets of numbers.       *)
(***************************************************************************)
EXTENDS Geometry, AuxBlob, SequenceTheorems, WellFoundedInduction, TLAPS

----------------------------------------------------------------------------
\* Arithmetic.

LEMMA ProductMonotone ==
  ASSUME NEW a \in Nat, NEW b \in Nat, NEW c \in Nat, a <= b
  PROVE  a * c <= b * c /\ c * a <= c * b /\ a * c \in Nat /\ c * a \in Nat
<1>1. PICK d \in Nat : b = a + d
  <2>1. b - a \in Nat /\ b = a + (b - a)
    OBVIOUS
  <2> QED BY <2>1
<1>2. d * c \in Nat /\ a * c \in Nat
  OBVIOUS
<1>3. b * c = a * c + d * c
  BY <1>1
<1>4. c * a = a * c /\ c * b = b * c
  OBVIOUS
<1> QED BY <1>2, <1>3, <1>4

LEMMA Remainder ==
  ASSUME NEW n \in Nat
  PROVE  n % U \in Nat /\ n % U <= n /\ n % U < U
  BY GeometryAssumption DEF GeometryAssumption

\* n bytes in equal rows are no more than n bytes.
LEMMA RowsFit ==
  ASSUME NEW n \in Nat, NEW rows \in Nat, rows > 0
  PROVE  n \div rows \in Nat /\ (n \div rows) * rows <= n
  OBVIOUS

LEMMA ChromaType == \A n \in Nat : Chroma(n) \in Nat /\ n <= 2 * Chroma(n)
  BY DEF Chroma

LEMMA PaddedType == \A n \in Nat : Padded(n) \in Nat /\ n <= Padded(n)
  BY DEF Padded

\* The interleaved chroma of an odd width still fits the padded row.
LEMMA PaddedPairs == \A n \in Nat : 2 * Chroma(n) <= Padded(n)
  BY DEF Padded, Chroma

----------------------------------------------------------------------------
\* The layout GstVideoInfo gives a frame.

VideoFormats == {"BGR", "RGB", "I420", "NV12"}

\* Strides, plane sizes and offsets of each format are natural numbers; the
\* planes lie one behind the other and each holds the rows the receiver expects.
LEMMA Layout ==
  ASSUME NEW format \in VideoFormats, NEW width \in Nat, NEW height \in Nat
  PROVE  LET n == Len(Strides(format, width))
             rows == PlaneHeights(format, height)
             start(i) == PlaneStart(format, width, height, i)
         IN  /\ n \in 1..3 /\ n = Len(rows)
             /\ FrameSize(format, width, height) \in Nat
             /\ \A i \in 1..n :
                  /\ Strides(format, width)[i] \in Nat /\ rows[i] \in Nat
                  /\ start(i) \in Nat
                  /\ start(i) + Strides(format, width)[i] * rows[i]
                       <= FrameSize(format, width, height)
<1> DEFINE C == Chroma(height)
           S(i) == Strides(format, width)[i]
<1>1. C \in Nat /\ height <= 2 * C /\ 2 * C \in Nat
  BY ChromaType
<1>2. CASE format \in {"BGR", "RGB"}
  <2>1. /\ Strides(format, width) = <<Padded(3 * width)>>
        /\ PlaneHeights(format, height) = <<height>>
    BY <1>2 DEF Strides, PlaneHeights
  <2>2. S(1) \in Nat
    BY <2>1, PaddedType
  <2>3. FrameSize(format, width, height) = S(1) * height /\ S(1) * height \in Nat
    BY <2>1, <2>2 DEF FrameSize, PlaneStart, PlaneSizes
  <2>4. PlaneStart(format, width, height, 1) = 0
    BY DEF PlaneStart
  <2> QED BY <2>1, <2>2, <2>3, <2>4
<1>3. CASE format = "NV12"
  <2>1. /\ Strides(format, width) = <<Padded(width), Padded(width)>>
        /\ PlaneHeights(format, height) = <<height, C>>
    BY <1>3 DEF Strides, PlaneHeights
  <2>2. S(1) \in Nat /\ S(2) \in Nat
    BY <2>1, PaddedType
  <2>3. /\ S(1) * (2 * C) \in Nat /\ S(1) * height <= S(1) * (2 * C)
        /\ S(1) * height \in Nat /\ S(2) * C \in Nat
    BY <1>1, <2>2, ProductMonotone
  <2>4. PlaneSizes(format, width, height) = <<S(1) * (2 * C), S(2) * C>>
    BY <2>1 DEF PlaneSizes
  <2>5. /\ PlaneStart(format, width, height, 1) = 0
        /\ PlaneStart(format, width, height, 2) = S(1) * (2 * C)
        /\ FrameSize(format, width, height) = S(1) * (2 * C) + S(2) * C
    BY <2>1, <2>4 DEF PlaneStart, FrameSize
  <2> QED BY <1>1, <2>1, <2>2, <2>3, <2>5
<1>4. CASE format = "I420"
  <2>1. /\ Strides(format, width) = <<Padded(width), Padded(Chroma(width)), Padded(Chroma(width))>>
        /\ PlaneHeights(format, height) = <<height, C, C>>
    BY <1>4 DEF Strides, PlaneHeights
  <2>2. S(1) \in Nat /\ S(2) \in Nat /\ S(3) \in Nat
    BY <2>1, PaddedType, ChromaType
  <2>3. /\ S(1) * (2 * C) \in Nat /\ S(1) * height <= S(1) * (2 * C)
        /\ S(1) * height \in Nat /\ S(2) * C \in Nat /\ S(3) * C \in Nat
    BY <1>1, <2>2, ProductMonotone
  <2>4. PlaneSizes(format, width, height) = <<S(1) * (2 * C), S(2) * C, S(3) * C>>
    BY <2>1 DEF PlaneSizes
  <2>5. /\ PlaneStart(format, width, height, 1) = 0
        /\ PlaneStart(format, width, height, 2) = S(1) * (2 * C)
        /\ PlaneStart(format, width, height, 3) = S(1) * (2 * C) + S(2) * C
        /\ FrameSize(format, width, height) = S(1) * (2 * C) + S(2) * C + S(3) * C
    BY <2>1, <2>4 DEF PlaneStart, FrameSize
  <2> QED BY <1>1, <2>1, <2>2, <2>3, <2>5
<1> QED BY <1>2, <1>3, <1>4 DEF VideoFormats

----------------------------------------------------------------------------
\* The inductive invariant.

Numeric(h) ==
  /\ h.width \in 0..(U - 1) /\ h.height \in Nat /\ h.aux_size \in Nat
  /\ \A i \in Planes : h.stride[i] \in Nat /\ h.stride[i] < U /\ h.offset[i] \in Nat

Origin ==
  /\ origin \in {"wire", "sdk", "sink"}
  /\ origin = "sdk" =>
       header = SdkHeader(header.format, header.width, header.height, payload)
  /\ origin = "sink" =>
       /\ header.format \in VideoFormats
       /\ header = ZeroCopyHeader(header.format, header.width, header.height, payload)
       /\ \A i \in 1..Len(Strides(header.format, header.width)) :
            2 * Strides(header.format, header.width)[i] < U

Outcome ==
  /\ verdict = "accepted" => ValidateGeometry(header, PixelSize)
  /\ verdict = "rejected" => ~ValidateGeometry(header, PixelSize)
  /\ view \in {"-", "rejected", "granted", "refused"}
  /\ view = "refused" => /\ ViewChecked(header, PixelSize)
                         /\ ~FromShape(header, Stride0(header) * header.height)
  /\ view = "granted" => FromShape(header, Stride0(header) * header.height)
  /\ view = "rejected" => ~ViewChecked(header, PixelSize)

GeoInv == payload \in 0..(W - 1) /\ Numeric(header) /\ Origin /\ Outcome

\* Every header the publishers and other processes write is numeric.
LEMMA InitInv == GeoInit => GeoInv
<1> SUFFICES ASSUME GeoInit PROVE GeoInv
  OBVIOUS
<1>c. U \in Nat \ {0} /\ W \in Nat /\ Fields \subseteq 0..(U - 1) /\ Sizes \subseteq 0..(W - 1)
  BY GeometryAssumption DEF GeometryAssumption
<1>o. Outcome
  BY DEF GeoInit, Outcome
<1>1. CASE FromWire
  <2>1. payload \in 0..(W - 1) /\ Origin
    BY <1>1, <1>c DEF FromWire, Origin
  <2>2. Numeric(header)
    <3>1. PICK format \in Formats, width \in Fields, height \in Fields,
               n \in 0..(MaxPlanes + 1), aux \in Fields :
          \E stride \in [{1} \cup 1..Len(PlaneHeights(format, 0)) -> Fields],
             offset \in [{1} \cup 1..Len(PlaneHeights(format, 0)) -> Fields] :
             header = [format |-> format, width |-> width, height |-> height,
                       n_planes |-> n, aux_size |-> aux,
                       stride |-> [i \in Planes |->
                         IF i \in {1} \cup 1..Len(PlaneHeights(format, 0)) THEN stride[i] ELSE 0],
                       offset |-> [i \in Planes |->
                         IF i \in {1} \cup 1..Len(PlaneHeights(format, 0)) THEN offset[i] ELSE 0]]
      BY <1>1 DEF FromWire
    <3> DEFINE read == {1} \cup 1..Len(PlaneHeights(format, 0))
    <3> HIDE DEF read
    <3>2. PICK stride \in [read -> Fields], offset \in [read -> Fields] :
             header = [format |-> format, width |-> width, height |-> height,
                       n_planes |-> n, aux_size |-> aux,
                       stride |-> [i \in Planes |-> IF i \in read THEN stride[i] ELSE 0],
                       offset |-> [i \in Planes |-> IF i \in read THEN offset[i] ELSE 0]]
      BY <3>1 DEF read
    <3>3. \A i \in Planes : header.stride[i] \in Nat /\ header.stride[i] < U
                            /\ header.offset[i] \in Nat
      <4> SUFFICES ASSUME NEW i \in Planes
                   PROVE  header.stride[i] \in Nat /\ header.stride[i] < U
                          /\ header.offset[i] \in Nat
        OBVIOUS
      <4>1. /\ header.stride[i] = IF i \in read THEN stride[i] ELSE 0
            /\ header.offset[i] = IF i \in read THEN offset[i] ELSE 0
        BY <3>2
      <4>2. i \in read => stride[i] \in Fields /\ offset[i] \in Fields
        OBVIOUS
      <4>3. \A f \in Fields \cup {0} : f \in Nat /\ f < U
        BY <1>c
      <4> QED BY <4>1, <4>2, <4>3
    <3> QED BY <1>c, <3>2, <3>3 DEF Numeric
  <2> QED BY <2>1, <2>2, <1>o DEF GeoInv
<1>2. CASE FromSdk
  <2>1. PICK format \in Formats, width \in Fields, height \in Fields :
          /\ payload \in Sizes \cup {width * height * Channels(format)} /\ payload < W
          /\ header = SdkHeader(format, width, height, payload)
    BY <1>2 DEF FromSdk
  <2>2. Channels(format) \in Nat
    BY DEF Channels
  <2>3. width \in Nat /\ height \in Nat /\ width * height \in Nat
    BY <1>c
  <2>4. width * height * Channels(format) \in Nat
    BY <2>2, <2>3
  <2>5. payload \in 0..(W - 1)
    BY <2>1, <2>4, <1>c
  <2>6. height > 0 => (payload \div height) % U \in Nat /\ (payload \div height) % U < U
    BY <2>3, <2>5, RowsFit, Remainder
  <2>7. payload % U \in Nat /\ payload % U < U
    BY <2>5, Remainder
  <2>8. Numeric(header)
    BY <2>1, <2>3, <2>6, <2>7, <1>c DEF Numeric, SdkHeader
  <2>9. Origin
    BY <2>1, <1>2 DEF Origin, SdkHeader, FromSdk
  <2> QED BY <2>5, <2>8, <2>9, <1>o DEF GeoInv
<1>3. CASE FromSink
  <2>1. PICK format \in Formats \cap VideoFormats, width \in Fields, height \in Fields :
          /\ FrameSize(format, width, height) < W
          /\ \A i \in 1..Len(Strides(format, width)) : 2 * Strides(format, width)[i] < U
          /\ payload \in Sizes \cup {FrameSize(format, width, height)}
          /\ header = ZeroCopyHeader(format, width, height, payload)
    BY <1>3 DEF FromSink, VideoFormats
  <2>2. width \in Nat /\ height \in Nat
    BY <1>c
  <2> DEFINE n == Len(Strides(format, width))
  <2>3. /\ FrameSize(format, width, height) \in Nat
        /\ \A i \in 1..n : /\ Strides(format, width)[i] \in Nat
                           /\ PlaneStart(format, width, height, i) \in Nat
        /\ n \in 1..3
    BY <2>2, Layout
  <2> HIDE DEF n
  <2>4. payload \in 0..(W - 1)
    BY <2>1, <2>3, <1>c
  <2>5. \A i \in Planes : header.stride[i] \in Nat /\ header.stride[i] < U
                          /\ header.offset[i] \in Nat
    <3> SUFFICES ASSUME NEW i \in Planes
                 PROVE  header.stride[i] \in Nat /\ header.stride[i] < U /\ header.offset[i] \in Nat
      OBVIOUS
    <3>1. /\ header.stride[i] = IF i <= n THEN Strides(format, width)[i] % U ELSE 0
          /\ header.offset[i] = IF i <= n THEN PlaneStart(format, width, height, i) % U ELSE 0
      BY <2>1 DEF ZeroCopyHeader, SinkHeader, n
    <3>2. i <= n => i \in 1..n
      BY <2>3 DEF Planes, MaxPlanes
    <3> QED BY <3>1, <3>2, <2>3, Remainder
  <2>6. /\ header.width = width /\ header.height = height /\ header.format = format
        /\ header.aux_size =
             (payload - Smaller(FrameSize(format, width, height), payload)) % U
    BY <2>1 DEF ZeroCopyHeader, SinkHeader
  <2>7. header.aux_size \in Nat
    BY <2>3, <2>4, <2>6, <1>c, Remainder DEF Smaller
  <2>8. Numeric(header)
    BY <2>2, <2>5, <2>6, <2>7, <1>c DEF Numeric
  <2>9. Origin
    BY <2>1, <2>6, <1>3 DEF Origin, FromSink
  <2> QED BY <2>4, <2>8, <2>9, <1>o DEF GeoInv
<1> QED BY <1>1, <1>2, <1>3 DEF GeoInit

LEMMA NextInv == GeoInv /\ [GeoNext]_geoVars => GeoInv'
<1> SUFFICES ASSUME GeoInv, [GeoNext]_geoVars PROVE GeoInv'
  OBVIOUS
<1>1. UNCHANGED <<origin, payload, header>>
  BY DEF GeoNext, Validate, View, geoVars
<1>2. /\ PixelSize' = PixelSize
      /\ payload' = payload /\ header' = header /\ origin' = origin
  BY <1>1 DEF PixelSize
<1>3. (payload \in 0..(W - 1) /\ Numeric(header) /\ Origin)'
  BY <1>2 DEF GeoInv, Numeric, Origin
<1>a. /\ ValidateGeometry(header, PixelSize)' = ValidateGeometry(header, PixelSize)
      /\ ViewChecked(header, PixelSize)' = ViewChecked(header, PixelSize)
      /\ FromShape(header, Stride0(header) * header.height)'
            = FromShape(header, Stride0(header) * header.height)
  BY <1>2 DEF ValidateGeometry, ViewChecked, FromShape, LastElement, Stride0, RowBytes
<1>4. ASSUME Validate PROVE Outcome'
  BY <1>a, <1>4 DEF GeoInv, Outcome, Validate
<1>5. ASSUME View PROVE Outcome'
  BY <1>a, <1>5 DEF GeoInv, Outcome, View
<1>6. ASSUME UNCHANGED geoVars PROVE Outcome'
  BY <1>a, <1>6 DEF GeoInv, Outcome, geoVars
<1> QED BY <1>3, <1>4, <1>5, <1>6 DEF GeoNext, GeoInv

\* The strengthening that the properties below rest on: where a header comes
\* from and what the checks said about it determine each other in every state.
THEOREM GeoInvariant == GeoSpec => []GeoInv
  BY InitInv, NextInv, PTL DEF GeoSpec

----------------------------------------------------------------------------
\* What the invariant gives.

LEMMA HeightsType ==
  ASSUME NEW format, NEW height \in Nat, NEW i \in 1..Len(PlaneHeights(format, height))
  PROVE  PlaneHeights(format, height)[i] \in Nat /\ i \in 1..3
<1>1. Chroma(height) \in Nat
  BY ChromaType
<1>2. CASE format \in {"BGR", "RGB"}
  BY <1>2 DEF PlaneHeights
<1>3. CASE format = "I420"
  BY <1>1, <1>3 DEF PlaneHeights
<1>4. CASE format = "NV12"
  BY <1>1, <1>4 DEF PlaneHeights
<1>5. CASE format \notin {"BGR", "RGB", "I420", "NV12"}
  BY <1>5 DEF PlaneHeights
<1> QED BY <1>2, <1>3, <1>4, <1>5

LEMMA PixelSizeType == GeoInv => PixelSize \in Nat /\ PixelSize <= payload
  BY GeometryAssumption DEF GeometryAssumption, GeoInv, Numeric, PixelSize, Smaller

\* The rows of an accepted frame are as many as its format has planes.
LEMMA RowLengthsType ==
  ASSUME NEW format, NEW width \in Nat, NEW height \in Nat,
         NEW i \in 1..Len(PlaneHeights(format, height))
  PROVE  RowLengths(format, width)[i] \in Nat
<1> DEFINE C == Chroma(width)
<1>c. C \in Nat
  BY ChromaType
<1> HIDE DEF C
<1>w. 2 * C \in Nat /\ 3 * width \in Nat
  BY <1>c
<1>1. Chroma(width) \in Nat /\ 2 * Chroma(width) \in Nat /\ 3 * width \in Nat
  BY <1>c, <1>w DEF C
<1>2. CASE format \in {"BGR", "RGB"}
  BY <1>1, <1>2 DEF PlaneHeights, RowLengths
<1>3. CASE format = "I420"
  BY <1>1, <1>3 DEF PlaneHeights, RowLengths
<1>4. CASE format = "NV12"
  BY <1>1, <1>4 DEF PlaneHeights, RowLengths
<1>5. CASE format \notin {"BGR", "RGB", "I420", "NV12"}
  BY <1>5 DEF PlaneHeights
<1> QED BY <1>2, <1>3, <1>4, <1>5

\* GstVideoInfo's strides hold a row of each plane.
LEMMA StridesHoldRows ==
  ASSUME NEW format \in VideoFormats, NEW width \in Nat,
         NEW i \in 1..Len(Strides(format, width))
  PROVE  /\ Strides(format, width)[i] \in Nat
         /\ RowLengths(format, width)[i] <= Strides(format, width)[i]
<1>1. Chroma(width) \in Nat /\ 3 * width \in Nat
  BY ChromaType
<1>2. /\ Padded(width) \in Nat /\ width <= Padded(width) /\ 2 * Chroma(width) <= Padded(width)
      /\ Padded(3 * width) \in Nat /\ 3 * width <= Padded(3 * width)
      /\ Padded(Chroma(width)) \in Nat /\ Chroma(width) <= Padded(Chroma(width))
  BY <1>1, PaddedType, PaddedPairs
<1>3. CASE format \in {"BGR", "RGB"}
  BY <1>2, <1>3 DEF Strides, RowLengths
<1>4. CASE format = "I420"
  BY <1>2, <1>4 DEF Strides, RowLengths
<1>5. CASE format = "NV12"
  BY <1>2, <1>5 DEF Strides, RowLengths
<1> QED BY <1>3, <1>4, <1>5 DEF VideoFormats

LEMMA SinkFullRows == GeoInv /\ origin = "sink" => FullRows
<1> SUFFICES ASSUME GeoInv, origin = "sink", NEW i \in 1..header.n_planes
             PROVE  Signed(header.stride[i]) >= RowLengths(header.format, header.width)[i]
  BY DEF FullRows
<1> DEFINE n == Len(Strides(header.format, header.width))
           stride == Strides(header.format, header.width)[i]
<1>1. /\ header.format \in VideoFormats /\ header.width \in Nat /\ header.height \in Nat
      /\ header = ZeroCopyHeader(header.format, header.width, header.height, payload)
      /\ \A k \in 1..n : 2 * Strides(header.format, header.width)[k] < U
  BY GeometryAssumption DEF GeometryAssumption, GeoInv, Numeric, Origin
<1>2. n \in 1..3
  BY <1>1, Layout
<1>3. header.n_planes = n
  BY <1>1 DEF ZeroCopyHeader, SinkHeader
<1>4. i \in 1..n /\ i \in Planes
  <2>1. i \in 1..n
    BY <1>3
  <2> HIDE DEF n
  <2> QED BY <1>2, <2>1 DEF Planes, MaxPlanes
<1>5. header.stride[i] = stride % U
  BY <1>1, <1>4 DEF ZeroCopyHeader, SinkHeader
<1>6. stride \in Nat /\ RowLengths(header.format, header.width)[i] <= stride /\ 2 * stride < U
  BY <1>1, <1>4, StridesHoldRows
<1> HIDE DEF stride, n
<1>7. stride % U = stride /\ Signed(stride) = stride
  BY <1>6, GeometryAssumption DEF GeometryAssumption, Signed
<1>8. RowLengths(header.format, header.width)[i] \in Nat
  <2>1. n = Len(PlaneHeights(header.format, header.height))
    BY <1>1, Layout DEF n
  <2> QED BY <1>1, <1>4, <2>1, RowLengthsType
<1> QED BY <1>5, <1>6, <1>7, <1>8

LEMMA InsideByInv == GeoInv => ReadsInside
<1> SUFFICES ASSUME GeoInv, verdict = "accepted", origin = "sink" \/ FullRows,
                    NEW i \in 1..header.n_planes, NEW row \in RowsOf(i), NEW x \in Columns(i)
             PROVE  header.offset[i] + row * Signed(header.stride[i]) + x \in 0..(PixelSize - 1)
  BY DEF ReadsInside, RowsInPixels
<1> DEFINE rows == PlaneHeights(header.format, header.height)[i]
           long == RowLengths(header.format, header.width)[i]
           stride == header.stride[i]
           offset == header.offset[i]
<1>1. i \in 1..Len(PlaneHeights(header.format, header.height)) /\ i \in Planes
  BY DEF GeoInv, Outcome, ValidateGeometry, Planes, MaxPlanes
<1>2. offset + stride * rows <= PixelSize
  BY <1>1 DEF GeoInv, Outcome, ValidateGeometry, PlaneFits
<1>3. stride \in Nat /\ stride < U /\ offset \in Nat /\ header.height \in Nat /\ header.width \in Nat
  BY <1>1, GeometryAssumption DEF GeometryAssumption, GeoInv, Numeric
<1>4. rows \in Nat /\ long \in Nat
  BY <1>1, <1>3, HeightsType, RowLengthsType
<1>5. PixelSize \in Nat
  BY PixelSizeType
<1>6. long <= stride /\ Signed(stride) = stride
  <2>1. long <= Signed(stride)
    BY SinkFullRows DEF FullRows
  <2> HIDE DEF long, stride
  <2> QED BY <1>3, <1>4, <2>1, GeometryAssumption DEF GeometryAssumption, Signed
<1>7. row \in 0..(rows - 1) /\ x \in 0..(long - 1)
  BY DEF RowsOf, Columns
<1> HIDE DEF rows, stride, offset, long
<1>8. row \in Nat /\ row + 1 \in Nat /\ row + 1 <= rows /\ x \in Nat /\ x < stride
  BY <1>3, <1>4, <1>6, <1>7
<1>9. stride * (row + 1) <= stride * rows /\ stride * rows \in Nat
  BY <1>3, <1>4, <1>8, ProductMonotone
<1>10. stride * (row + 1) = row * stride + stride /\ row * stride \in Nat
  BY <1>3, <1>8
<1>11. offset + row * stride + x \in 0..(PixelSize - 1)
  BY <1>2, <1>3, <1>5, <1>8, <1>9, <1>10
<1> QED BY <1>6, <1>11 DEF stride, offset

\* For every width of the arithmetic, no byte that readers take from a row of an
\* accepted frame of the sink lies outside the pixels of its payload, nor from
\* any accepted frame whose strides are no shorter than its rows.
THEOREM AcceptedReadsInside == GeoSpec => []ReadsInside
  BY GeoInvariant, InsideByInv, PTL

\* What from_shape measures of a frame.
LEMMA LastElementOf ==
  ASSUME GeoInv, U * 4 <= W, Channels(header.format) # 0, ViewChecked(header, PixelSize)
  PROVE  LET S == Stride0(header)
             wide == header.width * Channels(header.format)
         IN  /\ S \in Nat /\ wide \in Nat /\ RowBytes(header) = wide /\ wide <= S
             /\ header.width # 0 /\ header.height # 0 =>
                  LastElement(header) = (header.height - 1) * S + wide - 1
<1> DEFINE S == Stride0(header)
           c == Channels(header.format)
           wide == header.width * c
<1>c. U \in Nat /\ W \in Nat
  BY GeometryAssumption DEF GeometryAssumption
<1>1. header.width \in 0..(U - 1) /\ header.height \in Nat /\ header.stride[1] \in Nat
  BY DEF GeoInv, Numeric, Planes, MaxPlanes
<1>2. c \in 1..4
  BY DEF Channels
<1> HIDE DEF c
<1>3. header.width \in Nat /\ wide \in Nat /\ wide <= header.width * 4
  BY <1>c, <1>1, <1>2, ProductMonotone
<1>4. wide < W
  BY <1>c, <1>1, <1>3
<1>5. RowBytes(header) = wide
  BY <1>c, <1>3, <1>4 DEF RowBytes, c
<1>6. S \in Nat /\ S >= wide
  BY <1>1, <1>3, <1>5 DEF Stride0, ViewChecked
<1>7. ASSUME header.width # 0, header.height # 0
      PROVE  LastElement(header) = (header.height - 1) * S + wide - 1
  <2>1. (header.width - 1) * c = wide - c
    BY <1>2, <1>3
  <2>2. LastElement(header) = (header.height - 1) * S + (header.width - 1) * c + (c - 1)
    BY <1>2, <1>7 DEF LastElement, Along, c
  <2>3. (header.height - 1) * S \in Int
    BY <1>1, <1>6
  <2> HIDE DEF S, wide
  <2> QED BY <1>2, <1>3, <2>1, <2>2, <2>3
<1> QED BY <1>3, <1>5, <1>6, <1>7 DEF c

LEMMA ViewByInv == GeoInv => ViewNeverRefused
<1> SUFFICES ASSUME GeoInv, U * 4 <= W, view = "refused", header.width # 0, header.height # 0
             PROVE  FALSE
  BY DEF ViewNeverRefused
<1> DEFINE S == Stride0(header)
           wide == header.width * Channels(header.format)
           h == header.height
<1>1. /\ ViewChecked(header, PixelSize)
      /\ ~FromShape(header, S * h)
  BY DEF GeoInv, Outcome
<1>2. h \in Nat \ {0}
  BY DEF GeoInv, Numeric
<1>3. S \in Nat /\ wide \in Nat /\ wide <= S /\ LastElement(header) = (h - 1) * S + wide - 1
  BY <1>1, LastElementOf DEF ViewChecked
<1> HIDE DEF S, wide
<1>4. S * h = (h - 1) * S + S /\ (h - 1) * S \in Nat
  BY <1>2, <1>3
<1>5. LastElement(header) < S * h
  BY <1>3, <1>4
<1>6. FromShape(header, S * h)
  BY <1>3, <1>5 DEF FromShape, S, wide
<1> QED BY <1>1, <1>6

\* Whenever a row of four-byte pixels fits a usize, the checks made before
\* from_shape are enough for it: no view of a frame with pixels is refused after
\* they passed.
THEOREM ChecksSuffice == GeoSpec => []ViewNeverRefused
  BY GeoInvariant, ViewByInv, PTL

----------------------------------------------------------------------------
\* The frames of the publishers.

\* All of the SDK's payload is pixels, and its first stride is that of
\* publish_frame.
LEMMA SdkFrame ==
  ASSUME GeoInv, origin = "sdk"
  PROVE  /\ PixelSize = payload
         /\ header.n_planes = 1 /\ header.offset[1] = 0
         /\ header.stride[1] = IF header.height > 0 THEN (payload \div header.height) % U
                               ELSE payload % U
<1> DEFINE sdk == SdkHeader(header.format, header.width, header.height, payload)
<1>1. header = sdk /\ payload \in Nat
  BY GeometryAssumption DEF GeometryAssumption, GeoInv, Origin
<1>2. /\ sdk.n_planes = 1 /\ sdk.aux_size = 0 /\ sdk.offset[1] = 0
      /\ sdk.stride[1] = IF header.height > 0 THEN (payload \div header.height) % U
                         ELSE payload % U
  BY DEF SdkHeader, Planes, MaxPlanes
<1> HIDE DEF sdk
<1>3. header.aux_size = 0
  BY <1>1, <1>2
<1> QED BY <1>1, <1>2, <1>3 DEF PixelSize, Smaller

LEMMA SdkAccepted ==
  ASSUME GeoInv, origin = "sdk", header.format \in {"BGR", "RGB"}
  PROVE  ValidateGeometry(header, PixelSize)
<1> DEFINE rows == header.height
           stride == header.stride[1]
<1>1. rows \in Nat /\ stride \in Nat /\ payload \in Nat /\ payload < W
  BY GeometryAssumption DEF GeometryAssumption, GeoInv, Numeric, Planes, MaxPlanes
<1>2. PlaneHeights(header.format, header.height) = <<rows>>
  BY DEF PlaneHeights
<1>3. stride * rows <= payload /\ stride * rows \in Nat
  <2>1. CASE rows = 0
    BY <1>1, <2>1
  <2>2. CASE rows > 0
    <3>1. /\ payload \div rows \in Nat /\ (payload \div rows) * rows <= payload
          /\ stride = (payload \div rows) % U
      BY <1>1, <2>2, RowsFit, SdkFrame
    <3>2. stride <= payload \div rows
      BY <3>1, Remainder
    <3>3. stride * rows <= (payload \div rows) * rows /\ stride * rows \in Nat
      BY <1>1, <3>1, <3>2, ProductMonotone
    <3> QED BY <1>1, <3>1, <3>3
  <2> QED BY <1>1, <2>1, <2>2
<1>4. header.n_planes = 1 /\ header.offset[1] = 0 /\ PixelSize = payload
  BY SdkFrame
<1> HIDE DEF rows, stride
<1>5. PlaneFits(0, stride, rows, payload)
  BY <1>1, <1>3, GeometryAssumption DEF GeometryAssumption, PlaneFits
<1> QED BY <1>2, <1>4, <1>5 DEF ValidateGeometry, Planes, MaxPlanes, stride

LEMMA SinkAccepted ==
  ASSUME GeoInv, origin = "sink",
         payload >= FrameSize(header.format, header.width, header.height)
  PROVE  ValidateGeometry(header, PixelSize)
<1> DEFINE size == FrameSize(header.format, header.width, header.height)
           rows == PlaneHeights(header.format, header.height)
           n == Len(Strides(header.format, header.width))
           stride(i) == Strides(header.format, header.width)[i]
           start(i) == PlaneStart(header.format, header.width, header.height, i)
<1>1. /\ header.format \in VideoFormats
      /\ header = ZeroCopyHeader(header.format, header.width, header.height, payload)
  BY DEF GeoInv, Origin
<1>2. /\ header.width \in Nat /\ header.height \in Nat
      /\ payload \in Nat /\ payload < W
  BY GeometryAssumption DEF GeometryAssumption, GeoInv, Numeric
<1>3. /\ n \in 1..3 /\ n = Len(rows) /\ size \in Nat
      /\ \A i \in 1..n : /\ stride(i) \in Nat /\ rows[i] \in Nat /\ start(i) \in Nat
                         /\ start(i) + stride(i) * rows[i] <= size
  BY <1>1, <1>2, Layout
<1>4. /\ header.n_planes = n
      /\ header.aux_size = (payload - Smaller(size, payload)) % U
      /\ \A i \in Planes : i <= n => /\ header.stride[i] = stride(i) % U
                                     /\ header.offset[i] = start(i) % U
  BY <1>1 DEF ZeroCopyHeader, SinkHeader
<1> HIDE DEF size, rows, n, stride, start
<1>5. payload >= size
  BY DEF size
<1>6. /\ header.aux_size \in Nat /\ header.aux_size <= payload - size
  <2>1. Smaller(size, payload) = size
    BY <1>2, <1>3, <1>5 DEF Smaller
  <2>2. payload - size \in Nat
    BY <1>2, <1>3, <1>5
  <2> QED BY <1>4, <2>1, <2>2, Remainder
<1>7. PixelSize >= size /\ PixelSize \in Nat /\ PixelSize <= payload
  BY <1>2, <1>3, <1>6 DEF PixelSize, Smaller
<1>8. ASSUME NEW i \in 1..n
      PROVE  PlaneFits(header.offset[i], header.stride[i], rows[i], PixelSize)
  <2>1. i \in Planes /\ i <= n
    <3>1. n \in 1..3
      BY <1>3
    <3> QED BY <3>1 DEF Planes, MaxPlanes
  <2>2. header.stride[i] = stride(i) % U /\ header.offset[i] = start(i) % U
    BY <1>4, <2>1
  <2>3. /\ header.stride[i] \in Nat /\ header.stride[i] <= stride(i)
        /\ header.offset[i] \in Nat /\ header.offset[i] <= start(i)
    BY <1>3, <2>2, Remainder
  <2>4. header.stride[i] * rows[i] <= stride(i) * rows[i] /\ header.stride[i] * rows[i] \in Nat
    BY <1>3, <2>3, ProductMonotone
  <2>5. start(i) + stride(i) * rows[i] <= size /\ stride(i) * rows[i] \in Nat
    BY <1>3
  <2>6. header.offset[i] + header.stride[i] * rows[i] <= size
    BY <1>3, <2>3, <2>4, <2>5
  <2>7. size \in Nat /\ W \in Nat
    BY <1>3, GeometryAssumption DEF GeometryAssumption
  <2> DEFINE bytes == header.stride[i] * rows[i]
             offset == header.offset[i]
  <2> HIDE DEF bytes, offset
  <2>8. bytes < W /\ offset + bytes < W /\ offset + bytes <= PixelSize
    BY <1>2, <1>7, <2>3, <2>4, <2>6, <2>7 DEF bytes, offset
  <2> QED BY <2>8 DEF PlaneFits, bytes, offset
<1>9. header.n_planes \in Planes
  <2>1. header.n_planes = n /\ n \in 1..3
    BY <1>3, <1>4
  <2> QED BY <2>1 DEF Planes, MaxPlanes
<1>10. rows # <<>>
  <2>1. Len(rows) # 0
    BY <1>3
  <2>2. Len(<<>>) = 0
    OBVIOUS
  <2> QED BY <2>1, <2>2
<1> QED BY <1>3, <1>4, <1>8, <1>9, <1>10 DEF ValidateGeometry, rows

LEMMA AcceptedByInv == GeoInv => PublishedAccepted
<1> SUFFICES ASSUME GeoInv, verdict = "rejected", origin # "wire",
                    ~(origin = "sdk" /\ header.format \notin {"BGR", "RGB"}),
                    ~(origin = "sink" /\ payload < FrameSize(header.format, header.width, header.height))
             PROVE  FALSE
  BY DEF PublishedAccepted
<1>1. ~ValidateGeometry(header, PixelSize)
  BY DEF GeoInv, Outcome
<1>2. CASE origin = "sdk"
  BY <1>1, <1>2, SdkAccepted
<1>3. CASE origin = "sink"
  <2>1. header.format \in VideoFormats /\ header.width \in Nat /\ header.height \in Nat
    BY <1>3, GeometryAssumption DEF GeometryAssumption, GeoInv, Numeric, Origin
  <2>2. FrameSize(header.format, header.width, header.height) \in Nat /\ payload \in Nat
    <3>1. FrameSize(header.format, header.width, header.height) \in Nat
      BY <2>1, Layout
    <3> QED BY <3>1, GeometryAssumption DEF GeometryAssumption, GeoInv
  <2>3. payload >= FrameSize(header.format, header.width, header.height)
    BY <1>3, <2>2
  <2> QED BY <1>1, <1>3, <2>3, SinkAccepted
<1> QED BY <1>2, <1>3 DEF GeoInv, Origin

\* Whatever the size of frame, loan and tail, the receiver accepts the packed
\* frames of the SDK and the frames of the sink that fit their loan.
THEOREM PublishersAccepted == GeoSpec => []PublishedAccepted
  BY GeoInvariant, AcceptedByInv, PTL

LEMMA ContiguousByInv == GeoInv => ContiguousViewable
<1> DEFINE wide == header.width * Channels(header.format)
           h == header.height
<1> SUFFICES ASSUME GeoInv, origin = "sdk", Channels(header.format) # 0, U * 4 <= W,
                    payload = header.width * header.height * Channels(header.format),
                    wide < U
             PROVE  view \in {"-", IF header.width = 0 \/ h = 0 THEN "refused" ELSE "granted"}
  BY DEF ContiguousViewable
<1>c. U \in Nat \ {0} /\ W \in Nat /\ U <= W
  BY GeometryAssumption DEF GeometryAssumption
<1>1. header.width \in Nat /\ h \in Nat /\ header.stride[1] \in Nat /\ Channels(header.format) \in Nat
      /\ payload \in Nat /\ payload < W
  BY <1>c DEF GeoInv, Numeric, Planes, MaxPlanes, Channels
<1>2. wide \in Nat /\ payload = wide * h
  BY <1>1
<1>3. RowBytes(header) = wide
  BY <1>c, <1>2 DEF RowBytes
<1> HIDE DEF wide, h
<1>4. h > 0 => payload \div h = wide
  BY <1>1, <1>2
<1>5. header.stride[1] \in {0, wide}
  <2>1. CASE h > 0
    BY <1>4, <1>c, <1>2, <2>1, SdkFrame DEF h
  <2>2. CASE h = 0
    <3>1. payload = 0
      BY <1>2, <2>2
    <3> QED BY <1>c, <2>2, <3>1, SdkFrame DEF h
  <2> QED BY <1>1, <2>1, <2>2
<1>6. Stride0(header) = wide
  BY <1>3, <1>5 DEF Stride0
<1>7. PixelSize = payload
  BY SdkFrame
<1>8. ViewChecked(header, PixelSize)
  BY <1>1, <1>2, <1>3, <1>6, <1>7 DEF ViewChecked, h
<1>9. CASE header.width # 0 /\ h # 0
  <2>1. view # "refused"
    BY <1>9, ViewByInv DEF ViewNeverRefused, h
  <2> QED BY <1>8, <1>9, <2>1 DEF GeoInv, Outcome
\* Without pixels the payload is empty, but the last element is not the first.
<1>10. CASE header.width = 0 \/ h = 0
  <2> DEFINE c == Channels(header.format)
  <2>1. c \in 3..4
    BY DEF Channels
  <2>2. Stride0(header) * h = 0
    BY <1>1, <1>2, <1>6, <1>10 DEF wide
  <2>3. LastElement(header) = Along(h) * wide + Along(header.width) * c + (c - 1)
    BY <1>6, <2>1 DEF LastElement, Along, h
  <2>4. Along(h) * wide \in Nat /\ Along(header.width) * c \in Nat
    BY <1>1, <1>2, <2>1 DEF Along
  <2> HIDE DEF c
  <2>5. LastElement(header) \in Nat /\ LastElement(header) > 0
    BY <2>1, <2>3, <2>4
  <2>6. ~FromShape(header, Stride0(header) * h)
    <3>1. ~(LastElement(header) <= Stride0(header) * h)
      BY <2>2, <2>5
    <3> QED BY <1>10, <3>1 DEF FromShape, h
  <2> QED BY <1>8, <1>10, <2>6 DEF GeoInv, Outcome, h
<1> QED BY <1>9, <1>10

\* For every width, height and packed format whose row fits a header field, a
\* contiguous frame of the SDK is viewable at the other end if it has pixels, and
\* refused if it has none.
THEOREM ContiguousFramesViewable == GeoSpec => []ContiguousViewable
  BY GeoInvariant, ContiguousByInv, PTL

----------------------------------------------------------------------------
\* Induction and recursion on 0..n, stated with sets and functions.

LEMMA Least ==
  ASSUME NEW T, T \subseteq Nat, T # {}
  PROVE  \E m \in T : \A k \in T : m <= k
<1> DEFINE Less == {p \in Nat \X Nat : p[1] < p[2]}
<1>1. IsWellFoundedOn(Less, Nat)
  BY NatLessThanWellFounded DEF OpToRel
<1> HIDE DEF Less
<1>2. PICK m \in T : \A k \in T : <<k, m>> \notin Less
  BY <1>1, WFMin
<1>3. ASSUME NEW k \in T PROVE m <= k
  <2>1. k \in Nat /\ m \in Nat /\ <<k, m>> \notin Less
    BY <1>2
  <2>2. ~(k < m)
    BY <2>1 DEF Less
  <2> QED BY <2>1, <2>2
<1> QED BY <1>3

\* A set that has 0 and with each number below n its successor has all of 0..n.
LEMMA UpTo ==
  ASSUME NEW n \in Nat, NEW S, 0 \in S, \A k \in 0..(n - 1) : k \in S => k + 1 \in S
  PROVE  \A k \in 0..n : k \in S
<1> DEFINE Missing == {k \in 0..n : k \notin S}
<1> SUFFICES ASSUME Missing # {} PROVE FALSE
  OBVIOUS
<1>1. PICK m \in Missing : \A k \in Missing : m <= k
  <2>1. Missing \subseteq Nat
    OBVIOUS
  <2> HIDE DEF Missing
  <2> QED BY <2>1, Least
<1>2. m \in 0..n /\ m \notin S /\ m # 0
  OBVIOUS
<1>3. m - 1 \in 0..(n - 1) /\ m - 1 \notin Missing /\ (m - 1) + 1 = m
  BY <1>1, <1>2
<1>4. m - 1 \in S
  BY <1>2, <1>3
<1> QED BY <1>2, <1>3, <1>4

\* The recursive function on 0..n that starts with base and goes on with next.
Follows(f, n, V, base, next) ==
  /\ f \in [0..n -> V] /\ f[0] = base
  /\ \A k \in 1..n : f[k] = next[k][f[k - 1]]

LEMMA Recursion ==
  ASSUME NEW n \in Nat, NEW V, NEW base \in V, NEW next \in [1..n -> [V -> V]]
  PROVE  \E f : Follows(f, n, V, base, next)
<1> DEFINE Solves(m, f) == f[0] = base /\ \A k \in 1..m : f[k] = next[k][f[k - 1]]
           S == {m \in 0..n : \E f \in [0..m -> V] : Solves(m, f)}
<1>1. 0 \in S
  <2> DEFINE f0 == [k \in 0..0 |-> base]
  <2>1. f0 \in [0..0 -> V] /\ f0[0] = base /\ \A k \in 1..0 : FALSE
    OBVIOUS
  <2> HIDE DEF f0
  <2>2. Solves(0, f0)
    BY <2>1
  <2>3. 0 \in 0..n
    OBVIOUS
  <2> QED BY <2>1, <2>2, <2>3
<1>2. ASSUME NEW m \in 0..(n - 1), m \in S PROVE m + 1 \in S
  <2>1. PICK f \in [0..m -> V] : Solves(m, f)
    BY <1>2
  <2> DEFINE g == [k \in 0..(m + 1) |-> IF k = m + 1 THEN next[m + 1][f[m]] ELSE f[k]]
  <2>2. m + 1 \in 1..n /\ f[m] \in V /\ next[m + 1][f[m]] \in V
    <3>1. m + 1 \in 1..n /\ m \in 0..m
      OBVIOUS
    <3> QED BY <3>1
  <2>3. g \in [0..(m + 1) -> V]
    BY <2>2
  <2>4. g[0] = base
    BY <2>1
  <2>5. ASSUME NEW k \in 1..(m + 1) PROVE g[k] = next[k][g[k - 1]]
    <3>1. CASE k = m + 1
      <4>1. g[k] = next[m + 1][f[m]] /\ k - 1 = m /\ g[m] = f[m]
        BY <3>1
      <4> QED BY <3>1, <4>1
    <3>2. CASE k # m + 1
      <4>1. k \in 1..m /\ g[k] = f[k] /\ g[k - 1] = f[k - 1]
        BY <3>2
      <4> QED BY <2>1, <4>1
    <3> QED BY <3>1, <3>2
  <2> HIDE DEF g
  <2>6. Solves(m + 1, g)
    BY <2>4, <2>5
  <2>7. m + 1 \in 0..n
    OBVIOUS
  <2>8. \E h \in [0..(m + 1) -> V] : Solves(m + 1, h)
    BY <2>3, <2>6
  <2> HIDE DEF Solves
  <2> QED BY <2>7, <2>8
<1> HIDE DEF S
<1>3. \A k \in 0..n : k \in S
  BY <1>1, <1>2, UpTo
<1>4. n \in S
  BY <1>3
<1> QED BY <1>4 DEF S, Follows

LEMMA Inherited ==
  ASSUME NEW n \in Nat, NEW V, NEW f, f[0] \in V,
         \A k \in 1..n : f[k - 1] \in V => f[k] \in V
  PROVE  \A k \in 0..n : f[k] \in V
<1> DEFINE S == {k \in 0..n : f[k] \in V}
<1>1. 0 \in S
  OBVIOUS
<1>2. ASSUME NEW k \in 0..(n - 1), k \in S PROVE k + 1 \in S
  <2>1. k + 1 \in 1..n /\ (k + 1) - 1 = k /\ k + 1 \in 0..n
    OBVIOUS
  <2>2. f[(k + 1) - 1] \in V
    BY <1>2, <2>1
  <2> QED BY <2>1, <2>2
<1> HIDE DEF S
<1>3. \A k \in 0..n : k \in S
  BY <1>1, <1>2, UpTo
<1> QED BY <1>3 DEF S

----------------------------------------------------------------------------
\* Lengths as bytes.

LEMMA Widths == B \in Nat \ {0} /\ P \in Nat \ {0} /\ 0..P \subseteq Nat
  BY AuxAssumption DEF AuxAssumption

LEMMA PowerDef ==
  /\ Power[0] = 1
  /\ \A k \in 1..P : Power[k] = B * Power[k - 1]
  /\ \A k \in 0..P : Power[k] \in Nat \ {0}
<1> DEFINE V == Nat \ {0}
           next == [k \in 1..P |-> [x \in V |-> B * x]]
<1>1. \A x \in V : B * x \in V
  BY Widths
<1>2. 1 \in V /\ next \in [1..P -> [V -> V]]
  BY <1>1
<1> HIDE DEF next, V
<1>3. PICK f : Follows(f, P, V, 1, next)
  BY <1>2, Widths, Recursion
<1>4. \A k \in 1..P : f[k] = B * f[k - 1]
  <2>1. \A k \in 1..P : k - 1 \in 0..P
    BY Widths
  <2> QED BY <1>3, <2>1 DEF next, Follows
<1>5. f = [k \in 0..P |-> IF k = 0 THEN 1 ELSE B * f[k - 1]]
  <2>1. \A k \in 0..P : k # 0 => k \in 1..P
    BY Widths
  <2> QED BY <1>3, <1>4, <2>1 DEF Follows
<1>6. Power = [k \in 0..P |-> IF k = 0 THEN 1 ELSE B * Power[k - 1]]
  BY <1>5 DEF Power
<1>7. Power[0] = 1 /\ \A k \in 1..P : Power[k] = B * Power[k - 1]
  BY <1>6, Widths
<1>8. \A k \in 0..P : Power[k] \in V
  <2>1. Power[0] \in V
    BY <1>2, <1>7
  <2>2. \A k \in 1..P : Power[k - 1] \in V => Power[k] \in V
    BY <1>1, <1>7
  <2> QED BY <2>1, <2>2, Widths, Inherited
<1> QED BY <1>7, <1>8 DEF V

LEMMA LengthsAreNat == Lengths \subseteq Nat /\ \A n \in Nat : n \in Lengths <=> n < Power[P]
<1>1. Power[P] \in Nat \ {0}
  BY PowerDef, Widths
<1> QED BY <1>1 DEF Lengths

\* Shifting by a byte divides by B.
LEMMA ShiftedDef ==
  ASSUME NEW n \in Nat
  PROVE  /\ Shifted(n)[0] = n
         /\ \A k \in 1..P : Shifted(n)[k] = Shifted(n)[k - 1] \div B
         /\ \A k \in 0..P : Shifted(n)[k] \in Nat
<1> DEFINE next == [k \in 1..P |-> [x \in Nat |-> x \div B]]
<1>1. \A x \in Nat : x \div B \in Nat
  BY Widths
<1>2. next \in [1..P -> [Nat -> Nat]]
  BY <1>1
<1> HIDE DEF next
<1>3. PICK f : Follows(f, P, Nat, n, next)
  BY <1>2, Widths, Recursion
<1>4. \A k \in 1..P : f[k] = f[k - 1] \div B
  <2>1. \A k \in 1..P : k - 1 \in 0..P
    BY Widths
  <2> QED BY <1>3, <2>1 DEF next, Follows
<1>5. f = [k \in 0..P |-> IF k = 0 THEN n ELSE f[k - 1] \div B]
  <2>1. \A k \in 0..P : k # 0 => k \in 1..P
    BY Widths
  <2> QED BY <1>3, <1>4, <2>1 DEF Follows
<1>6. Shifted(n) = [k \in 0..P |-> IF k = 0 THEN n ELSE Shifted(n)[k - 1] \div B]
  BY <1>5 DEF Shifted
<1>7. Shifted(n)[0] = n /\ \A k \in 1..P : Shifted(n)[k] = Shifted(n)[k - 1] \div B
  BY <1>6, Widths
<1>8. \A k \in 0..P : Shifted(n)[k] \in Nat
  BY <1>1, <1>7, Widths, Inherited
<1> QED BY <1>7, <1>8

LEMMA WordDef ==
  ASSUME NEW n \in Nat
  PROVE  /\ Word(n) \in Seq(Bytes) /\ Len(Word(n)) = P
         /\ \A k \in 1..P : Word(n)[k] = Shifted(n)[k - 1] % B
<1>1. \A k \in 1..P : Shifted(n)[k - 1] % B \in Bytes
  <2>1. \A k \in 1..P : k - 1 \in 0..P
    BY Widths
  <2>2. \A x \in Nat : x % B \in Bytes
    BY Widths DEF Bytes
  <2> QED BY <2>1, <2>2, ShiftedDef
<1>2. Word(n) \in [1..P -> Bytes]
  BY <1>1 DEF Word
<1> QED BY <1>2, Widths DEF Word

LEMMA QuotientAndRest == \A x \in Nat : (x \div B) * B + (x % B) = x
<1> SUFFICES ASSUME NEW x \in Nat PROVE (x \div B) * B + (x % B) = x
  OBVIOUS
<1> DEFINE v == x \div B
           d == x - v * B
<1>1. v \in Nat /\ v * B \in Nat /\ v * B <= x /\ x < (v + 1) * B
  BY Widths
<1> HIDE DEF v
<1>2. (v + 1) * B = v * B + B
  BY <1>1, Widths
<1>3. d \in Nat /\ d < B /\ x = v * B + d
  BY <1>1, <1>2, Widths
<1> HIDE DEF d
<1>4. (v * B + d) % B = d
  BY <1>1, <1>3, Widths
<1>5. x % B = d
  BY <1>3, <1>4
<1>6. v * B + (x % B) = x
  BY <1>3, <1>5
<1> QED BY <1>6 DEF v

\* A length has no more than P bytes.
LEMMA ShiftedOut ==
  ASSUME NEW n \in Lengths
  PROVE  Shifted(n)[P] = 0
<1> DEFINE S == {k \in 0..P : Shifted(n)[k] * Power[k] <= n}
<1>1. n \in Nat /\ n < Power[P] /\ Power[P] \in Nat
  BY LengthsAreNat, PowerDef, Widths
<1>2. 0 \in S
  BY <1>1, ShiftedDef, PowerDef, Widths
<1>3. ASSUME NEW k \in 0..(P - 1), k \in S PROVE k + 1 \in S
  <2>1. k + 1 \in 1..P /\ (k + 1) - 1 = k /\ k + 1 \in 0..P /\ k \in 0..P
    BY Widths
  <2> DEFINE x == Shifted(n)[k]
             y == Shifted(n)[k + 1]
             p == Power[k]
  <2>2. y = x \div B /\ Power[k + 1] = B * p
    BY <1>1, <2>1, ShiftedDef, PowerDef
  <2>3. x \in Nat /\ y \in Nat /\ p \in Nat /\ x * p <= n
    BY <1>1, <1>3, <2>1, ShiftedDef, PowerDef
  <2> HIDE DEF x, y, p
  <2>4. y * B \in Nat /\ y * B <= x
    BY <2>2, <2>3, Widths
  <2>5. (y * B) * p <= x * p
    BY <2>3, <2>4, ProductMonotone
  <2>6. y * (B * p) = (y * B) * p /\ x * p \in Nat /\ (y * B) * p \in Nat
    BY <2>3, Widths
  <2>7. y * Power[k + 1] <= n
    BY <1>1, <2>2, <2>3, <2>5, <2>6
  <2> QED BY <2>1, <2>7 DEF y
<1> HIDE DEF S
<1>4. P \in S
  <2>1. \A k \in 0..P : k \in S
    BY <1>2, <1>3, Widths, UpTo
  <2> QED BY <2>1, Widths
<1> DEFINE q == Shifted(n)[P]
<1>5. q \in Nat /\ q * Power[P] <= n
  BY <1>1, <1>4, ShiftedDef, Widths DEF S
<1> HIDE DEF q
<1>6. ASSUME q >= 1 PROVE FALSE
  <2>1. 1 * Power[P] <= q * Power[P]
    BY <1>1, <1>5, <1>6, ProductMonotone
  <2>2. 1 * Power[P] = Power[P] /\ q * Power[P] \in Nat
    BY <1>1, <1>5
  <2> QED BY <1>1, <1>5, <2>1, <2>2
<1>7. q = 0
  BY <1>5, <1>6
<1> QED BY <1>7 DEF q

\* Reading takes the bytes from the most significant on.
LEMMA HornerDef ==
  ASSUME NEW b \in Seq(Bytes), NEW pos \in Nat, pos + P <= Len(b)
  PROVE  /\ Horner(b, pos)[0] = 0
         /\ \A k \in 1..P : /\ Horner(b, pos)[k] = Horner(b, pos)[k - 1] * B + b[pos + P - k + 1]
                            /\ b[pos + P - k + 1] \in Bytes
         /\ \A k \in 0..P : Horner(b, pos)[k] \in Nat
<1> DEFINE next == [k \in 1..P |-> [x \in Nat |-> x * B + b[pos + P - k + 1]]]
<1>1. \A k \in 1..P : b[pos + P - k + 1] \in Bytes
  <2>1. \A k \in 1..P : pos + P - k + 1 \in 1..Len(b)
    BY Widths
  <2> QED BY <2>1
<1>2. \A k \in 1..P : \A x \in Nat : x * B + b[pos + P - k + 1] \in Nat
  <2>1. \A x \in Nat : x * B \in Nat
    BY Widths
  <2>2. Bytes \subseteq Nat
    BY Widths DEF Bytes
  <2> SUFFICES ASSUME NEW k \in 1..P, NEW x \in Nat
               PROVE  x * B + b[pos + P - k + 1] \in Nat
    OBVIOUS
  <2>3. x * B \in Nat /\ b[pos + P - k + 1] \in Nat
    BY <1>1, <2>1, <2>2
  <2> QED BY <2>3
<1>3. next \in [1..P -> [Nat -> Nat]]
  BY <1>2
<1> HIDE DEF next
<1>4. PICK f : Follows(f, P, Nat, 0, next)
  BY <1>3, Widths, Recursion
<1>5. \A k \in 1..P : f[k] = f[k - 1] * B + b[pos + P - k + 1]
  <2>1. \A k \in 1..P : k - 1 \in 0..P
    BY Widths
  <2> QED BY <1>4, <2>1 DEF next, Follows
<1>6. f = [k \in 0..P |-> IF k = 0 THEN 0 ELSE f[k - 1] * B + b[pos + P - k + 1]]
  <2>1. \A k \in 0..P : k # 0 => k \in 1..P
    BY Widths
  <2> QED BY <1>4, <1>5, <2>1 DEF Follows
<1> DEFINE h == Horner(b, pos)
<1>7. h = [k \in 0..P |-> IF k = 0 THEN 0 ELSE h[k - 1] * B + b[pos + P - k + 1]]
  BY <1>6 DEF Horner
<1> HIDE DEF h
<1>8. h[0] = 0 /\ \A k \in 1..P : h[k] = h[k - 1] * B + b[pos + P - k + 1]
  BY <1>7, Widths
<1>9. \A k \in 0..P : h[k] \in Nat
  <2>1. \A k \in 1..P : h[k - 1] \in Nat => h[k] \in Nat
    BY <1>2, <1>8
  <2>2. h[0] \in Nat /\ P \in Nat
    BY <1>8, Widths
  <2> QED BY <2>1, <2>2, Inherited
<1> QED BY <1>1, <1>8, <1>9 DEF h

LEMMA HornerBound ==
  ASSUME NEW b \in Seq(Bytes), NEW pos \in Nat, pos + P <= Len(b)
  PROVE  Horner(b, pos)[P] \in Lengths
<1> DEFINE h == Horner(b, pos)
           S == {k \in 0..P : h[k] < Power[k]}
<1>1. 0 \in S
  BY HornerDef, PowerDef, Widths
<1>2. ASSUME NEW k \in 0..(P - 1), k \in S PROVE k + 1 \in S
  <2>1. k + 1 \in 1..P /\ (k + 1) - 1 = k /\ k + 1 \in 0..P /\ k \in 0..P
    BY Widths
  <2> DEFINE d == b[pos + P - (k + 1) + 1]
             v == h[k]
             p == Power[k]
  <2>2. h[k + 1] = v * B + d /\ d \in Bytes /\ v \in Nat
    BY <2>1, HornerDef
  <2>3. Power[k + 1] = B * p /\ p \in Nat
    BY <2>1, PowerDef
  <2>4. v < p
    BY <1>2
  <2> HIDE DEF d, v, p, h
  <2>5. d \in Nat /\ d < B
    BY <2>2, Widths DEF Bytes
  <2>6. (v + 1) * B <= p * B
    BY <2>2, <2>3, <2>4, Widths, ProductMonotone
  <2>7. (v + 1) * B = v * B + B /\ p * B = B * p /\ v * B \in Nat /\ B * p \in Nat
    BY <2>2, <2>3, Widths
  <2>8. h[k + 1] < Power[k + 1]
    BY <2>2, <2>3, <2>5, <2>6, <2>7, Widths
  <2> QED BY <2>1, <2>8
<1> HIDE DEF S
<1>3. P \in S
  <2>1. \A k \in 0..P : k \in S
    BY <1>1, <1>2, Widths, UpTo
  <2> QED BY <2>1, Widths
<1>4. h[P] \in Nat
  BY HornerDef, Widths
<1> QED BY <1>3, <1>4, LengthsAreNat DEF S

\* A length that was written is read back.
LEMMA ReadWritten ==
  ASSUME NEW b \in Seq(Bytes), NEW pos \in Nat, pos + P <= Len(b), NEW n \in Lengths,
         \A k \in 1..P : b[pos + k] = Word(n)[k]
  PROVE  ReadWord(b, pos) = n
<1> DEFINE h == Horner(b, pos)
           q == Shifted(n)
           S == {k \in 0..P : h[k] = q[P - k]}
<1>1. n \in Nat
  BY LengthsAreNat
<1>2. 0 \in S
  BY HornerDef, ShiftedOut, Widths
<1>3. ASSUME NEW k \in 0..(P - 1), k \in S PROVE k + 1 \in S
  <2> DEFINE j == P - k
  <2>1. j \in 1..P /\ j - 1 \in 0..P /\ P - (k + 1) = j - 1 /\ k + 1 \in 1..P
        /\ (k + 1) - 1 = k /\ pos + P - (k + 1) + 1 = pos + j /\ k + 1 \in 0..P
    BY Widths
  <2>2. h[k + 1] = h[k] * B + b[pos + j]
    BY <2>1, HornerDef
  <2>3. b[pos + j] = q[j - 1] % B
    BY <1>1, <2>1, WordDef
  <2>4. h[k] = q[j - 1] \div B
    BY <1>1, <1>3, <2>1, ShiftedDef
  <2>5. q[j - 1] \in Nat
    BY <1>1, <2>1, ShiftedDef
  <2> HIDE DEF j, h, q
  <2>6. h[k + 1] = q[j - 1]
    <3> DEFINE x == q[j - 1]
    <3>1. (x \div B) * B + (x % B) = x
      BY <2>5, QuotientAndRest
    <3>2. h[k + 1] = (x \div B) * B + (x % B)
      BY <2>2, <2>3, <2>4
    <3> QED BY <3>1, <3>2
  <2> QED BY <2>1, <2>6
<1> HIDE DEF S
<1>4. P \in S
  <2>1. \A k \in 0..P : k \in S
    BY <1>2, <1>3, Widths, UpTo
  <2> QED BY <2>1, Widths
<1>5. h[P] = q[0]
  BY <1>4, Widths DEF S
<1>6. h[P] = n
  BY <1>1, <1>5, ShiftedDef
<1> QED BY <1>6, Widths DEF ReadWord

\* Whatever lies there is the word of the length that is read.
LEMMA WordOfRead ==
  ASSUME NEW b \in Seq(Bytes), NEW pos \in Nat, pos + P <= Len(b)
  PROVE  /\ ReadWord(b, pos) \in Lengths
         /\ \A k \in 1..P : b[pos + k] = Word(ReadWord(b, pos))[k]
<1> DEFINE h == Horner(b, pos)
           n == ReadWord(b, pos)
           q == Shifted(n)
           S == {k \in 0..P : q[k] = h[P - k]}
<1>1. n = h[P] /\ n \in Lengths /\ n \in Nat
  <2>1. ~(pos + P > Len(b))
    BY Widths
  <2>2. n = h[P]
    BY <2>1 DEF ReadWord
  <2> QED BY <2>2, HornerBound, LengthsAreNat
<1> HIDE DEF n
<1>2. 0 \in S
  BY <1>1, ShiftedDef, Widths
<1>3. ASSUME NEW k \in 0..(P - 1), k \in S
      PROVE  k + 1 \in S /\ q[k] % B = b[pos + k + 1]
  <2> DEFINE j == P - k
  <2>1. j \in 1..P /\ j - 1 \in 0..P /\ P - (k + 1) = j - 1 /\ k + 1 \in 1..P
        /\ (k + 1) - 1 = k /\ pos + P - j + 1 = pos + k + 1 /\ k + 1 \in 0..P
    BY Widths
  <2>2. h[j] = h[j - 1] * B + b[pos + k + 1] /\ b[pos + k + 1] \in Bytes
    BY <2>1, HornerDef
  <2>3. h[j - 1] \in Nat
    BY <2>1, HornerDef
  <2>4. q[k] = h[j] /\ q[k + 1] = q[k] \div B
    BY <1>1, <1>3, <2>1, ShiftedDef
  <2> DEFINE v == h[j - 1]
             d == b[pos + k + 1]
  <2>5. d \in Nat /\ d < B /\ v \in Nat
    <3> \A x \in Bytes : x \in Nat /\ x < B
      BY Widths DEF Bytes
    <3> HIDE DEF h
    <3> QED BY <2>2, <2>3
  <2>6. q[k] = v * B + d
    BY <2>2, <2>4
  <2> HIDE DEF v, d, j, h, q
  <2>7. (v * B + d) \div B = v /\ (v * B + d) % B = d
    BY <2>5, Widths
  <2>8. q[k + 1] = h[P - (k + 1)]
    BY <2>1, <2>4, <2>6, <2>7 DEF v
  <2> QED BY <2>1, <2>6, <2>7, <2>8 DEF d
<1> HIDE DEF S
<1>4. \A k \in 0..P : k \in S
  BY <1>2, <1>3, Widths, UpTo
<1>5. ASSUME NEW k \in 1..P PROVE b[pos + k] = Word(n)[k]
  <2>1. k - 1 \in 0..(P - 1) /\ k - 1 \in 0..P /\ pos + (k - 1) + 1 = pos + k
    BY Widths
  <2>2. q[k - 1] % B = b[pos + k]
    BY <1>3, <1>4, <2>1
  <2> QED BY <1>1, <2>2, WordDef
<1> QED BY <1>1, <1>5 DEF n

----------------------------------------------------------------------------
\* Where byte strings lie.

Strings == {t \in Seq(Bytes) : Len(t) \in Lengths}

\* x lies in b behind the first pos bytes.
Lies(b, pos, x) == pos + Len(x) <= Len(b) /\ \A i \in 1..Len(x) : b[pos + i] = x[i]

LEMMA Joined ==
  ASSUME NEW x \in Seq(Bytes), NEW y \in Seq(Bytes)
  PROVE  x \o y \in Seq(Bytes) /\ Len(x \o y) = Len(x) + Len(y) /\ Len(x) \in Nat /\ Len(y) \in Nat
  OBVIOUS

LEMMA LiesBehind ==
  ASSUME NEW b \in Seq(Bytes), NEW pos \in Nat, NEW x \in Seq(Bytes), NEW y \in Seq(Bytes)
  PROVE  Lies(b, pos, x \o y) <=> Lies(b, pos, x) /\ Lies(b, pos + Len(x), y)
<1>1. /\ Len(x) \in Nat /\ Len(y) \in Nat /\ Len(b) \in Nat /\ Len(x \o y) = Len(x) + Len(y)
      /\ \A i \in 1..Len(x) : (x \o y)[i] = x[i]
      /\ \A i \in 1..Len(y) : (x \o y)[Len(x) + i] = y[i]
  OBVIOUS
<1>2. ASSUME Lies(b, pos, x \o y)
      PROVE  Lies(b, pos, x) /\ Lies(b, pos + Len(x), y)
  <2>1. \A i \in 1..Len(x) : i \in 1..Len(x \o y)
    BY <1>1
  <2>2. \A i \in 1..Len(y) : Len(x) + i \in 1..Len(x \o y) /\ (pos + Len(x)) + i = pos + (Len(x) + i)
    BY <1>1
  <2>3. \A i \in 1..Len(x) : b[pos + i] = x[i]
    BY <1>1, <1>2, <2>1 DEF Lies
  <2>4. \A i \in 1..Len(y) : b[(pos + Len(x)) + i] = y[i]
    BY <1>1, <1>2, <2>2 DEF Lies
  <2>5. pos + Len(x) <= Len(b) /\ (pos + Len(x)) + Len(y) <= Len(b)
    BY <1>1, <1>2 DEF Lies
  <2> QED BY <2>3, <2>4, <2>5 DEF Lies
<1>3. ASSUME Lies(b, pos, x), Lies(b, pos + Len(x), y)
      PROVE  Lies(b, pos, x \o y)
  <2>1. pos + Len(x \o y) <= Len(b)
    BY <1>1, <1>3 DEF Lies
  <2>2. ASSUME NEW i \in 1..Len(x \o y) PROVE b[pos + i] = (x \o y)[i]
    <3>1. CASE i \in 1..Len(x)
      BY <1>1, <1>3, <3>1 DEF Lies
    <3>2. CASE i \notin 1..Len(x)
      <4>1. i - Len(x) \in 1..Len(y) /\ Len(x) + (i - Len(x)) = i
            /\ (pos + Len(x)) + (i - Len(x)) = pos + i
        BY <1>1, <3>2
      <4>2. b[(pos + Len(x)) + (i - Len(x))] = y[i - Len(x)]
        BY <1>3, <4>1 DEF Lies
      <4>3. (x \o y)[Len(x) + (i - Len(x))] = y[i - Len(x)]
        BY <1>1, <4>1
      <4> QED BY <4>1, <4>2, <4>3
    <3> QED BY <3>1, <3>2
  <2> QED BY <2>1, <2>2 DEF Lies
<1> QED BY <1>2, <1>3

LEMMA PrefixLies ==
  ASSUME NEW x \in Seq(Bytes), NEW b \in Seq(Bytes)
  PROVE  IsPrefix(x, b) <=> Lies(b, 0, x)
<1>1. Len(x) \in Nat /\ Len(b) \in Nat /\ SubSeq(x, 1, Len(x)) = x
  OBVIOUS
<1>2. CASE Len(x) <= Len(b)
  <2> DEFINE p == SubSeq(b, 1, Len(x))
  <2>1. p \in Seq(Bytes) /\ Len(p) = Len(x) /\ \A i \in 1..Len(x) : p[i] = b[i]
    BY <1>1, <1>2
  <2> HIDE DEF p
  <2>2. x = p <=> \A i \in 1..Len(x) : x[i] = p[i]
    BY <2>1, SeqEqual
  <2>3. IsPrefix(x, b) <=> x = p
    BY <1>1, <1>2 DEF IsPrefix, p
  <2>4. Lies(b, 0, x) <=> \A i \in 1..Len(x) : x[i] = p[i]
    BY <1>1, <1>2, <2>1 DEF Lies
  <2> QED BY <2>2, <2>3, <2>4
<1>3. CASE ~(Len(x) <= Len(b))
  BY <1>1, <1>3 DEF IsPrefix, Lies
<1> QED BY <1>2, <1>3

LEMMA EntryDef ==
  ASSUME NEW t \in Strings
  PROVE  /\ Len(t) \in Nat /\ t \in Seq(Bytes)
         /\ Word(Len(t)) \in Seq(Bytes) /\ Len(Word(Len(t))) = P
         /\ Entry(t) \in Seq(Bytes) /\ Len(Entry(t)) = P + Len(t)
<1>1. t \in Seq(Bytes) /\ Len(t) \in Nat
  BY DEF Strings
<1>2. Word(Len(t)) \in Seq(Bytes) /\ Len(Word(Len(t))) = P
  BY <1>1, WordDef
<1> QED BY <1>1, <1>2, Widths DEF Entry

\* An entry is read back.
LEMMA EntryRead ==
  ASSUME NEW b \in Seq(Bytes), NEW pos \in Nat, NEW t \in Strings, Lies(b, pos, Entry(t))
  PROVE  /\ ReadWord(b, pos) = Len(t) /\ pos + P + Len(t) <= Len(b)
         /\ Slice(b, pos + P, Len(t)) = t
<1> DEFINE w == Word(Len(t))
<1>1. w \in Seq(Bytes) /\ Len(w) = P /\ t \in Seq(Bytes) /\ Len(t) \in Lengths /\ Len(t) \in Nat
      /\ Len(b) \in Nat
  BY EntryDef DEF Strings
<1> HIDE DEF w
<1>2. Lies(b, pos, w) /\ Lies(b, pos + P, t)
  <2>1. Lies(b, pos, w \o t)
    BY DEF Entry, w
  <2> QED BY <1>1, <2>1, LiesBehind
<1>3. pos + P <= Len(b) /\ pos + P + Len(t) <= Len(b)
  BY <1>1, <1>2 DEF Lies
<1>4. ReadWord(b, pos) = Len(t)
  <2>1. \A k \in 1..P : b[pos + k] = Word(Len(t))[k]
    BY <1>1, <1>2 DEF Lies, w
  <2> QED BY <1>1, <1>3, <2>1, ReadWritten
<1>5. Slice(b, pos + P, Len(t)) = t
  <2> DEFINE s == SubSeq(b, pos + P + 1, pos + P + Len(t))
  <2>1. s \in Seq(Bytes) /\ Len(s) = Len(t) /\ \A i \in 1..Len(t) : s[i] = b[pos + P + i]
    BY <1>1, <1>3, Widths
  <2>2. \A i \in 1..Len(t) : s[i] = t[i]
    BY <1>2, <2>1 DEF Lies
  <2> HIDE DEF s
  <2>3. s = t
    BY <1>1, <2>1, <2>2, SeqEqual
  <2> QED BY <2>3 DEF s, Slice
<1> QED BY <1>3, <1>4, <1>5

\* What is read is an entry that lies there.
LEMMA EntryFound ==
  ASSUME NEW b \in Seq(Bytes), NEW pos \in Nat, ReadWord(b, pos) # -1,
         pos + P + ReadWord(b, pos) <= Len(b)
  PROVE  LET t == Slice(b, pos + P, ReadWord(b, pos))
         IN  t \in Strings /\ Len(t) = ReadWord(b, pos) /\ Lies(b, pos, Entry(t))
<1> DEFINE n == ReadWord(b, pos)
           t == Slice(b, pos + P, n)
<1>1. Len(b) \in Nat /\ pos + P <= Len(b)
  <2>1. Len(b) \in Nat
    OBVIOUS
  <2> QED BY <2>1, Widths DEF ReadWord
<1>2. n \in Lengths /\ n \in Nat /\ \A k \in 1..P : b[pos + k] = Word(n)[k]
  BY <1>1, WordOfRead, LengthsAreNat
<1>3. pos + P + n <= Len(b)
  OBVIOUS
<1> HIDE DEF n
<1>4. t \in Seq(Bytes) /\ Len(t) = n /\ \A i \in 1..n : t[i] = b[pos + P + i]
  <2> DEFINE j == pos + P
  <2>1. j \in Nat /\ j + n <= Len(b) /\ j + 1 >= 1
    BY <1>2, <1>3, Widths
  <2> HIDE DEF j
  <2>2. SubSeq(b, j + 1, j + n) \in Seq(Bytes) /\ Len(SubSeq(b, j + 1, j + n)) = n
    BY <1>1, <1>2, <2>1
  <2>3. \A i \in 1..n : SubSeq(b, j + 1, j + n)[i] = b[j + i]
    BY <1>1, <1>2, <2>1
  <2> QED BY <2>2, <2>3 DEF Slice, j
<1> HIDE DEF t
<1>5. t \in Strings
  BY <1>2, <1>4 DEF Strings
<1>6. Lies(b, pos, Word(n))
  BY <1>1, <1>2, WordDef DEF Lies
<1>7. Lies(b, pos + P, t)
  BY <1>1, <1>2, <1>3, <1>4 DEF Lies
<1>8. Lies(b, pos, Word(n) \o t)
  BY <1>2, <1>4, <1>6, <1>7, WordDef, LiesBehind
<1>9. Entry(t) = Word(n) \o t
  BY <1>4 DEF Entry
<1> QED BY <1>4, <1>5, <1>8, <1>9 DEF t, n

----------------------------------------------------------------------------
\* Entries one behind the other.

LEMMA EntriesDef ==
  ASSUME NEW bs \in Seq(Strings)
  PROVE  /\ Len(bs) \in Nat /\ Entries(bs)[0] = <<>>
         /\ \A k \in 1..Len(bs) : Entries(bs)[k] = Entries(bs)[k - 1] \o Entry(bs[k])
         /\ \A k \in 1..Len(bs) : bs[k] \in Strings /\ Entry(bs[k]) \in Seq(Bytes)
         /\ \A k \in 0..Len(bs) : Entries(bs)[k] \in Seq(Bytes)
<1> DEFINE V == Seq(Bytes)
           next == [k \in 1..Len(bs) |-> [x \in V |-> x \o Entry(bs[k])]]
<1>1. Len(bs) \in Nat /\ \A k \in 1..Len(bs) : bs[k] \in Strings
  OBVIOUS
<1>2. \A k \in 1..Len(bs) : Entry(bs[k]) \in V
  BY <1>1, EntryDef
<1>3. <<>> \in V
  OBVIOUS
<1>4. next \in [1..Len(bs) -> [V -> V]]
  <2>1. \A x, y \in V : x \o y \in V
    OBVIOUS
  <2> QED BY <1>2, <2>1
<1> HIDE DEF next, V
<1>5. PICK f : Follows(f, Len(bs), V, <<>>, next)
  BY <1>1, <1>3, <1>4, Recursion
<1>6. \A k \in 1..Len(bs) : f[k] = f[k - 1] \o Entry(bs[k])
  <2>1. \A k \in 1..Len(bs) : k - 1 \in 0..Len(bs)
    BY <1>1
  <2> QED BY <1>5, <2>1 DEF next, Follows
<1>7. f = [k \in 0..Len(bs) |-> IF k = 0 THEN <<>> ELSE f[k - 1] \o Entry(bs[k])]
  <2>1. \A k \in 0..Len(bs) : k # 0 => k \in 1..Len(bs)
    BY <1>1
  <2> QED BY <1>5, <1>6, <2>1 DEF Follows
<1> DEFINE e == Entries(bs)
<1>8. e = [k \in 0..Len(bs) |-> IF k = 0 THEN <<>> ELSE e[k - 1] \o Entry(bs[k])]
  BY <1>7 DEF Entries
<1> HIDE DEF e
<1>9. e[0] = <<>> /\ \A k \in 1..Len(bs) : e[k] = e[k - 1] \o Entry(bs[k])
  BY <1>1, <1>8
<1>10. \A k \in 0..Len(bs) : e[k] \in V
  <2>1. \A x, y \in V : x \o y \in V
    BY DEF V
  <2>2. e[0] \in V /\ \A k \in 1..Len(bs) : e[k - 1] \in V => e[k] \in V
    BY <1>2, <1>3, <1>9, <2>1
  <2> QED BY <1>1, <2>2, Inherited
<1> QED BY <1>1, <1>2, <1>9, <1>10 DEF e, V

\* The first n entries depend on the first n strings.
LEMMA EntriesAgree ==
  ASSUME NEW bs \in Seq(Strings), NEW cs \in Seq(Strings), NEW n \in Nat,
         n <= Len(bs), n <= Len(cs), \A k \in 1..n : bs[k] = cs[k]
  PROVE  \A k \in 0..n : Entries(bs)[k] = Entries(cs)[k]
<1> DEFINE S == {k \in 0..n : Entries(bs)[k] = Entries(cs)[k]}
<1>1. 0 \in S
  <2>1. Entries(bs)[0] = <<>> /\ Entries(cs)[0] = <<>>
    BY EntriesDef
  <2> QED BY <2>1
<1>2. ASSUME NEW k \in 0..(n - 1), k \in S PROVE k + 1 \in S
  <2>1. k + 1 \in 1..n /\ k + 1 \in 1..Len(bs) /\ k + 1 \in 1..Len(cs) /\ (k + 1) - 1 = k
        /\ k + 1 \in 0..n
    <3>1. Len(bs) \in Nat /\ Len(cs) \in Nat
      OBVIOUS
    <3> QED BY <3>1
  <2>2. Entries(bs)[k + 1] = Entries(bs)[k] \o Entry(bs[k + 1])
    BY <2>1, EntriesDef
  <2>3. Entries(cs)[k + 1] = Entries(cs)[k] \o Entry(cs[k + 1])
    BY <2>1, EntriesDef
  <2> QED BY <1>2, <2>1, <2>2, <2>3
<1> HIDE DEF S
<1>3. \A k \in 0..n : k \in S
  BY <1>1, <1>2, UpTo
<1> QED BY <1>3 DEF S

LEMMA EntriesAppend ==
  ASSUME NEW bs \in Seq(Strings), NEW t \in Strings
  PROVE  LET cs == Append(bs, t)
         IN  cs \in Seq(Strings) /\ Len(cs) = Len(bs) + 1
             /\ Entries(cs)[Len(cs)] = Entries(bs)[Len(bs)] \o Entry(t)
<1> DEFINE cs == Append(bs, t)
<1>1. /\ Len(bs) \in Nat /\ cs \in Seq(Strings) /\ Len(cs) = Len(bs) + 1
      /\ cs[Len(bs) + 1] = t /\ \A k \in 1..Len(bs) : cs[k] = bs[k]
  OBVIOUS
<1> HIDE DEF cs
<1>2. Entries(cs)[Len(bs)] = Entries(bs)[Len(bs)]
  <2>1. Len(bs) <= Len(bs) /\ Len(bs) <= Len(cs) /\ Len(bs) \in 0..Len(bs)
    BY <1>1
  <2> QED BY <1>1, <2>1, EntriesAgree
<1>3. Len(bs) + 1 \in 1..Len(cs) /\ (Len(bs) + 1) - 1 = Len(bs)
  BY <1>1
<1>4. Entries(cs)[Len(bs) + 1] = Entries(cs)[Len(bs)] \o Entry(t)
  BY <1>1, <1>3, EntriesDef
<1> QED BY <1>1, <1>2, <1>4 DEF cs

\* Where the first n entries lie, the first k of them do.
LEMMA EntriesLie ==
  ASSUME NEW b \in Seq(Bytes), NEW pos \in Nat, NEW bs \in Seq(Strings), NEW n \in 0..Len(bs),
         Lies(b, pos, Entries(bs)[n])
  PROVE  \A k \in 0..n : Lies(b, pos, Entries(bs)[k])
<1> DEFINE S == {j \in 0..n : Lies(b, pos, Entries(bs)[n - j])}
<1>1. n \in Nat /\ n - 0 = n /\ Len(bs) \in Nat
  BY EntriesDef
<1>2. 0 \in S
  BY <1>1
<1>3. ASSUME NEW j \in 0..(n - 1), j \in S PROVE j + 1 \in S
  <2> DEFINE k == n - j
  <2>1. k \in 1..Len(bs) /\ k - 1 \in 0..Len(bs) /\ n - (j + 1) = k - 1 /\ j + 1 \in 0..n
    BY <1>1
  <2>2. Lies(b, pos, Entries(bs)[k])
    BY <1>3
  <2> HIDE DEF k
  <2>3. /\ Entries(bs)[k] = Entries(bs)[k - 1] \o Entry(bs[k])
        /\ Entries(bs)[k - 1] \in Seq(Bytes) /\ Entry(bs[k]) \in Seq(Bytes)
    BY <2>1, EntriesDef
  <2>4. Lies(b, pos, Entries(bs)[k - 1])
    BY <2>2, <2>3, LiesBehind
  <2> QED BY <2>1, <2>4
<1> HIDE DEF S
<1>4. \A j \in 0..n : j \in S
  BY <1>1, <1>2, <1>3, UpTo
<1>5. ASSUME NEW k \in 0..n PROVE Lies(b, pos, Entries(bs)[k])
  <2>1. n - k \in 0..n /\ n - (n - k) = k
    BY <1>1
  <2> QED BY <1>4, <2>1 DEF S
<1> QED BY <1>5

----------------------------------------------------------------------------
\* The loop of parse_aux.

Steps == [pos : Nat, metas : Seq(Strings), ok : BOOLEAN]

LEMMA EntryParsed ==
  ASSUME NEW b \in Seq(Bytes), NEW s \in Steps, s.ok,
         NEW t \in Strings, Lies(b, s.pos, Entry(t))
  PROVE  ParseEntry(b, s) = [pos |-> s.pos + P + Len(t), metas |-> Append(s.metas, t), ok |-> TRUE]
<1>1. s.pos \in Nat /\ Len(t) \in Nat /\ Len(b) \in Nat
  BY EntryDef DEF Steps
<1>2. /\ ReadWord(b, s.pos) = Len(t) /\ s.pos + P + Len(t) <= Len(b)
      /\ Slice(b, s.pos + P, Len(t)) = t
  BY <1>1, EntryRead
<1>3. Len(t) # -1 /\ ~(s.pos + P + Len(t) > Len(b))
  BY <1>1, <1>2, Widths
<1> QED BY <1>2, <1>3 DEF ParseEntry

LEMMA EntryMissing ==
  ASSUME NEW b \in Seq(Bytes), NEW s \in Steps,
         s.ok => \A t \in Strings : ~Lies(b, s.pos, Entry(t))
  PROVE  ParseEntry(b, s) = [s EXCEPT !.ok = FALSE]
<1>1. s.pos \in Nat
  BY DEF Steps
<1>2. ~s.ok \/ ReadWord(b, s.pos) = -1 \/ s.pos + P + ReadWord(b, s.pos) > Len(b)
  <2> SUFFICES ASSUME s.ok, ReadWord(b, s.pos) # -1, ~(s.pos + P + ReadWord(b, s.pos) > Len(b))
               PROVE  FALSE
    OBVIOUS
  <2> DEFINE n == ReadWord(b, s.pos)
  <2>1. s.pos + P <= Len(b) /\ Len(b) \in Nat
    <3>1. Len(b) \in Nat
      OBVIOUS
    <3> QED BY <1>1, <3>1, Widths DEF ReadWord
  <2>2. n \in Nat
    BY <1>1, <2>1, WordOfRead, LengthsAreNat
  <2> HIDE DEF n
  <2>3. s.pos + P + n <= Len(b)
    BY <1>1, <2>1, <2>2, Widths DEF n
  <2> QED BY <1>1, <2>3, EntryFound DEF n
<1> QED BY <1>2 DEF ParseEntry

LEMMA ParsedType ==
  ASSUME NEW b \in Seq(Bytes), NEW s \in Steps
  PROVE  ParseEntry(b, s) \in Steps
<1>1. CASE s.ok /\ \E t \in Strings : Lies(b, s.pos, Entry(t))
  <2>1. PICK t \in Strings : Lies(b, s.pos, Entry(t))
    BY <1>1
  <2>2. /\ s.pos + P + Len(t) \in Nat /\ Append(s.metas, t) \in Seq(Strings)
    BY EntryDef, Widths DEF Steps
  <2>3. ParseEntry(b, s) = [pos |-> s.pos + P + Len(t), metas |-> Append(s.metas, t), ok |-> TRUE]
    BY <1>1, <2>1, EntryParsed
  <2> QED BY <2>2, <2>3 DEF Steps
<1>2. CASE ~(s.ok /\ \E t \in Strings : Lies(b, s.pos, Entry(t)))
  <2>1. ParseEntry(b, s) = [s EXCEPT !.ok = FALSE]
    BY <1>2, EntryMissing
  <2>2. [s EXCEPT !.ok = FALSE] \in Steps
    BY DEF Steps
  <2> QED BY <2>1, <2>2
<1> QED BY <1>1, <1>2

LEMMA ParsedDef ==
  ASSUME NEW b \in Seq(Bytes), NEW start \in Nat, NEW n \in Nat
  PROVE  /\ Parsed(b, start, n)[0] = [pos |-> start, metas |-> <<>>, ok |-> TRUE]
         /\ \A k \in 1..n : Parsed(b, start, n)[k] = ParseEntry(b, Parsed(b, start, n)[k - 1])
         /\ \A k \in 0..n : Parsed(b, start, n)[k] \in Steps
<1> DEFINE first == [pos |-> start, metas |-> <<>>, ok |-> TRUE]
           next == [k \in 1..n |-> [s \in Steps |-> ParseEntry(b, s)]]
<1>1. first \in Steps
  BY DEF Steps
<1>2. next \in [1..n -> [Steps -> Steps]]
  BY ParsedType
<1> HIDE DEF first, next
<1>3. PICK f : Follows(f, n, Steps, first, next)
  BY <1>1, <1>2, Recursion
<1>4. \A k \in 1..n : f[k] = ParseEntry(b, f[k - 1])
  <2>1. \A k \in 1..n : k - 1 \in 0..n
    OBVIOUS
  <2> QED BY <1>3, <2>1 DEF next, Follows
<1>5. f = [k \in 0..n |-> IF k = 0 THEN first ELSE ParseEntry(b, f[k - 1])]
  <2>1. \A k \in 0..n : k # 0 => k \in 1..n
    OBVIOUS
  <2> QED BY <1>3, <1>4, <2>1 DEF Follows
<1> DEFINE p == Parsed(b, start, n)
<1>6. p = [k \in 0..n |-> IF k = 0 THEN first ELSE ParseEntry(b, p[k - 1])]
  BY <1>5 DEF Parsed, first
<1> HIDE DEF p
<1>7. p[0] = first /\ \A k \in 1..n : p[k] = ParseEntry(b, p[k - 1])
  BY <1>6
<1>8. \A k \in 0..n : p[k] \in Steps
  <2>1. p[0] \in Steps /\ \A k \in 1..n : p[k - 1] \in Steps => p[k] \in Steps
    BY <1>1, <1>7, ParsedType
  <2> QED BY <2>1, Inherited
<1> QED BY <1>7, <1>8 DEF p, first

\* Entries that were written are read back, all of them.
LEMMA ParsesWritten ==
  ASSUME NEW b \in Seq(Bytes), NEW start \in Nat, NEW bs \in Seq(Strings), NEW n \in 0..Len(bs),
         Lies(b, start, Entries(bs)[n])
  PROVE  Parsed(b, start, n)[n].metas = SubSeq(bs, 1, n)
<1> DEFINE p == Parsed(b, start, n)
           e == Entries(bs)
           at(k) == [pos |-> start + Len(e[k]), metas |-> SubSeq(bs, 1, k), ok |-> TRUE]
           S == {k \in 0..n : p[k] = at(k)}
<1>1. n \in Nat /\ Len(bs) \in Nat
  BY EntriesDef
<1>2. 0 \in S
  <2>1. Len(e[0]) = 0
    <3>1. e[0] = <<>>
      BY EntriesDef
    <3> HIDE DEF e
    <3> QED BY <3>1
  <2>2. SubSeq(bs, 1, 0) = <<>>
    OBVIOUS
  <2>3. p[0] = [pos |-> start, metas |-> <<>>, ok |-> TRUE]
    BY <1>1, ParsedDef
  <2> HIDE DEF p, e
  <2>4. p[0] = at(0)
    <3>1. start + Len(e[0]) = start
      BY <2>1
    <3> QED BY <2>2, <2>3, <3>1
  <2> QED BY <1>1, <2>4
<1>3. ASSUME NEW k \in 0..(n - 1), k \in S PROVE k + 1 \in S
  <2>1. k \in 0..n /\ k + 1 \in 0..n /\ k + 1 \in 1..n /\ k + 1 \in 1..Len(bs) /\ (k + 1) - 1 = k
        /\ k \in 0..Len(bs)
    BY <1>1
  <2> DEFINE t == bs[k + 1]
  <2>2. /\ e[k + 1] = e[k] \o Entry(t) /\ e[k] \in Seq(Bytes) /\ t \in Strings
        /\ Entry(t) \in Seq(Bytes)
    BY <2>1, EntriesDef
  <2>3. Lies(b, start, e[k + 1])
    BY <2>1, EntriesLie
  <2>4. p[k] = at(k) /\ p[k + 1] = ParseEntry(b, p[k]) /\ p[k] \in Steps
    <3>1. p[k] = at(k)
      BY <1>3
    <3>2. p[k + 1] = ParseEntry(b, p[k]) /\ p[k] \in Steps
      <4>1. p[k + 1] = ParseEntry(b, p[(k + 1) - 1])
        BY <1>1, <2>1, ParsedDef
      <4>2. p[k] \in Steps
        BY <1>1, <2>1, ParsedDef
      <4> QED BY <2>1, <4>1, <4>2
    <3> QED BY <3>1, <3>2
  <2> HIDE DEF p, e, t
  <2>5. p[k].ok /\ p[k].pos = start + Len(e[k]) /\ p[k].metas = SubSeq(bs, 1, k)
    BY <2>4
  <2>6. Lies(b, p[k].pos, Entry(t))
    <3>1. Lies(b, start, e[k] \o Entry(t))
      BY <2>2, <2>3
    <3>2. Lies(b, start + Len(e[k]), Entry(t))
      BY <2>2, <3>1, LiesBehind
    <3> QED BY <2>5, <3>2
  <2>7. p[k + 1] = [pos |-> p[k].pos + P + Len(t), metas |-> Append(p[k].metas, t), ok |-> TRUE]
    BY <2>2, <2>4, <2>5, <2>6, EntryParsed
  <2>8. p[k].pos + P + Len(t) = start + Len(e[k + 1])
    <3>1. Len(Entry(t)) = P + Len(t) /\ Len(t) \in Nat
      BY <2>2, EntryDef
    <3>2. Len(e[k + 1]) = Len(e[k]) + Len(Entry(t)) /\ Len(e[k]) \in Nat
      BY <2>2
    <3> DEFINE m == Len(t)
               q == Len(Entry(t))
               r == Len(e[k])
    <3>3. p[k].pos = start + r
      BY <2>5
    <3>4. q = P + m /\ m \in Nat /\ Len(e[k + 1]) = r + q /\ r \in Nat
      BY <3>1, <3>2
    <3> HIDE DEF m, q, r
    <3>5. p[k].pos + P + m = start + Len(e[k + 1])
      BY <3>3, <3>4, Widths
    <3> QED BY <3>5 DEF m
  <2>9. Append(SubSeq(bs, 1, k), t) = SubSeq(bs, 1, k + 1)
    <3> DEFINE x == Append(SubSeq(bs, 1, k), t)
               y == SubSeq(bs, 1, k + 1)
    <3>1. Len(SubSeq(bs, 1, k)) = k /\ SubSeq(bs, 1, k) \in Seq(Strings)
      BY <1>1, <2>1
    <3>2. x \in Seq(Strings) /\ y \in Seq(Strings) /\ Len(x) = k + 1 /\ Len(y) = k + 1
      BY <1>1, <2>1, <2>2, <3>1
    <3>3. ASSUME NEW i \in 1..(k + 1) PROVE x[i] = y[i]
      <4>1. y[i] = bs[i]
        BY <1>1, <2>1
      <4>2. CASE i = k + 1
        BY <2>1, <3>1, <4>1, <4>2 DEF t
      <4>3. CASE i # k + 1
        BY <1>1, <2>1, <3>1, <4>1, <4>3
      <4> QED BY <4>2, <4>3
    <3> HIDE DEF x, y
    <3>4. x = y
      BY <3>2, <3>3, SeqEqual
    <3> QED BY <3>4 DEF x, y
  <2>10. p[k + 1] = at(k + 1)
    BY <2>5, <2>7, <2>8, <2>9
  <2> QED BY <2>1, <2>10
<1> HIDE DEF S
<1>4. n \in S
  <2>1. \A k \in 0..n : k \in S
    BY <1>1, <1>2, <1>3, UpTo
  <2> QED BY <1>1, <2>1
<1> QED BY <1>4 DEF S

\* What the loop has found after k of n entries, of any bytes: they lie there,
\* and when it has stopped no entry follows them.
Found(b, start, k, s) ==
  LET bytes == Entries(s.metas)[Len(s.metas)]
  IN  /\ s.pos = start + Len(bytes) /\ Lies(b, start, bytes)
      /\ s.ok => Len(s.metas) = k
      /\ ~s.ok => Len(s.metas) < k /\ \A t \in Strings : ~Lies(b, s.pos, Entry(t))

LEMMA ParsesAny ==
  ASSUME NEW b \in Seq(Bytes), NEW start \in Nat, start <= Len(b), NEW n \in Nat
  PROVE  Found(b, start, n, Parsed(b, start, n)[n])
<1> DEFINE p == Parsed(b, start, n)
           S == {k \in 0..n : Found(b, start, k, p[k])}
<1>1. 0 \in S
  <2>1. p[0] = [pos |-> start, metas |-> <<>>, ok |-> TRUE]
    BY ParsedDef
  <2> HIDE DEF p
  <2>2. p[0].pos = start /\ p[0].metas = <<>> /\ p[0].ok /\ Len(p[0].metas) = 0
    BY <2>1
  <2>3. <<>> \in Seq(Strings) /\ Len(<<>>) = 0
    OBVIOUS
  <2>4. Entries(<<>>)[0] = <<>>
    BY <2>3, EntriesDef
  <2>5. Lies(b, start, <<>>)
    BY DEF Lies
  <2>6. Found(b, start, 0, p[0])
    BY <2>2, <2>3, <2>4, <2>5 DEF Found
  <2> QED BY <2>6
<1>2. ASSUME NEW k \in 0..(n - 1), k \in S PROVE k + 1 \in S
  <2> DEFINE s == p[k]
             ms == s.metas
             bytes == Entries(ms)[Len(ms)]
  <2>1. k \in 0..n /\ k + 1 \in 0..n /\ k + 1 \in 1..n /\ (k + 1) - 1 = k
    OBVIOUS
  <2>2. p[k + 1] = ParseEntry(b, s) /\ s \in Steps
    <3>1. p[k + 1] = ParseEntry(b, p[(k + 1) - 1])
      BY <2>1, ParsedDef
    <3>2. s \in Steps
      BY <2>1, ParsedDef
    <3> QED BY <2>1, <3>1, <3>2
  <2>3. Found(b, start, k, s)
    BY <1>2
  <2> HIDE DEF p, s
  <2>4. s.pos \in Nat /\ ms \in Seq(Strings) /\ s.ok \in BOOLEAN /\ Len(ms) \in Nat
    BY <2>2 DEF Steps
  <2>5. s.pos = start + Len(bytes) /\ Lies(b, start, bytes) /\ bytes \in Seq(Bytes)
    <3>1. Len(ms) \in 0..Len(ms)
      BY <2>4
    <3> QED BY <2>3, <2>4, <3>1, EntriesDef DEF Found
  <2>6. CASE s.ok /\ \E t \in Strings : Lies(b, s.pos, Entry(t))
    <3>1. PICK t \in Strings : Lies(b, s.pos, Entry(t))
      BY <2>6
    <3>2. p[k + 1] = [pos |-> s.pos + P + Len(t), metas |-> Append(ms, t), ok |-> TRUE]
      BY <2>2, <2>6, <3>1, EntryParsed
    <3> DEFINE cs == Append(ms, t)
               more == Entries(cs)[Len(cs)]
    <3>3. cs \in Seq(Strings) /\ Len(cs) = Len(ms) + 1 /\ more = bytes \o Entry(t)
      BY <2>4, EntriesAppend
    <3>4. Entry(t) \in Seq(Bytes) /\ Len(Entry(t)) = P + Len(t) /\ Len(t) \in Nat
      BY EntryDef
    <3> HIDE DEF cs, more, bytes
    <3>5. Lies(b, start, more)
      BY <2>5, <3>1, <3>3, <3>4, LiesBehind
    <3>6. Len(more) = Len(bytes) + P + Len(t)
      <4>1. Len(bytes \o Entry(t)) = Len(bytes) + Len(Entry(t)) /\ Len(bytes) \in Nat
        BY <2>5, <3>4
      <4> QED BY <3>3, <3>4, <4>1, Widths
    <3>7. s.pos + P + Len(t) = start + Len(more)
      <4>1. Len(bytes) \in Nat
        BY <2>5
      <4> QED BY <2>5, <3>4, <3>6, <4>1, Widths
    <3>8. Len(cs) = k + 1
      BY <2>3, <2>6, <3>3 DEF Found
    <3>9. /\ p[k + 1].pos = start + Len(more) /\ p[k + 1].metas = cs /\ p[k + 1].ok
      BY <3>2, <3>7 DEF cs
    <3>10. Found(b, start, k + 1, p[k + 1])
      BY <3>5, <3>8, <3>9 DEF Found, more
    <3> QED BY <2>1, <3>10
  <2>7. CASE ~(s.ok /\ \E t \in Strings : Lies(b, s.pos, Entry(t)))
    <3>1. p[k + 1] = [s EXCEPT !.ok = FALSE]
      BY <2>2, <2>7, EntryMissing
    <3>2. p[k + 1].pos = s.pos /\ p[k + 1].metas = ms /\ p[k + 1].ok = FALSE
      BY <2>2, <3>1 DEF Steps
    <3>3. Len(ms) < k + 1
      BY <2>3, <2>4 DEF Found
    <3>4. \A t \in Strings : ~Lies(b, s.pos, Entry(t))
      BY <2>3, <2>7 DEF Found
    <3>5. Found(b, start, k + 1, p[k + 1])
      BY <2>5, <3>2, <3>3, <3>4 DEF Found
    <3> QED BY <2>1, <3>5
  <2> QED BY <2>6, <2>7
<1> HIDE DEF S
<1>3. \A k \in 0..n : k \in S
  BY <1>1, <1>2, UpTo
<1>4. n \in S
  BY <1>3
<1> QED BY <1>4 DEF S

----------------------------------------------------------------------------
\* parse_aux as a whole.

LEMMA EmptyStrings ==
  /\ 0 \in Lengths /\ <<>> \in Strings /\ <<>> \in Seq(Strings)
  /\ Entries(<<>>)[0] = <<>> /\ Entries(<<>>)[Len(<<>>)] = <<>>
<1>1. 0 \in Lengths
  BY LengthsAreNat, PowerDef, Widths
<1>2. Len(<<>>) = 0 /\ <<>> \in Seq(Bytes) /\ <<>> \in Seq(Strings)
  OBVIOUS
<1>3. Entries(<<>>)[0] = <<>>
  BY <1>2, EntriesDef
<1> QED BY <1>1, <1>2, <1>3 DEF Strings

\* The caps that a receiver has of a byte string, and its result of a tail.
Heard(text)  == ({text} \cap Utf8 \cap CapsText) \ {<<>>}
Result(b) == ParseCaps(ParseAux(b))

LEMMA HeardDef ==
  ASSUME NEW text \in Seq(Bytes)
  PROVE  Heard(text) = (IF Len(text) > 0 /\ text \in Utf8 THEN {text} ELSE {}) \cap CapsText
<1>1. Len(text) > 0 <=> text # <<>>
  <2>1. Len(text) \in Nat /\ Len(<<>>) = 0 /\ (Len(text) = 0 => text = <<>>)
    OBVIOUS
  <2> QED BY <2>1
<1> QED BY <1>1 DEF Heard

\* What the two parsers make of a tail, in terms of the first length in it.
LEMMA ResultDef ==
  ASSUME NEW b
  PROVE  LET len  == ReadWord(b, 0)
             n    == ReadWord(b, P + len)
             text == Slice(b, P, len)
         IN  Result(b) =
               IF len = -1 \/ P + len > Len(b) THEN Nothing
               ELSE [caps  |-> (IF len > 0 /\ text \in Utf8 THEN {text} ELSE {}) \cap CapsText,
                     metas |-> IF n = -1 THEN <<>> ELSE Parsed(b, P + len + P, n)[n].metas]
<1> DEFINE len == ReadWord(b, 0)
           n == ReadWord(b, P + len)
           text == Slice(b, P, len)
           heard == IF len > 0 /\ text \in Utf8 THEN {text} ELSE {}
           found == IF n = -1 THEN <<>> ELSE Parsed(b, P + len + P, n)[n].metas
<1>1. ParseAux(b) = IF len = -1 \/ P + len > Len(b) THEN Nothing
                    ELSE [caps |-> heard, metas |-> found]
  BY DEF ParseAux
<1> HIDE DEF heard, found
<1>2. CASE len = -1 \/ P + len > Len(b)
  <2>1. ParseAux(b).caps = {} /\ ParseAux(b).metas = <<>>
    BY <1>1, <1>2 DEF Nothing
  <2>2. Result(b) = Nothing
    BY <2>1 DEF Result, ParseCaps, Nothing
  <2> QED BY <1>2, <2>2
<1>3. CASE ~(len = -1 \/ P + len > Len(b))
  <2>1. ParseAux(b).caps = heard /\ ParseAux(b).metas = found
    BY <1>1, <1>3
  <2>2. Result(b) = [caps |-> heard \cap CapsText, metas |-> found]
    BY <2>1 DEF Result, ParseCaps
  <2> QED BY <1>3, <2>2 DEF heard, found
<1> QED BY <1>2, <1>3

\* What build_aux wrote, with n metas and whatever behind it, is read back.
LEMMA BlobParsed ==
  ASSUME NEW b \in Seq(Bytes), NEW text \in Strings, NEW ms \in Seq(Strings),
         NEW n \in 0..Len(ms), n \in Lengths,
         Lies(b, 0, Entry(text) \o Word(n) \o Entries(ms)[n])
  PROVE  Result(b) = [caps |-> Heard(text), metas |-> SubSeq(ms, 1, n)]
<1> DEFINE w == Word(n)
           e == Entries(ms)[n]
           t == Entry(text)
           len == Len(text)
<1>1. /\ n \in Nat /\ len \in Nat /\ t \in Seq(Bytes) /\ Len(t) = P + len
      /\ w \in Seq(Bytes) /\ Len(w) = P
  BY EntryDef, LengthsAreNat, WordDef
<1>2. e \in Seq(Bytes)
  BY EntriesDef
<1>3. Lies(b, 0, (t \o w) \o e)
  OBVIOUS
<1> HIDE DEF w, e, t, len
<1>4. t \o w \in Seq(Bytes) /\ Len(t \o w) = P + len + P
  <2>1. t \o w \in Seq(Bytes) /\ Len(t \o w) = Len(t) + Len(w)
    BY <1>1, Joined
  <2> QED BY <1>1, <2>1
<1>5. Lies(b, 0, t \o w) /\ Lies(b, 0 + (P + len + P), e)
  BY <1>2, <1>3, <1>4, LiesBehind
<1>6. Lies(b, 0, t) /\ Lies(b, 0 + (P + len), w)
  BY <1>1, <1>5, LiesBehind
<1>7. 0 + P = P /\ 0 + (P + len) = P + len /\ 0 + (P + len + P) = P + len + P /\ P + len \in Nat
      /\ P + len + P \in Nat
  BY <1>1, Widths
<1>8. ReadWord(b, 0) = len /\ 0 + P + len <= Len(b) /\ Slice(b, 0 + P, len) = text
  BY <1>6, EntryRead DEF t, len
<1>9. ReadWord(b, P + len) = n
  <2>1. P + len + P <= Len(b) /\ \A k \in 1..P : b[P + len + k] = Word(n)[k]
    BY <1>1, <1>6, <1>7 DEF Lies, w
  <2> QED BY <1>7, <2>1, ReadWritten
<1>10. Parsed(b, P + len + P, n)[n].metas = SubSeq(ms, 1, n)
  BY <1>5, <1>7, ParsesWritten DEF e
<1>11. len # -1 /\ n # -1 /\ ~(P + len > Len(b))
  BY <1>1, <1>7, <1>8, Widths
<1>12. ReadWord(b, 0) = len /\ Slice(b, P, len) = text
  BY <1>7, <1>8
<1>13. Result(b) =
         [caps |-> (IF len > 0 /\ text \in Utf8 THEN {text} ELSE {}) \cap CapsText,
          metas |-> Parsed(b, P + len + P, n)[n].metas]
  BY <1>9, <1>11, <1>12, ResultDef
<1>14. Heard(text) = (IF len > 0 /\ text \in Utf8 THEN {text} ELSE {}) \cap CapsText
  <2>1. text \in Seq(Bytes)
    BY DEF Strings
  <2> QED BY <2>1, HeardDef DEF len
<1> QED BY <1>10, <1>13, <1>14

\* A tail of zeros says nothing.
LEMMA ZerosParsed ==
  ASSUME NEW b \in Seq(Bytes), \A i \in 1..Len(b) : b[i] = 0
  PROVE  Result(b) = Nothing
<1>1. \A k \in 1..P : Word(0)[k] = 0
  <2> DEFINE S == {k \in 0..P : Shifted(0)[k] = 0}
  <2>1. 0 \in S
    BY ShiftedDef, Widths
  <2>2. ASSUME NEW k \in 0..(P - 1), k \in S PROVE k + 1 \in S
    <3>1. k + 1 \in 1..P /\ (k + 1) - 1 = k /\ k + 1 \in 0..P
      BY Widths
    <3>2. Shifted(0)[k + 1] = 0 \div B
      BY <2>2, <3>1, ShiftedDef
    <3>3. 0 \div B = 0
      BY Widths
    <3> QED BY <3>1, <3>2, <3>3
  <2> HIDE DEF S
  <2>3. \A k \in 0..P : k \in S
    BY <2>1, <2>2, Widths, UpTo
  <2>4. ASSUME NEW k \in 1..P PROVE Word(0)[k] = 0
    <3>1. k - 1 \in 0..P
      BY Widths
    <3>2. Shifted(0)[k - 1] = 0
      BY <2>3, <3>1 DEF S
    <3>3. 0 % B = 0
      BY Widths
    <3>4. Word(0)[k] = Shifted(0)[k - 1] % B
      BY WordDef
    <3> QED BY <3>2, <3>3, <3>4
  <2> QED BY <2>4
<1>2. Len(b) \in Nat /\ Word(0) \in Seq(Bytes) /\ Len(Word(0)) = P
  BY WordDef
<1>3. CASE Len(b) < P
  <2>1. ReadWord(b, 0) = -1
    BY <1>2, <1>3, Widths DEF ReadWord
  <2> QED BY <2>1, ResultDef
<1>4. CASE P <= Len(b) /\ Len(b) < P + P
  <2>1. ReadWord(b, 0) = 0
    <3>1. \A k \in 1..P : b[0 + k] = Word(0)[k]
      BY <1>1, <1>2, <1>4, Widths
    <3>2. 0 + P <= Len(b) /\ 0 \in Nat
      BY <1>4, Widths
    <3> QED BY <3>1, <3>2, EmptyStrings, ReadWritten
  <2>2. ReadWord(b, P + 0) = -1
    BY <1>2, <1>4, Widths DEF ReadWord
  <2>3. ~(P + 0 > Len(b)) /\ 0 # -1
    BY <1>2, <1>4, Widths
  <2>4. ~(0 > 0)
    OBVIOUS
  <2>5. Result(b) = [caps |-> {} \cap CapsText, metas |-> <<>>]
    BY <2>1, <2>2, <2>3, <2>4, ResultDef
  <2> QED BY <2>5 DEF Nothing
<1>5. CASE P + P <= Len(b)
  <2> DEFINE w == Word(0)
  <2>1. w \in Seq(Bytes) /\ Len(w) = P /\ \A k \in 1..P : w[k] = 0
    BY <1>1, <1>2
  <2>2. Entry(<<>>) = w \o <<>> /\ Entries(<<>>)[0] = <<>> /\ 0 \in Lengths /\ <<>> \in Strings
        /\ <<>> \in Seq(Strings)
    BY EmptyStrings DEF Entry
  <2> HIDE DEF w
  <2>3. (w \o <<>>) \o w \o <<>> = w \o w
    BY <2>1
  <2>4. Lies(b, 0, w) /\ Lies(b, P, w)
    BY <1>2, <1>5, <2>1, Widths DEF Lies
  <2>5. Lies(b, 0, w \o w)
    <3>1. 0 + Len(w) = P
      BY <2>1, Widths
    <3> QED BY <2>1, <2>4, <3>1, LiesBehind
  <2>6. Lies(b, 0, Entry(<<>>) \o Word(0) \o Entries(<<>>)[0])
    BY <2>2, <2>3, <2>5 DEF w
  <2>7. 0 \in 0..Len(<<>>)
    OBVIOUS
  <2>8. Result(b) = [caps |-> Heard(<<>>), metas |-> SubSeq(<<>>, 1, 0)]
    BY <2>2, <2>6, <2>7, BlobParsed
  <2>9. SubSeq(<<>>, 1, 0) = <<>> /\ Heard(<<>>) = {}
    BY DEF Heard
  <2> QED BY <2>8, <2>9 DEF Nothing
<1> QED BY <1>2, <1>3, <1>4, <1>5, Widths

----------------------------------------------------------------------------
\* build_aux.

LEMMA Greatest ==
  ASSUME NEW n \in Nat, NEW S \in SUBSET (0..n), 0 \in S
  PROVE  Max(S) \in S /\ \A k \in S : k <= Max(S)
<1> DEFINE Above == {k \in 0..n : \A i \in S : i <= k}
<1>1. n \in Above /\ Above \subseteq Nat
  OBVIOUS
<1>2. PICK m \in Above : \A k \in Above : m <= k
  <2> HIDE DEF Above
  <2> QED BY <1>1, Least
<1>3. m \in S
  <2> SUFFICES ASSUME m \notin S PROVE FALSE
    OBVIOUS
  <2>1. \A i \in S : i \in Int /\ i <= m /\ i # m
    BY <1>2
  <2>2. m \in Nat /\ m # 0
    BY <1>2
  <2>3. m - 1 \in Above
    BY <1>2, <2>1, <2>2
  <2> QED BY <1>2, <2>2, <2>3
<1>4. \A k \in S : m >= k /\ k <= m
  BY <1>2
<1>5. Max(S) \in S /\ \A k \in S : Max(S) >= k
  BY <1>3, <1>4 DEF Max
<1> QED BY <1>5

\* Bytes of a blob with k of the metas.
Size(text, ms, k) == P + Len(text) + P + Len(Entries(ms)[k])

LEMMA Fits ==
  ASSUME NEW text \in Strings, NEW ms \in Seq(Strings), NEW limit
  PROVE  LET kept == Fitting(text, ms, limit)
         IN  /\ kept \in 0..Len(ms)
             /\ kept # 0 => \A most \in limit : Size(text, ms, kept) <= most
             /\ kept # Len(ms) => \E most \in limit : ~(Size(text, ms, kept + 1) <= most)
<1> DEFINE fits(k) == \A most \in limit : Len(Entry(text)) + P + Len(Entries(ms)[k]) <= most
           S == {k \in 0..Len(ms) : \A j \in 1..k : fits(j)}
           kept == Fitting(text, ms, limit)
<1>1. Len(ms) \in Nat
  OBVIOUS
<1>2. 0 \in S /\ S \in SUBSET (0..Len(ms))
  BY <1>1
<1>3. kept = Max(S)
  BY DEF Fitting
<1>4. kept \in S /\ \A k \in S : k <= kept
  <2> HIDE DEF S, kept
  <2> QED BY <1>1, <1>2, <1>3, Greatest
<1> HIDE DEF kept
<1>5. \A k : Len(Entry(text)) + P + Len(Entries(ms)[k]) = Size(text, ms, k)
  <2>1. Len(Entry(text)) = P + Len(text)
    BY EntryDef
  <2> QED BY <2>1 DEF Size
<1>6. \A k : fits(k) <=> \A most \in limit : Size(text, ms, k) <= most
  BY <1>5
<1>7. kept # 0 => fits(kept)
  BY <1>1, <1>4
<1>8. ASSUME kept # Len(ms) PROVE ~fits(kept + 1)
  <2>1. kept + 1 \in 0..Len(ms) /\ kept + 1 \notin S
    BY <1>1, <1>4, <1>8
  <2>2. PICK j \in 1..(kept + 1) : ~fits(j)
    BY <2>1
  <2>3. j \notin 1..kept
    BY <1>4, <2>2
  <2>4. j = kept + 1
    BY <1>1, <1>4, <2>3
  <2> QED BY <2>2, <2>4
<1> QED BY <1>4, <1>6, <1>7, <1>8 DEF kept

LEMMA BlobDef ==
  ASSUME NEW text \in Strings, NEW ms \in Seq(Strings), NEW n \in 0..Len(ms), n \in Lengths
  PROVE  LET blob == Entry(text) \o Word(n) \o Entries(ms)[n]
         IN  blob \in Seq(Bytes) /\ Len(blob) = Size(text, ms, n)
<1> DEFINE w == Word(n)
           e == Entries(ms)[n]
           t == Entry(text)
<1>1. t \in Seq(Bytes) /\ Len(t) = P + Len(text) /\ Len(text) \in Nat
  BY EntryDef
<1>2. w \in Seq(Bytes) /\ Len(w) = P
  BY LengthsAreNat, WordDef
<1>3. e \in Seq(Bytes)
  BY EntriesDef
<1> HIDE DEF w, e, t
<1>4. t \o w \o e \in Seq(Bytes) /\ Len(t \o w \o e) = P + Len(text) + P + Len(e)
  <2>1. t \o w \in Seq(Bytes) /\ Len(t \o w) = Len(t) + Len(w)
    BY <1>1, <1>2, Joined
  <2>2. t \o w \o e \in Seq(Bytes) /\ Len(t \o w \o e) = Len(t \o w) + Len(e)
    BY <1>3, <2>1, Joined
  <2> QED BY <1>1, <1>2, <2>1, <2>2
<1> QED BY <1>4 DEF Size, t, w, e

\* The metas that travel.
LEMMA TravellingType ==
  ASSUME NEW ms \in Seq(Metas)
  PROVE  Travelling(ms) \in Seq(Strings) /\ Len(Travelling(ms)) <= Len(ms)
<1> DEFINE V == Seq(Payloads)
           step(k, x) == IF ms[k].travels THEN Append(x, ms[k].bytes) ELSE x
           next == [k \in 1..Len(ms) |-> [x \in V |-> step(k, x)]]
<1>1. Len(ms) \in Nat /\ \A k \in 1..Len(ms) : ms[k] \in Metas
  OBVIOUS
<1>2. \A k \in 1..Len(ms) : ms[k].travels => ms[k].bytes \in Payloads
  BY <1>1 DEF Metas
<1>3. \A k \in 1..Len(ms) : \A x \in V : step(k, x) \in V /\ Len(step(k, x)) <= Len(x) + 1
  BY <1>2
<1>4. next \in [1..Len(ms) -> [V -> V]]
  BY <1>3
<1>5. <<>> \in V /\ Len(<<>>) = 0
  OBVIOUS
<1> HIDE DEF next, V
<1>6. PICK f : Follows(f, Len(ms), V, <<>>, next)
  BY <1>1, <1>4, <1>5, Recursion
<1>7. \A k \in 1..Len(ms) : f[k] = step(k, f[k - 1])
  <2>1. \A k \in 1..Len(ms) : k - 1 \in 0..Len(ms)
    BY <1>1
  <2> QED BY <1>6, <2>1 DEF next, Follows
<1>8. f = [k \in 0..Len(ms) |-> IF k = 0 THEN <<>> ELSE step(k, f[k - 1])]
  <2>1. \A k \in 0..Len(ms) : k # 0 => k \in 1..Len(ms)
    BY <1>1
  <2> QED BY <1>6, <1>7, <2>1 DEF Follows
<1> DEFINE g == Kept(ms)
<1>9. g = [k \in 0..Len(ms) |-> IF k = 0 THEN <<>> ELSE step(k, g[k - 1])]
  BY <1>8 DEF Kept
<1> HIDE DEF g
<1> HIDE DEF step
<1>10. g[0] = <<>> /\ \A k \in 1..Len(ms) : g[k] = step(k, g[k - 1])
  <2>1. 0 \in 0..Len(ms) /\ \A k \in 1..Len(ms) : k \in 0..Len(ms) /\ k # 0
    BY <1>1
  <2> QED BY <1>9, <2>1
<1> DEFINE S == {k \in 0..Len(ms) : g[k] \in V /\ Len(g[k]) <= k}
<1>11. 0 \in S
  BY <1>1, <1>5, <1>10
<1>12. ASSUME NEW k \in 0..(Len(ms) - 1), k \in S PROVE k + 1 \in S
  <2>1. k + 1 \in 1..Len(ms) /\ (k + 1) - 1 = k /\ k + 1 \in 0..Len(ms)
    BY <1>1
  <2>2. g[k + 1] = step(k + 1, g[k])
    BY <1>10, <2>1
  <2>3. g[k] \in V /\ Len(g[k]) <= k
    BY <1>12
  <2>4. step(k + 1, g[k]) \in V /\ Len(step(k + 1, g[k])) <= Len(g[k]) + 1
    BY <1>3, <2>1, <2>3
  <2>5. g[k + 1] \in V /\ Len(g[k + 1]) <= Len(g[k]) + 1
    BY <2>2, <2>4
  <2>6. Len(g[k]) \in Nat /\ Len(g[k + 1]) \in Nat
    BY <2>3, <2>5 DEF V
  <2> QED BY <1>1, <2>1, <2>3, <2>5, <2>6
<1> HIDE DEF S
<1>13. Len(ms) \in S
  <2>1. \A k \in 0..Len(ms) : k \in S
    BY <1>1, <1>11, <1>12, UpTo
  <2> QED BY <1>1, <2>1
<1>14. Travelling(ms) \in Seq(Payloads) /\ Len(Travelling(ms)) <= Len(ms)
  BY <1>13 DEF S, V, g, Travelling
<1>15. Payloads \subseteq Strings
  BY AuxAssumption DEF AuxAssumption, Strings
<1> QED BY <1>14, <1>15

----------------------------------------------------------------------------
\* What each step of a frame's blob leaves behind.

Zeros(n) == [i \in 1..n |-> 0]

Shapes ==
  /\ path \in {"copy", "zero", "wire"} /\ stage \in {"build", "sent", "read"}
  /\ caps \in Strings /\ metas \in Seq(Metas) /\ Len(metas) <= MaxMetas
  /\ path # "wire" => Heard(caps) = {caps}
  /\ tail \in Seq(Bytes)

\* The tail is what the sink writes, and the result what that tail parses to.
Written ==
  stage # "build" =>
    /\ path = "copy" => tail = BuildAux(caps, Travelling(metas), {})
    /\ path = "zero" =>
         LET blob == BuildAux(caps, Travelling(metas), {Len(tail)})
         IN  \/ Len(blob) <= Len(tail) /\ tail = blob \o Zeros(Len(tail) - Len(blob))
             \/ /\ Len(tail) < MinBytes \/ Len(tail) < Len(blob)
                /\ tail = Zeros(Len(tail))

ParsedTail == stage = "read" => got = Result(tail)

AuxInv == Shapes /\ Written /\ ParsedTail

LEMMA BoundedStrings == BoundedSeq(Bytes, Power[P] - 1) = Strings
<1> DEFINE top == Power[P] - 1
<1>1. top \in Nat /\ Lengths = 0..top
  BY PowerDef, Widths DEF Lengths
<1> HIDE DEF top
<1>2. \A t \in BoundedSeq(Bytes, top) : t \in Strings
  <2> SUFFICES ASSUME NEW t \in BoundedSeq(Bytes, top) PROVE t \in Strings
    OBVIOUS
  <2>1. PICK m \in 0..top : t \in [1..m -> Bytes]
    BY DEF BoundedSeq, SeqOf
  <2>2. t \in Seq(Bytes) /\ Len(t) = m
    BY <1>1, <2>1
  <2> QED BY <1>1, <2>2 DEF Strings
<1>3. \A t \in Strings : t \in BoundedSeq(Bytes, top)
  <2> SUFFICES ASSUME NEW t \in Strings PROVE t \in BoundedSeq(Bytes, top)
    OBVIOUS
  <2>1. t \in [1..Len(t) -> Bytes] /\ Len(t) \in 0..top
    BY <1>1 DEF Strings
  <2> QED BY <2>1 DEF BoundedSeq, SeqOf
<1> QED BY <1>2, <1>3 DEF top

LEMMA BuiltType ==
  ASSUME Shapes, NEW limit
  PROVE  LET ms == Travelling(metas)
             kept == Fitting(caps, ms, limit)
             blob == BuildAux(caps, ms, limit)
         IN  /\ ms \in Seq(Strings) /\ Len(ms) \in Nat /\ kept \in 0..Len(ms)
             /\ \A k \in 0..Len(ms) : k \in Lengths
             /\ blob = Entry(caps) \o Word(kept) \o Entries(ms)[kept]
             /\ blob \in Seq(Bytes) /\ Len(blob) = Size(caps, ms, kept)
<1> DEFINE ms == Travelling(metas)
           kept == Fitting(caps, ms, limit)
<1>1. ms \in Seq(Strings) /\ Len(ms) <= MaxMetas
  <2>1. Len(metas) \in Nat /\ Len(metas) <= MaxMetas /\ MaxMetas \in Nat
    BY AuxAssumption, LengthsAreNat DEF Shapes, AuxAssumption
  <2>2. ms \in Seq(Strings) /\ Len(ms) <= Len(metas)
    BY TravellingType DEF Shapes
  <2> QED BY <2>1, <2>2
<1> HIDE DEF ms
<1>2. Len(ms) \in Nat /\ kept \in 0..Len(ms)
  BY <1>1, Fits DEF Shapes
<1>3. \A k \in 0..Len(ms) : k \in Lengths
  <2>1. MaxMetas \in Nat /\ MaxMetas < Power[P] /\ Power[P] \in Nat
    BY AuxAssumption, LengthsAreNat, PowerDef, Widths DEF AuxAssumption
  <2>2. \A k \in 0..Len(ms) : k \in Nat /\ k < Power[P]
    BY <1>1, <1>2, <2>1
  <2> QED BY <2>2, LengthsAreNat
<1>4. BuildAux(caps, ms, limit) = Entry(caps) \o Word(kept) \o Entries(ms)[kept]
  BY DEF BuildAux
<1> HIDE DEF kept
<1>5. LET blob == Entry(caps) \o Word(kept) \o Entries(ms)[kept]
      IN  blob \in Seq(Bytes) /\ Len(blob) = Size(caps, ms, kept)
  BY <1>1, <1>2, <1>3, BlobDef DEF Shapes
<1> QED BY <1>1, <1>2, <1>3, <1>4, <1>5 DEF ms, kept

LEMMA ZerosDef ==
  ASSUME NEW n \in Nat
  PROVE  Zeros(n) \in Seq(Bytes) /\ Len(Zeros(n)) = n /\ \A i \in 1..n : Zeros(n)[i] = 0
<1>1. 0 \in Bytes
  BY Widths DEF Bytes
<1> QED BY <1>1 DEF Zeros

LEMMA AuxInitInv == AuxInit => AuxInv
<1> SUFFICES ASSUME AuxInit PROVE AuxInv
  OBVIOUS
<1>1. CASE /\ path \in {"copy", "zero"} /\ stage = "build" /\ tail = <<>>
           /\ caps \in Texts /\ metas \in BoundedSeq(Metas, MaxMetas)
  <2>1. PICK m \in 0..MaxMetas : metas \in [1..m -> Metas]
    BY <1>1 DEF BoundedSeq, SeqOf
  <2>2. m \in Nat /\ m <= MaxMetas
    BY AuxAssumption, LengthsAreNat DEF AuxAssumption
  <2>3. metas \in Seq(Metas) /\ Len(metas) <= MaxMetas
    BY <2>1, <2>2
  <2>4. caps \in Strings
    BY <1>1, AuxAssumption DEF AuxAssumption, Strings
  <2>5. Heard(caps) = {caps}
    BY <1>1, AuxAssumption DEF AuxAssumption, Heard
  <2> QED BY <1>1, <2>3, <2>4, <2>5 DEF AuxInv, Shapes, Written, ParsedTail
<1>2. CASE /\ path = "wire" /\ stage = "sent" /\ tail \in BoundedSeq(Bytes, MaxTail)
           /\ caps = <<>> /\ metas = <<>>
  <2>1. PICK m \in 0..MaxTail : tail \in [1..m -> Bytes]
    BY <1>2 DEF BoundedSeq, SeqOf
  <2>2. m \in Nat
    BY AuxAssumption DEF AuxAssumption
  <2>3. tail \in Seq(Bytes)
    BY <2>1, <2>2
  <2>4. metas \in Seq(Metas) /\ Len(metas) <= MaxMetas
    <3>1. <<>> \in Seq(Metas) /\ Len(<<>>) = 0 /\ 0 <= MaxMetas
      BY AuxAssumption, LengthsAreNat DEF AuxAssumption
    <3> QED BY <1>2, <3>1
  <2> QED BY <1>2, <2>3, <2>4, EmptyStrings DEF AuxInv, Shapes, Written, ParsedTail
<1> QED BY <1>1, <1>2 DEF AuxInit

LEMMA AuxStep == AuxInv /\ [AuxNext]_auxVars => AuxInv'
<1> SUFFICES ASSUME AuxInv, [AuxNext]_auxVars PROVE AuxInv'
  OBVIOUS
<1> USE DEF AuxInv
<1>1. CASE WriteCopy
  <2>1. /\ path' = path /\ caps' = caps /\ metas' = metas /\ stage' = "sent" /\ path = "copy"
        /\ tail' = BuildAux(caps, Travelling(metas), {})
    BY <1>1 DEF WriteCopy
  <2>2. tail' \in Seq(Bytes)
    BY <2>1, BuiltType
  <2> QED BY <2>1, <2>2 DEF Shapes, Written, ParsedTail
<1>2. CASE WriteZeroCopy
  <2> DEFINE blob(n) == BuildAux(caps, Travelling(metas), {n})
             used(n) == IF n >= MinBytes /\ Len(blob(n)) <= n THEN blob(n) ELSE <<>>
  <2>1. /\ path' = path /\ caps' = caps /\ metas' = metas /\ stage' = "sent" /\ path = "zero"
    BY <1>2 DEF WriteZeroCopy
  <2>2. PICK n \in 0..MaxTail : tail' = used(n) \o Zeros(n - Len(used(n)))
    BY <1>2 DEF WriteZeroCopy, Zeros
  <2>3. n \in Nat /\ blob(n) \in Seq(Bytes) /\ Len(blob(n)) \in Nat
    <3>1. n \in Nat
      BY AuxAssumption DEF AuxAssumption
    <3>2. blob(n) \in Seq(Bytes)
      BY BuiltType
    <3> QED BY <3>1, <3>2
  <2>4. CASE n >= MinBytes /\ Len(blob(n)) <= n
    <3> DEFINE rest == Zeros(n - Len(blob(n)))
    <3>1. tail' = blob(n) \o rest
      BY <2>2, <2>4
    <3>2. rest \in Seq(Bytes) /\ Len(rest) = n - Len(blob(n))
      <4>1. n - Len(blob(n)) \in Nat
        BY <2>3, <2>4
      <4> QED BY <4>1, ZerosDef
    <3> HIDE DEF blob, rest
    <3>3. tail' \in Seq(Bytes) /\ Len(tail') = Len(blob(n)) + Len(rest)
      BY <2>3, <3>1, <3>2, Joined
    <3>4. Len(tail') = n
      BY <2>3, <3>2, <3>3
    <3>5. Len(blob(n)) <= Len(tail') /\ tail' = blob(n) \o Zeros(Len(tail') - Len(blob(n)))
      BY <2>4, <3>1, <3>4 DEF rest
    <3> QED BY <2>1, <3>3, <3>4, <3>5 DEF Shapes, Written, ParsedTail, blob
  <2>5. CASE ~(n >= MinBytes /\ Len(blob(n)) <= n)
    <3>1. tail' = <<>> \o Zeros(n - 0)
      <4>1. used(n) = <<>> /\ Len(<<>>) = 0
        BY <2>5
      <4> HIDE DEF used
      <4> QED BY <2>2, <4>1
    <3>2. n - 0 = n
      BY <2>3
    <3>3. Zeros(n) \in Seq(Bytes) /\ Len(Zeros(n)) = n
      BY <2>3, ZerosDef
    <3>4. <<>> \o Zeros(n) = Zeros(n)
      BY <3>3
    <3>5. tail' = Zeros(n) /\ Len(tail') = n /\ tail' \in Seq(Bytes)
      BY <3>1, <3>2, <3>3, <3>4
    <3>6. n < MinBytes \/ n < Len(blob(n))
      <4>1. MinBytes \in Nat
        BY Widths DEF MinBytes
      <4> HIDE DEF blob
      <4> QED BY <2>3, <2>5, <4>1
    <3> HIDE DEF blob
    <3> QED BY <2>1, <3>5, <3>6 DEF Shapes, Written, ParsedTail, blob
  <2> QED BY <2>4, <2>5
<1>3. CASE Read
  BY <1>3 DEF Read, Result, Shapes, Written, ParsedTail
<1>4. CASE UNCHANGED auxVars
  BY <1>4 DEF auxVars, Shapes, Written, ParsedTail
<1> QED BY <1>1, <1>2, <1>3, <1>4 DEF AuxNext

\* Caps, number of metas and what follows them, read as prefixes of a tail.
LEMMA PrefixParts ==
  ASSUME NEW b \in Seq(Bytes), NEW text \in Strings, NEW n \in Lengths, NEW x \in Seq(Bytes)
  PROVE  IsPrefix(Entry(text) \o Word(n) \o x, b) <=>
           /\ Lies(b, 0, Entry(text)) /\ Lies(b, P + Len(text), Word(n))
           /\ Lies(b, P + Len(text) + P, x)
<1> DEFINE w == Word(n)
           t == Entry(text)
<1>1. t \in Seq(Bytes) /\ Len(t) = P + Len(text) /\ Len(text) \in Nat
  BY EntryDef
<1>2. w \in Seq(Bytes) /\ Len(w) = P
  BY LengthsAreNat, WordDef
<1> HIDE DEF w, t
<1>3. t \o w \in Seq(Bytes) /\ Len(t \o w) = P + Len(text) + P /\ (t \o w) \o x \in Seq(Bytes)
  <2>1. t \o w \in Seq(Bytes) /\ Len(t \o w) = Len(t) + Len(w)
    BY <1>1, <1>2, Joined
  <2>2. (t \o w) \o x \in Seq(Bytes)
    BY <2>1, Joined
  <2> QED BY <1>1, <1>2, <2>1, <2>2
<1>4. 0 + (P + Len(text)) = P + Len(text) /\ 0 + (P + Len(text) + P) = P + Len(text) + P
  BY <1>1, Widths
<1>5. Lies(b, 0, (t \o w) \o x) <=> Lies(b, 0, t \o w) /\ Lies(b, P + Len(text) + P, x)
  <2>1. Lies(b, 0, (t \o w) \o x) <=> Lies(b, 0, t \o w) /\ Lies(b, 0 + Len(t \o w), x)
    BY <1>3, LiesBehind
  <2> QED BY <1>3, <1>4, <2>1
<1>6. Lies(b, 0, t \o w) <=> Lies(b, 0, t) /\ Lies(b, P + Len(text), w)
  <2>1. Lies(b, 0, t \o w) <=> Lies(b, 0, t) /\ Lies(b, 0 + Len(t), w)
    BY <1>1, <1>2, LiesBehind
  <2> QED BY <1>1, <1>4, <2>1
<1>7. IsPrefix((t \o w) \o x, b) <=> Lies(b, 0, (t \o w) \o x)
  BY <1>3, PrefixLies
<1> QED BY <1>5, <1>6, <1>7 DEF t, w

LEMMA SizeDef ==
  ASSUME Shapes
  PROVE  LET ms == Travelling(metas)
         IN  \A k \in 0..Len(ms) : /\ SizeWith(k) = Size(caps, ms, k) /\ SizeWith(k) \in Nat
                                   /\ SizeWith(0) <= SizeWith(k) /\ MinBytes <= SizeWith(k)
<1> DEFINE ms == Travelling(metas)
<1>1. ms \in Seq(Strings) /\ Len(ms) \in Nat
  BY BuiltType
<1> HIDE DEF ms
<1>2. SUFFICES ASSUME NEW k \in 0..Len(ms)
               PROVE  /\ SizeWith(k) = Size(caps, ms, k) /\ SizeWith(k) \in Nat
                      /\ SizeWith(0) <= SizeWith(k) /\ MinBytes <= SizeWith(k)
  BY DEF ms
<1>3. Len(caps) \in Nat
  BY EntryDef DEF Shapes
<1>4. Len(Entries(ms)[k]) \in Nat
  <2>1. Entries(ms)[k] \in Seq(Bytes)
    BY <1>1, EntriesDef
  <2> QED BY <2>1
<1>5. Len(Entries(ms)[0]) = 0
  <2>1. Entries(ms)[0] = <<>>
    BY <1>1, EntriesDef
  <2> QED BY <2>1
<1>6. \A j : SizeWith(j) = 2 * P + Len(caps) + Len(Entries(ms)[j])
  BY DEF SizeWith, MinBytes, ms
<1>7. Size(caps, ms, k) = P + Len(caps) + P + Len(Entries(ms)[k])
  BY DEF Size
<1> DEFINE e == Len(Entries(ms)[k])
           len == Len(caps)
<1>8. SizeWith(k) = 2 * P + len + e /\ Size(caps, ms, k) = P + len + P + e
  BY <1>6, <1>7
<1>9. SizeWith(0) = 2 * P + len /\ MinBytes = 2 * P
  <2>1. SizeWith(0) = 2 * P + len + Len(Entries(ms)[0])
    BY <1>6
  <2> HIDE DEF len
  <2> QED BY <1>3, <1>5, <2>1, Widths DEF MinBytes, len
<1>10. len \in Nat /\ e \in Nat /\ P \in Nat
  BY <1>3, <1>4, Widths
<1> HIDE DEF e, len
<1> QED BY <1>8, <1>9, <1>10

LEMMA BlobReceived ==
  ASSUME Shapes, NEW limit, Lies(tail, 0, BuildAux(caps, Travelling(metas), limit))
  PROVE  LET ms == Travelling(metas)
         IN  Result(tail) =
               [caps |-> Heard(caps), metas |-> SubSeq(ms, 1, Fitting(caps, ms, limit))]
<1> DEFINE ms == Travelling(metas)
           kept == Fitting(caps, ms, limit)
<1>1. /\ ms \in Seq(Strings) /\ kept \in 0..Len(ms) /\ kept \in Lengths
      /\ BuildAux(caps, ms, limit) = Entry(caps) \o Word(kept) \o Entries(ms)[kept]
  BY BuiltType
<1>2. caps \in Strings /\ tail \in Seq(Bytes)
  BY DEF Shapes
<1>3. Lies(tail, 0, Entry(caps) \o Word(kept) \o Entries(ms)[kept])
  BY <1>1
<1> HIDE DEF ms, kept
<1>4. Result(tail) = [caps |-> Heard(caps), metas |-> SubSeq(ms, 1, kept)]
  BY <1>1, <1>2, <1>3, BlobParsed
<1> QED BY <1>4 DEF ms, kept

\* The receiver of a frame gets its caps and the metas that fit, and nothing
\* that is not there, over both paths of render, for every tail
\* (sink.rs:510-535, auxblob.rs:38-64).
LEMMA RoundTripHolds == AuxInv => RoundTrip
<1> DEFINE ms == Travelling(metas)
           Received == /\ got.caps = {caps}
                       /\ IsPrefix(got.metas, ms)
                       /\ SizeWith(Len(got.metas)) <= Len(tail)
                       /\ got.metas = ms \/ SizeWith(Len(got.metas) + 1) > Len(tail)
                       /\ path = "copy" => got.metas = ms
<1> SUFFICES ASSUME AuxInv, stage = "read", path # "wire"
             PROVE  IF SizeWith(0) > Len(tail) THEN got = Nothing ELSE Received
  BY DEF RoundTrip
<1>1. Shapes /\ got = Result(tail) /\ tail \in Seq(Bytes) /\ Len(tail) \in Nat
  BY DEF AuxInv, ParsedTail, Shapes
<1>2. ms \in Seq(Strings) /\ Len(ms) \in Nat
  BY <1>1, BuiltType
<1>h. Heard(caps) = {caps}
  BY <1>1 DEF Shapes
<1>3. ASSUME NEW k \in 0..Len(ms), got = [caps |-> {caps}, metas |-> SubSeq(ms, 1, k)],
             SizeWith(k) <= Len(tail), k = Len(ms) \/ SizeWith(k + 1) > Len(tail),
             path = "copy" => k = Len(ms)
      PROVE  ~(SizeWith(0) > Len(tail)) /\ Received
  <2>1. SizeWith(0) <= SizeWith(k) /\ SizeWith(0) \in Nat /\ SizeWith(k) \in Nat
    <3>1. 0 \in 0..Len(ms)
      BY <1>2
    <3> QED BY <1>1, <3>1, SizeDef
  <2>2. ~(SizeWith(0) > Len(tail))
    BY <1>1, <1>3, <2>1
  <2> HIDE DEF ms
  <2> DEFINE m == SubSeq(ms, 1, k)
  <2>3. got.caps = {caps} /\ got.metas = m
    BY <1>3
  <2>4. m \in Seq(Strings) /\ Len(m) = k /\ k <= Len(ms)
    BY <1>2
  <2>5. k = Len(ms) => m = ms
    BY <1>2
  <2>6. IsPrefix(m, ms)
    <3>1. SubSeq(m, 1, k) = m
      BY <2>4
    <3> QED BY <2>4, <3>1 DEF IsPrefix
  <2> HIDE DEF m
  <2> QED BY <1>3, <2>2, <2>3, <2>4, <2>5, <2>6 DEF ms
<1>4. ASSUME path = "copy" PROVE ~(SizeWith(0) > Len(tail)) /\ Received
  <2> DEFINE kept == Fitting(caps, ms, {})
  <2>1. tail = BuildAux(caps, ms, {})
    BY <1>4 DEF AuxInv, Written
  <2>2. kept = Len(ms)
    BY <1>1, <1>2, Fits DEF Shapes
  <2>3. Len(tail) = Size(caps, ms, kept) /\ kept \in 0..Len(ms)
    BY <1>1, <2>1, BuiltType
  <2>4. got = [caps |-> {caps}, metas |-> SubSeq(ms, 1, kept)]
    <3>1. Lies(tail, 0, tail)
      BY <1>1 DEF Lies
    <3>2. Lies(tail, 0, BuildAux(caps, Travelling(metas), {}))
      BY <2>1, <3>1
    <3> QED BY <1>1, <1>h, <3>2, BlobReceived
  <2>5. SizeWith(kept) = Len(tail)
    BY <1>1, <2>3, SizeDef
  <2>6. SizeWith(kept) <= Len(tail)
    BY <1>1, <2>5
  <2> HIDE DEF ms, kept, Received
  <2> QED BY <1>3, <2>2, <2>3, <2>4, <2>6
<1>5. ASSUME path = "zero"
      PROVE  \/ SizeWith(0) > Len(tail) /\ got = Nothing
             \/ ~(SizeWith(0) > Len(tail)) /\ Received
  <2> DEFINE limit == {Len(tail)}
             kept == Fitting(caps, ms, limit)
             blob == BuildAux(caps, ms, limit)
  <2>1. \/ Len(blob) <= Len(tail) /\ tail = blob \o Zeros(Len(tail) - Len(blob))
        \/ /\ Len(tail) < MinBytes \/ Len(tail) < Len(blob)
           /\ tail = Zeros(Len(tail))
    BY <1>5 DEF AuxInv, Written
  <2>2. kept \in 0..Len(ms) /\ blob \in Seq(Bytes) /\ Len(blob) = Size(caps, ms, kept)
    BY <1>1, BuiltType
  <2>3. /\ kept # 0 => Size(caps, ms, kept) <= Len(tail)
        /\ kept # Len(ms) => ~(Size(caps, ms, kept + 1) <= Len(tail))
    <3>1. /\ kept # 0 => \A most \in limit : Size(caps, ms, kept) <= most
          /\ kept # Len(ms) => \E most \in limit : ~(Size(caps, ms, kept + 1) <= most)
      BY <1>1, <1>2, Fits DEF Shapes
    <3> HIDE DEF kept, ms
    <3> QED BY <3>1
  <2>4. SizeWith(kept) = Len(blob) /\ SizeWith(kept) \in Nat
    BY <1>1, <2>2, SizeDef
  <2>5. kept # Len(ms) => SizeWith(kept + 1) > Len(tail)
    <3>1. kept # Len(ms) => kept + 1 \in 0..Len(ms)
      BY <1>2, <2>2
    <3>2. kept # Len(ms) => SizeWith(kept + 1) = Size(caps, ms, kept + 1) /\ SizeWith(kept + 1) \in Nat
      BY <1>1, <3>1, SizeDef
    <3> HIDE DEF kept, ms
    <3> QED BY <1>1, <2>3, <3>2
  <2>6. CASE Len(blob) <= Len(tail) /\ tail = blob \o Zeros(Len(tail) - Len(blob))
    <3>1. Lies(tail, 0, blob)
      <4> DEFINE rest == Zeros(Len(tail) - Len(blob))
      <4>1. rest \in Seq(Bytes)
        <5>1. Len(tail) - Len(blob) \in Nat
          BY <1>1, <2>4, <2>6
        <5> QED BY <5>1, ZerosDef
      <4>2. tail = blob \o rest
        BY <2>6
      <4> HIDE DEF rest, blob
      <4>3. Lies(tail, 0, tail)
        BY <1>1 DEF Lies
      <4>4. Lies(tail, 0, blob \o rest)
        BY <4>2, <4>3
      <4> QED BY <1>1, <2>2, <4>1, <4>4, LiesBehind
    <3>2. got = [caps |-> {caps}, metas |-> SubSeq(ms, 1, kept)]
      BY <1>1, <1>h, <3>1, BlobReceived
    <3>3. SizeWith(kept) <= Len(tail)
      BY <2>4, <2>6
    <3>4. path # "copy"
      BY <1>5
    <3> HIDE DEF ms, kept, Received
    <3> QED BY <1>3, <2>2, <2>5, <3>2, <3>3, <3>4
  <2>7. CASE /\ Len(tail) < MinBytes \/ Len(tail) < Len(blob)
             /\ tail = Zeros(Len(tail))
    <3>1. got = Nothing
      <4>1. \A i \in 1..Len(tail) : tail[i] = 0
        <5> DEFINE n == Len(tail)
        <5>1. \A i \in 1..n : Zeros(n)[i] = 0
          BY <1>1, ZerosDef
        <5> QED BY <2>7, <5>1
      <4> QED BY <1>1, <4>1, ZerosParsed
    <3>2. 0 \in 0..Len(ms)
      BY <1>2
    <3>3. MinBytes <= SizeWith(0) /\ SizeWith(0) \in Nat /\ MinBytes \in Nat
      BY <1>1, <3>2, SizeDef, Widths DEF MinBytes
    <3>4. CASE Len(tail) < MinBytes
      BY <1>1, <3>1, <3>3, <3>4
    <3>5. CASE Len(tail) < Len(blob)
      <4>1. kept = 0
        <5> HIDE DEF kept, blob, ms
        <5> QED BY <1>1, <2>2, <2>3, <2>4, <3>5
      <4>2. SizeWith(0) > Len(tail)
        BY <1>1, <2>4, <3>5, <4>1
      <4> QED BY <3>1, <4>2
    <3> QED BY <2>7, <3>4, <3>5
  <2> QED BY <2>1, <2>6, <2>7
<1>6. path \in {"copy", "zero"}
  BY <1>1 DEF Shapes
<1> HIDE DEF Received
<1> QED BY <1>4, <1>5, <1>6

\* Of any tail the receiver gets what lies there up to the first entry that is
\* cut off, the caps only when they are caps (auxblob.rs:75-113).
LEMMA BestEffortHolds == AuxInv => BestEffort
<1> DEFINE strings == BoundedSeq(Bytes, Power[P] - 1)
           starts(text, n, bs) == IsPrefix(Entry(text) \o Word(n) \o Entries(bs)[Len(bs)], tail)
           Refused == got = Nothing /\ \A text \in strings : ~IsPrefix(Entry(text), tail)
           NoCount(text) == got.metas = <<>> /\ \A n \in Lengths : ~starts(text, n, <<>>)
           Counted(text, n) ==
             /\ starts(text, n, got.metas) /\ Len(got.metas) <= n
             /\ Len(got.metas) < n =>
                  \A m \in strings : ~starts(text, n, Append(got.metas, m))
<1> SUFFICES ASSUME AuxInv, stage = "read"
             PROVE  \/ Refused
                    \/ \E text \in strings :
                         /\ IsPrefix(Entry(text), tail) /\ got.caps = Heard(text)
                         /\ NoCount(text) \/ \E n \in Lengths : Counted(text, n)
  BY DEF BestEffort, Heard
<1>1. strings = Strings
  BY BoundedStrings
<1>2. got = Result(tail) /\ tail \in Seq(Bytes) /\ Len(tail) \in Nat
  BY DEF AuxInv, ParsedTail, Shapes
<1> DEFINE b == tail
           len == ReadWord(b, 0)
           text == Slice(b, P, len)
           n == ReadWord(b, P + len)
<1>3. CASE len = -1 \/ P + len > Len(b)
  <2>1. got = Nothing
    BY <1>2, <1>3, ResultDef
  <2>2. ASSUME NEW t \in Strings, IsPrefix(Entry(t), b) PROVE FALSE
    <3>1. Lies(b, 0, Entry(t))
      BY <1>2, <2>2, EntryDef, PrefixLies
    <3>2. ReadWord(b, 0) = Len(t) /\ 0 + P + Len(t) <= Len(b) /\ Len(t) \in Nat
      BY <1>2, <3>1, EntryRead, EntryDef
    <3> QED BY <1>2, <1>3, <3>2, Widths
  <2> QED BY <1>1, <2>1, <2>2
<1>4. CASE ~(len = -1 \/ P + len > Len(b))
  <2>1. len \in Nat /\ 0 + P <= Len(b)
    <3>1. 0 + P <= Len(b)
      BY <1>2, <1>4, Widths DEF ReadWord
    <3> QED BY <1>2, <3>1, WordOfRead, LengthsAreNat
  <2>2. 0 + P + len <= Len(b) /\ 0 + P = P /\ P + len \in Nat /\ P + len + P \in Nat
    <3> HIDE DEF len
    <3> QED BY <1>2, <1>4, <2>1, Widths
  <2>3. text \in Strings /\ Len(text) = len /\ Lies(b, 0, Entry(text))
    BY <1>2, <1>4, <2>2, EntryFound
  <2>4. /\ got.caps = Heard(text)
        /\ got.metas = IF n = -1 THEN <<>> ELSE Parsed(b, P + len + P, n)[n].metas
    <3>1. /\ got.caps = (IF len > 0 /\ text \in Utf8 THEN {text} ELSE {}) \cap CapsText
          /\ got.metas = IF n = -1 THEN <<>> ELSE Parsed(b, P + len + P, n)[n].metas
      <4> DEFINE heard == (IF len > 0 /\ text \in Utf8 THEN {text} ELSE {}) \cap CapsText
                 found == IF n = -1 THEN <<>> ELSE Parsed(b, P + len + P, n)[n].metas
      <4>1. Result(b) = [caps |-> heard, metas |-> found]
        BY <1>4, ResultDef
      <4> HIDE DEF heard, found, b
      <4>2. got.caps = heard /\ got.metas = found
        BY <1>2, <4>1 DEF b
      <4> QED BY <4>2 DEF heard, found, b
    <3>2. Heard(text) = (IF len > 0 /\ text \in Utf8 THEN {text} ELSE {}) \cap CapsText
      <4>1. text \in Seq(Bytes)
        BY <2>3 DEF Strings
      <4> QED BY <2>3, <4>1, HeardDef
    <3> QED BY <3>1, <3>2
  <2>p. IsPrefix(Entry(text), b) /\ text \in strings
    BY <1>1, <1>2, <2>3, EntryDef, PrefixLies
  <2>5. CASE n = -1
    <3>2. ASSUME NEW m \in Lengths, starts(text, m, <<>>) PROVE FALSE
      <4>1. Entries(<<>>)[Len(<<>>)] \in Seq(Bytes)
        <5>1. <<>> \in Seq(Bytes)
          OBVIOUS
        <5> QED BY <5>1, EmptyStrings
      <4>2. Lies(b, P + len, Word(m))
        BY <1>2, <2>3, <3>2, <4>1, PrefixParts
      <4>3. P + len + P <= Len(b) /\ Len(Word(m)) = P
        BY <4>2, LengthsAreNat, WordDef DEF Lies
      <4>4. n \in Nat
        BY <1>2, <2>2, <4>3, WordOfRead, LengthsAreNat
      <4> QED BY <2>5, <4>4
    <3>3. NoCount(text)
      BY <2>4, <2>5, <3>2
    <3> HIDE DEF text, n, NoCount, Counted
    <3> QED BY <2>4, <2>p, <3>3
  <2>6. CASE n # -1
    <3>1. P + len + P <= Len(b)
      <4> HIDE DEF len
      <4> QED BY <1>2, <2>2, <2>6, Widths DEF ReadWord
    <3>2. n \in Lengths /\ n \in Nat /\ \A k \in 1..P : b[P + len + k] = Word(n)[k]
      BY <1>2, <2>2, <3>1, WordOfRead, LengthsAreNat
    <3>3. Lies(b, P + len, Word(n))
      <4>1. Len(Word(n)) = P
        BY <3>2, WordDef
      <4> QED BY <3>1, <3>2, <4>1 DEF Lies
    <3> DEFINE start == P + len + P
               s == Parsed(b, start, n)[n]
               ms == s.metas
               bytes == Entries(ms)[Len(ms)]
    <3>4. s \in Steps /\ Found(b, start, n, s)
      <4>1. n \in 0..n
        BY <3>2
      <4> QED BY <1>2, <2>2, <3>1, <3>2, <4>1, ParsedDef, ParsesAny
    <3>5. got.metas = ms
      BY <2>4, <2>6
    <3> HIDE DEF s, n, len, text
    <3>6. ms \in Seq(Strings) /\ Len(ms) \in Nat /\ s.ok \in BOOLEAN
      BY <3>4 DEF Steps
    <3>7. bytes \in Seq(Bytes) /\ Lies(b, start, bytes) /\ s.pos = start + Len(bytes)
      <4>1. Len(ms) \in 0..Len(ms)
        BY <3>6
      <4> QED BY <3>4, <3>6, <4>1, EntriesDef DEF Found
    <3>8. starts(text, n, ms)
      BY <1>2, <2>3, <3>2, <3>3, <3>7, PrefixParts
    <3>9. Len(ms) <= n
      BY <3>2, <3>4, <3>6 DEF Found
    <3>10. ASSUME Len(ms) < n, NEW t \in Strings, starts(text, n, Append(ms, t)) PROVE FALSE
      <4> DEFINE more == Entries(Append(ms, t))[Len(Append(ms, t))]
      <4>1. more = bytes \o Entry(t)
        BY <3>6, EntriesAppend
      <4>2. Entry(t) \in Seq(Bytes)
        BY EntryDef
      <4> HIDE DEF bytes
      <4>3. more \in Seq(Bytes)
        BY <3>7, <4>1, <4>2, Joined
      <4>4. Lies(b, start, more)
        BY <1>2, <2>3, <3>2, <3>10, <4>3, PrefixParts
      <4>5. Lies(b, start + Len(bytes), Entry(t))
        BY <1>2, <2>2, <3>7, <4>1, <4>2, <4>4, LiesBehind
      <4>6. ~s.ok
        BY <3>2, <3>4, <3>6, <3>10 DEF Found
      <4>7. ~Lies(b, s.pos, Entry(t))
        BY <3>4, <4>6 DEF Found
      <4> QED BY <3>7, <4>5, <4>7
    <3>11. Counted(text, n)
      BY <1>1, <2>4, <3>5, <3>8, <3>9, <3>10
    <3> HIDE DEF Counted, NoCount
    <3> QED BY <2>4, <2>p, <3>2, <3>11
  <2> QED BY <2>5, <2>6
<1> QED BY <1>3, <1>4

\* Frame by frame, over both paths of render, the receiver gets the caps and as
\* many metas as the tail has room for, for every number of metas, every tail
\* and every width of a length (sink.rs:510-535, auxblob.rs:38-113).
THEOREM MetasSurvive == AuxSpec => []RoundTrip
<1>1. AuxInit => AuxInv
  BY AuxInitInv
<1>2. AuxInv => RoundTrip
  BY RoundTripHolds
<1> QED BY <1>1, <1>2, AuxStep, PTL DEF AuxSpec

\* Whatever bytes another process left behind the pixels, and whichever of them
\* are text or caps, the receiver gets the metas that lie there up to the first
\* fault, and the caps if they parse (auxblob.rs:75-113, auxblob.rs:53-68).
THEOREM ParseIsBestEffort == AuxSpec => []BestEffort
<1>1. AuxInit => AuxInv
  BY AuxInitInv
<1>2. AuxInv => BestEffort
  BY BestEffortHolds
<1> QED BY <1>1, <1>2, AuxStep, PTL DEF AuxSpec
=============================================================================
