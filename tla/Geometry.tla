------------------------------ MODULE Geometry ------------------------------
(***************************************************************************)
(* The layout of a frame in its payload: what the publishers declare in    *)
(* the header, what validate_geometry (validate.rs) accepts before the     *)
(* source builds a buffer, and what header_pixels_to_ndarray_view          *)
(* (ndarray_ext.rs) accepts before an SDK consumer gets an array.          *)
(*                                                                         *)
(* Header fields are u32 and lengths usize; both widths are parameters.    *)
(***************************************************************************)
EXTENDS Integers, Sequences

CONSTANTS
  U,       \* a header field is below U
  W,       \* a usize is below W
  Fields,  \* values the fields of a header take
  Sizes,   \* lengths a payload has
  Formats  \* format names a header carries

MaxPlanes == 4

ASSUME GeometryAssumption ==
  /\ U \in Nat \ {0} /\ W \in Nat /\ U <= W
  /\ Fields \subseteq 0..(U - 1) /\ Sizes \subseteq 0..(W - 1)

VARIABLES
  origin,   \* who wrote the header: "wire" for any process, "sdk" or "sink"
  payload,  \* length of the payload
  header,
  verdict,  \* of validate_geometry
  view      \* of header_pixels_to_ndarray_view

geoVars == <<origin, payload, header, verdict, view>>

Planes == 1..MaxPlanes

Smaller(a, b) == IF a < b THEN a ELSE b

\* The pixel region: the payload without the aux blob behind it.
PixelSize == payload - Smaller(header.aux_size, payload)

----------------------------------------------------------------------------
\* validate.rs

Channels(format) ==
  CASE format \in {"BGR", "RGB"}   -> 3
    [] format \in {"BGRA", "RGBA"} -> 4
    [] OTHER                       -> 0

Chroma(n) == (n + 1) \div 2

\* Mutant of PlaneHeights: the chroma planes are not subsampled.
FullHeights(format, height) ==
  CASE format \in {"BGR", "RGB"} -> <<height>>
    [] format = "I420"           -> <<height, height, height>>
    [] format = "NV12"           -> <<height, height>>
    [] OTHER                     -> <<>>

\* Rows of each plane, none for a format that is not supported.
PlaneHeights(format, height) ==
  CASE format \in {"BGR", "RGB"} -> <<height>>
    [] format = "I420"           -> <<height, Chroma(height), Chroma(height)>>
    [] format = "NV12"           -> <<height, Chroma(height)>>
    [] OTHER                     -> <<>>

\* Mutant of PlaneFits: the arithmetic wraps.
WrappedFits(offset, stride, rows, size) ==
  (offset + ((stride * rows) % W)) % W <= size

\* checked_mul, then checked_add, then the comparison.
PlaneFits(offset, stride, rows, size) ==
  /\ stride * rows < W
  /\ offset + stride * rows < W
  /\ offset + stride * rows <= size

ValidateGeometry(h, size) ==
  LET heights == PlaneHeights(h.format, h.height)
  IN  /\ h.n_planes \in Planes
      /\ heights # <<>> /\ Len(heights) = h.n_planes
      /\ \A i \in 1..Len(heights) : PlaneFits(h.offset[i], h.stride[i], heights[i], size)

\* The bytes of a row that a VideoMeta of this format and width exposes to a
\* reader; the stride only says where the next row starts.
RowLengths(format, width) ==
  CASE format \in {"BGR", "RGB"} -> <<3 * width>>
    [] format = "I420"           -> <<width, Chroma(width), Chroma(width)>>
    [] format = "NV12"           -> <<width, 2 * Chroma(width)>>
    [] OTHER                     -> <<>>

\* A stride of the header as the VideoMeta has it, which is an i32.
Signed(stride) == IF 2 * stride < U THEN stride ELSE stride - U

----------------------------------------------------------------------------
\* ndarray_ext.rs

RowBytes(h) == (h.width * Channels(h.format)) % W
Stride0(h)  == IF h.stride[1] # 0 THEN h.stride[1] ELSE RowBytes(h)

\* Mutant of ViewChecked: rows may be wider than the stride.
AnyStride(h, size) ==
  /\ Channels(h.format) # 0
  /\ Stride0(h) * h.height < W
  /\ Stride0(h) * h.height <= size

\* The checks the function makes itself.
ViewChecked(h, size) ==
  /\ Channels(h.format) # 0
  /\ Stride0(h) >= RowBytes(h)
  /\ Stride0(h) * h.height < W
  /\ Stride0(h) * h.height <= size

\* Steps along an axis of n elements.
Along(n) == IF n = 0 THEN 0 ELSE n - 1

\* The distance of the last element of a view from its first.  An empty axis
\* adds nothing, but the other axes still do.
LastElement(h) ==
  Along(h.height) * Stride0(h) + Along(h.width) * Channels(h.format)
    + Along(Channels(h.format))

\* ArrayView3::from_shape (ndarray 0.16) accepts a view of `size` bytes whose
\* elements lie inside and do not overlap; an empty one may also end at `size`.
FromShape(h, size) ==
  IF h.width = 0 \/ h.height = 0 THEN LastElement(h) <= size
  ELSE /\ LastElement(h) < size
       /\ h.height = 1 \/ Stride0(h) >= h.width * Channels(h.format)

----------------------------------------------------------------------------
\* The publishers.

\* Mutant of SdkHeader: the stride is in pixels.
PixelStride(format, width, height, n) ==
  [format |-> format, width |-> width, height |-> height, n_planes |-> 1, aux_size |-> 0,
   stride |-> [i \in Planes |-> IF i > 1 THEN 0 ELSE width],
   offset |-> [i \in Planes |-> 0]]

\* VideoFramePublisher::publish_frame of n bytes, stride0 left to it.
SdkHeader(format, width, height, n) ==
  [format |-> format, width |-> width, height |-> height, n_planes |-> 1, aux_size |-> 0,
   stride |-> [i \in Planes |-> IF i > 1 THEN 0
                                ELSE IF height > 0 THEN (n \div height) % U ELSE n % U],
   offset |-> [i \in Planes |-> 0]]

\* GstVideoInfo: rows are padded to 4 bytes, chroma rows hold half the pixels.
Padded(n) == 4 * ((n + 3) \div 4)

Strides(format, width) ==
  CASE format \in {"BGR", "RGB"} -> <<Padded(3 * width)>>
    [] format = "I420" -> <<Padded(width), Padded(Chroma(width)), Padded(Chroma(width))>>
    [] format = "NV12" -> <<Padded(width), Padded(width)>>
    [] OTHER           -> <<>>

\* Bytes of each plane; the first of several has an even number of rows.
PlaneSizes(format, width, height) ==
  LET s == Strides(format, width)
  IN  [i \in 1..Len(s) |-> s[i] * (IF Len(s) = 1 THEN height
                                   ELSE IF i = 1 THEN 2 * Chroma(height)
                                   ELSE Chroma(height))]

\* The bytes in front of plane i, of all planes when i is one more.
PlaneStart(format, width, height, i) ==
  LET size == PlaneSizes(format, width, height)
  IN  CASE i = 1 -> 0
        [] i = 2 -> size[1]
        [] i = 3 -> size[1] + size[2]
        [] OTHER -> size[1] + size[2] + size[3]

FrameSize(format, width, height) ==
  PlaneStart(format, width, height, Len(Strides(format, width)) + 1)

\* The layout set_caps caches and build_header stamps on each frame.
SinkHeader(format, width, height, aux) ==
  LET n == Len(Strides(format, width))
  IN  [format |-> format, width |-> width, height |-> height, n_planes |-> n,
       aux_size |-> aux % U,
       stride |-> [i \in Planes |-> IF i <= n THEN Strides(format, width)[i] % U ELSE 0],
       offset |-> [i \in Planes |->
                     IF i <= n THEN PlaneStart(format, width, height, i) % U ELSE 0]]

\* A pool buffer was loaned with `total` bytes, the current frame's pixels are
\* clamped to it and everything behind them is declared the aux tail.
ZeroCopyHeader(format, width, height, total) ==
  SinkHeader(format, width, height,
             total - Smaller(FrameSize(format, width, height), total))

----------------------------------------------------------------------------
\* Any header: what it says of planes its format does not have is never read,
\* beyond the first.
FromWire ==
  /\ origin = "wire" /\ payload \in Sizes
  /\ \E format \in Formats, width \in Fields, height \in Fields, n \in 0..(MaxPlanes + 1),
        aux \in Fields :
       LET read == {1} \cup 1..Len(PlaneHeights(format, 0))
       IN  \E stride \in [read -> Fields], offset \in [read -> Fields] :
             header = [format |-> format, width |-> width, height |-> height,
                       n_planes |-> n, aux_size |-> aux,
                       stride |-> [i \in Planes |-> IF i \in read THEN stride[i] ELSE 0],
                       offset |-> [i \in Planes |-> IF i \in read THEN offset[i] ELSE 0]]

FromSdk ==
  /\ origin = "sdk"
  /\ \E format \in Formats, width \in Fields, height \in Fields :
       /\ payload \in Sizes \cup {width * height * Channels(format)} /\ payload < W
       /\ header = SdkHeader(format, width, height, payload)

\* GstVideoInfo's strides are i32.
FromSink ==
  /\ origin = "sink"
  /\ \E format \in Formats \cap {"BGR", "RGB", "I420", "NV12"},
        width \in Fields, height \in Fields :
       /\ FrameSize(format, width, height) < W
       /\ \A i \in 1..Len(Strides(format, width)) : 2 * Strides(format, width)[i] < U
       /\ payload \in Sizes \cup {FrameSize(format, width, height)}
       /\ header = ZeroCopyHeader(format, width, height, payload)

GeoInit ==
  /\ verdict = "-" /\ view = "-"
  /\ FromWire \/ FromSdk \/ FromSink

Validate ==
  /\ verdict = "-"
  /\ verdict' = IF ValidateGeometry(header, PixelSize) THEN "accepted" ELSE "rejected"
  /\ UNCHANGED <<origin, payload, header, view>>

\* The view is over the pixels the function needs.
View ==
  /\ view = "-"
  /\ view' = IF ~ViewChecked(header, PixelSize) THEN "rejected"
             ELSE IF FromShape(header, Stride0(header) * header.height) THEN "granted"
             ELSE "refused"
  /\ UNCHANGED <<origin, payload, header, verdict>>

GeoNext == Validate \/ View

GeoSpec == GeoInit /\ [][GeoNext]_geoVars

----------------------------------------------------------------------------
\* What readers of the buffer take for row `row` of plane i lies in the pixels.
RowsOf(i) == 0..(PlaneHeights(header.format, header.height)[i] - 1)
Columns(i) == 0..(RowLengths(header.format, header.width)[i] - 1)

RowsInPixels ==
  \A i \in 1..header.n_planes :
    \A row \in RowsOf(i), x \in Columns(i) :
      header.offset[i] + row * Signed(header.stride[i]) + x \in 0..(PixelSize - 1)

FullRows ==
  \A i \in 1..header.n_planes :
    Signed(header.stride[i]) >= RowLengths(header.format, header.width)[i]

\* Each byte of each row that readers take from an accepted frame of the sink
\* is a pixel byte of the payload, and so for any header whose strides are no
\* shorter than a row (validate.rs:42-45, source.rs:481-489).
ReadsInside ==
  verdict = "accepted" /\ (origin = "sink" \/ FullRows) => RowsInPixels

\* The same of every accepted header, as validate.rs:42-45 has it: "Reject a
\* header whose declared per-plane layout would read past the
\* `pixel_size`-byte payload".  VideoMeta is only attached to a buffer as large
\* as the default layout of its format, so shorter ones do not count.
AcceptedNeverPast ==
  verdict = "accepted"
    /\ PixelSize >= FrameSize(header.format, header.width, header.height)
    => RowsInPixels

\* Frames of the publishers themselves are accepted: the SDK's packed frames of
\* any length, the sink's whenever the loan holds the current caps' frame
\* (transport.rs:184-189, sink.rs:505-507, 535).
PublishedAccepted ==
  verdict = "rejected" =>
    \/ origin = "wire"
    \/ origin = "sdk" /\ header.format \notin {"BGR", "RGB"}
    \/ origin = "sink" /\ payload < FrameSize(header.format, header.width, header.height)

\* Where row lengths cannot wrap, the checks before from_shape are enough for
\* it: no view of a frame that has pixels is refused after them
\* (ndarray_ext.rs:30-54).  Empty frames are: their array is rejected as out of
\* bounds, whatever the height, unless the width is 0 and the stride is not.
ViewNeverRefused ==
  U * 4 <= W => (view = "refused" => header.width = 0 \/ header.height = 0)

\* A contiguous packed frame of the SDK has a view at the other end, one
\* without pixels has none.
ContiguousViewable ==
  /\ origin = "sdk" /\ Channels(header.format) # 0 /\ U * 4 <= W
  /\ payload = header.width * header.height * Channels(header.format)
  /\ header.width * Channels(header.format) < U
  => view \in {"-", IF header.width = 0 \/ header.height = 0 THEN "refused" ELSE "granted"}
=============================================================================
