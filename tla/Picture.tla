------------------------------- MODULE Picture -------------------------------
(***************************************************************************)
(* Pixels, from a decoder's memory to the window: which part of the coded  *)
(* picture is shown and how its planes are copied out of memory with       *)
(* padded rows (decode/mf_decode.rs, decode/d3d12_decode.rs, and the       *)
(* VideoToolbox shim's copy), and how the software renderer fits a frame   *)
(* into the window (renderer.rs).  The sizes a session may switch to are   *)
(* those of the host's ladder (crates/renderd-host/src/scale.rs).          *)
(*                                                                         *)
(* A byte, or a BGRA pixel, is a cell: the plane it is of and its column   *)
(* and row there.  The colour that YUV comes to is not modelled, so that   *)
(* a pixel is the cells it was made of.                                    *)
(***************************************************************************)
EXTENDS Integers, FiniteSets

CONSTANTS
  Block,         \* coded sizes are whole blocks; 16 in the codecs
  SessionSizes,  \* [w, h]: sizes a session may be negotiated at, all even
  Windows,       \* [w, h]: sizes of the window
  RowPadding     \* bytes a row in memory may be longer than the coded row

Size == [w : Nat \ {0}, h : Nat \ {0}]

\* What the constants must be; the module that chooses them assumes it.
Assumption ==
  /\ Block \in Nat \ {0} /\ Block % 2 = 0
  /\ SessionSizes \cup Windows \subseteq Size
  /\ \A s \in SessionSizes : s.w % 2 = 0 /\ s.h % 2 = 0
  /\ RowPadding \subseteq Nat

VARIABLES
  decoder,   \* "mf", "d3d12" or "vt"
  session,   \* the session's size
  picture,   \* the size the host encodes at
  aperture,  \* the stream's crop, when the decoder reports it
  pitch,     \* bytes from a row in memory to the next
  frame,     \* the frame decoded: its size and buffer
  window,    \* the window's size
  dest,      \* what was painted, or nothing yet
  at         \* "decoding", "rendering" or "painted"

vars == <<decoder, session, picture, aperture, pitch, frame, window, dest, at>>

Plane(p, col, row) == <<p, col, row>>

Black == <<Plane("black", 0, 0)>>
Old == <<Plane("old", 0, 0)>>     \* what the window's buffer held before
NoFrame == [w |-> 0, h |-> 0, buffer |-> <<>>]

Blocks(n) == ((n + Block - 1) \div Block) * Block

\* The ladder's rungs: lower than the session, of whole blocks, as wide as its
\* shape makes them to the nearest block.
Rungs(s) ==
  {r \in [w : {Block * i : i \in 1 .. s.w}, h : {Block * i : i \in 1 .. s.h}] :
     /\ r.h < s.h
     /\ 2 * (r.w * s.h - s.w * r.h) \in -(Block * s.h) .. Block * s.h}

\* The size in memory: VideoToolbox and the D3D12 texture have it cropped.
Coded == IF decoder = "mf" THEN [w |-> Blocks(picture.w), h |-> Blocks(picture.h)] ELSE picture

TypeOK ==
  /\ decoder \in {"mf", "d3d12", "vt"}
  /\ session \in SessionSizes /\ picture \in Size
  /\ aperture \in {NoFrame} \cup Size
  /\ pitch \in Nat
  /\ {frame.w, frame.h} \subseteq Nat
  /\ window \in Windows
  /\ at \in {"decoding", "rendering", "painted"}

\* The D3D12 decoder is made for the session's size and decodes no other.
Init ==
  /\ decoder \in {"mf", "d3d12", "vt"}
  /\ session \in SessionSizes
  /\ picture \in IF decoder = "d3d12" THEN {session} ELSE {session} \cup Rungs(session)
  /\ aperture \in {NoFrame, picture}
  /\ \E padding \in RowPadding : pitch = Coded.w + padding
  /\ frame = NoFrame
  /\ window \in Windows
  /\ dest = <<>> /\ at = "decoding"

-----------------------------------------------------------------------------
(* Memory as the decoder leaves it, by address: rows at the pitch, the     *)
(* chroma plane of NV12 after all the coded luma rows.                     *)

Nv12Memory ==
  [a \in 0 .. (pitch * ((Coded.h * 3) \div 2)) - 1 |->
     LET row == a \div pitch
     IN IF row < Coded.h THEN Plane("Y", a % pitch, row) ELSE Plane("UV", a % pitch, row - Coded.h)]

BgraMemory == [a \in 0 .. (pitch * Coded.h) - 1 |-> Plane("BGRA", a % pitch, a \div pitch)]

-----------------------------------------------------------------------------
(* The decoders' copies.                                                   *)

Min2(a, b) == IF a < b THEN a ELSE b

MutVisibleSize(s, c, crop) == IF crop # NoFrame THEN crop ELSE c

\* visible_size: the crop if it is known, else the session's size if the coded
\* one is that padded, else all of it.
VisibleSize(s, c, crop) ==
  LET PaddingOf(coded, shown) == coded - shown \in 0 .. Block - 1
  IN IF crop # NoFrame /\ crop.w <= c.w /\ crop.h <= c.h THEN crop
     ELSE IF PaddingOf(c.w, s.w) /\ PaddingOf(c.h, s.h) THEN s ELSE c

\* n rows of a width from a memory, one after the other.
Rows(memory, offset, n, width) ==
  [i \in 0 .. (n * width) - 1 |-> memory[offset + (i \div width) * pitch + (i % width)]]

\* One run of cells after another.
Joined(a, b) ==
  LET n == Cardinality(DOMAIN a)
  IN [i \in 0 .. n + Cardinality(DOMAIN b) - 1 |-> IF i < n THEN a[i] ELSE b[i - n]]

MutCopyNv12Planes(width, height) ==
  Joined(Rows(Nv12Memory, 0, height, width),
         Rows(Nv12Memory, height * pitch, height \div 2, width))

\* The chroma plane starts after the coded rows, not the visible ones.
CopyNv12Planes(width, height) ==
  Joined(Rows(Nv12Memory, 0, height, width),
         Rows(Nv12Memory, Coded.h * pitch, height \div 2, width))

\* sample_to_frame of Media Foundation, into system memory.
SampleToFrame ==
  /\ at = "decoding" /\ decoder = "mf"
  /\ LET visible == VisibleSize(session, Coded, aperture)
         width == Min2(visible.w, Coded.w)
         height == Min2(visible.h, Coded.h)
     IN frame' = [w |-> width, h |-> height, buffer |-> CopyNv12Planes(width, height)]
  /\ at' = "rendering"
  /\ UNCHANGED <<decoder, session, picture, aperture, pitch, window, dest>>

\* The D3D12 read-back, of the planes' footprints.
ReadBack ==
  /\ at = "decoding" /\ decoder = "d3d12"
  /\ frame' = [w |-> session.w, h |-> session.h,
               buffer |-> Joined(Rows(Nv12Memory, 0, Coded.h, session.w),
                                 Rows(Nv12Memory, Coded.h * pitch, Coded.h \div 2, session.w))]
  /\ at' = "rendering"
  /\ UNCHANGED <<decoder, session, picture, aperture, pitch, window, dest>>

\* renderd_CVPixelBufferCopyBGRA: pixel by pixel, rows without their padding.
CopyBGRA ==
  /\ at = "decoding" /\ decoder = "vt"
  /\ frame' = [w |-> Coded.w, h |-> Coded.h, buffer |-> Rows(BgraMemory, 0, Coded.h, Coded.w)]
  /\ at' = "rendering"
  /\ UNCHANGED <<decoder, session, picture, aperture, pitch, window, dest>>

-----------------------------------------------------------------------------
(* SoftRenderer::render_frame.                                             *)

Clamp(n, limit) == IF n < 1 THEN 1 ELSE Min2(n, limit)

\* a * b / c to the nearest integer
Scaled(a, b, c) == (2 * a * b + c) \div (2 * c)

\* compute_aspect_fit_rect
AspectFit(f, t) ==
  LET byWidth == t.w * f.h <= t.h * f.w
      w == IF byWidth THEN t.w ELSE Clamp(Scaled(f.w, t.h, f.h), t.w)
      h == IF byWidth THEN Clamp(Scaled(f.h, t.w, f.w), t.h) ELSE t.h
  IN [x |-> (t.w - w) \div 2, y |-> (t.h - h) \div 2, w |-> w, h |-> h]

Lumas == frame.w * frame.h
ChromaWidth == ((frame.w + 1) \div 2) * 2
ChromaRows == (frame.h + 1) \div 2

\* The pixel of the frame at a column and row, out of its buffer.
Nv12ToBgra(col, row) ==
  LET chroma == Lumas + (row \div 2) * ChromaWidth + (col \div 2) * 2
  IN <<frame.buffer[row * frame.w + col], frame.buffer[chroma], frame.buffer[chroma + 1]>>

PixelOf(col, row) ==
  IF decoder = "vt" THEN <<frame.buffer[row * frame.w + col]>> ELSE Nv12ToBgra(col, row)

\* Frames whose buffer is too short for their size are not painted.
LongEnough ==
  Cardinality(DOMAIN frame.buffer) >= IF decoder = "vt" THEN Lumas ELSE Lumas + ChromaWidth * ChromaRows

\* scale_bgra and scale_nv12: the nearest pixel, into a rectangle.
Scale(r) ==
  [p \in (0 .. window.w - 1) \X (0 .. window.h - 1) |->
     LET col == p[1] - r.x
         row == p[2] - r.y
     IN IF col \in 0 .. r.w - 1 /\ row \in 0 .. r.h - 1
        THEN PixelOf((col * frame.w) \div r.w, (row * frame.h) \div r.h)
        ELSE IF r.w < window.w \/ r.h < window.h THEN Black ELSE Old]

\* convert_nv12_1to1: pixel by pixel, for a window just as large.
OneToOne == [p \in (0 .. window.w - 1) \X (0 .. window.h - 1) |-> PixelOf(p[1], p[2])]

RenderFrame ==
  /\ at = "rendering"
  /\ dest' = IF ~LongEnough THEN [p \in (0 .. window.w - 1) \X (0 .. window.h - 1) |-> Old]
             ELSE IF window = [w |-> frame.w, h |-> frame.h] THEN OneToOne
             ELSE Scale(AspectFit([w |-> frame.w, h |-> frame.h], window))
  /\ at' = "painted"
  /\ UNCHANGED <<decoder, session, picture, aperture, pitch, frame, window>>

Next == SampleToFrame \/ ReadBack \/ CopyBGRA \/ RenderFrame

Spec == Init /\ [][Next]_vars

-----------------------------------------------------------------------------
(* Properties.                                                             *)

\* The cells of one pixel of the picture.
PictureAt(x, y) ==
  IF decoder = "vt" THEN <<Plane("BGRA", x, y)>>
  ELSE <<Plane("Y", x, y), Plane("UV", 2 * (x \div 2), y \div 2), Plane("UV", 2 * (x \div 2) + 1, y \div 2)>>

\* A column (row) of n is shown at each of m places: in order, from the first to
\* one no more than a step from the last.
InOrder(shown, n, m) ==
  /\ shown[0] = 0
  /\ shown[m - 1] + (n \div m) + 1 >= n
  /\ \A i \in 1 .. m - 1 : shown[i] >= shown[i - 1] /\ shown[i] < n

\* A rectangle has the picture's shape, to the nearest pixel.
InShape(r) ==
  \/ r.w = window.w /\ 2 * (r.w * picture.h - r.h * picture.w) \in -picture.w .. picture.w
  \/ r.h = window.h /\ 2 * (r.w * picture.h - r.h * picture.w) \in -picture.h .. picture.h
  \/ r.w = 1 \/ r.h = 1

\* The window shows all of the host's picture and nothing but it, upright and
\* in its shape: each pixel is one of the picture, of its own luma and chroma,
\* in order, with black beside it and neither the padding of coded blocks nor
\* what an earlier frame left behind.
PictureTrue ==
  at = "painted" =>
    \E r \in [x : 0 .. window.w - 1, y : 0 .. window.h - 1, w : 1 .. window.w, h : 1 .. window.h] :
      /\ InShape(r) /\ (r.w = window.w \/ r.h = window.h)
      /\ window.w - r.w - 2 * r.x \in {0, 1} /\ window.h - r.h - 2 * r.y \in {0, 1}
      /\ \E cols \in {[i \in 0 .. r.w - 1 |-> dest[<<r.x + i, r.y>>][1][2]]} :
         \E rows \in {[j \in 0 .. r.h - 1 |-> dest[<<r.x, r.y + j>>][1][3]]} :
           /\ InOrder(cols, picture.w, r.w) /\ InOrder(rows, picture.h, r.h)
           /\ \A i \in 0 .. r.w - 1, j \in 0 .. r.h - 1 :
                dest[<<r.x + i, r.y + j>>] = PictureAt(cols[i], rows[j])
      /\ \A p \in DOMAIN dest :
           \/ p[1] \in r.x .. r.x + r.w - 1 /\ p[2] \in r.y .. r.y + r.h - 1
           \/ dest[p] = Black
=============================================================================
