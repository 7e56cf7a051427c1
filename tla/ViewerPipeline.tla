---------------------------- MODULE ViewerPipeline ----------------------------
(***************************************************************************)
(* From a complete frame to the window: the decoding half of the receive   *)
(* loop (crates/renderd-viewer/src/network/data.rs), the Media Foundation  *)
(* and VideoToolbox decoders with their output queues (decode/), the       *)
(* FrameQueue, and the window's thread with its renderer: the D3D11        *)
(* presenter, and the software renderer it falls back to (app.rs,          *)
(* render/, renderer.rs).  What frames the loop is given, and whether they *)
(* can be decoded, is ReceiveWindow's.                                     *)
(*                                                                         *)
(* The Media Foundation decoder decodes within the call and may leave      *)
(* frames on the GPU, in surfaces of a pool that it reuses once nobody     *)
(* holds them.  VideoToolbox calls back later, from a thread of its own.   *)
(***************************************************************************)
EXTENDS Integers, Sequences, SequencesExt

CONSTANTS
  MaxFrames,     \* frames of the first session
  MaxLater,      \* and of the ones after it
  MaxSessions,
  Capacity,      \* the FrameQueue's, 3 in App::new
  OutputCap,     \* of a decoder's output queue, 4
  Delay,         \* frames the Media Foundation transform keeps to itself
  Surfaces       \* output samples asked of it, 8

\* What the constants must be; the module that chooses them assumes it.
Assumption ==
  /\ {MaxFrames, MaxLater, MaxSessions, Capacity, OutputCap, Surfaces} \subseteq Nat \ {0}
  /\ Delay \in Nat /\ MaxLater <= MaxFrames
  /\ Surfaces > Capacity + 2 + Delay

Memory == 0                       \* a frame in system memory
Surface == 1 .. Surfaces

VARIABLES
  backend,    \* "mf" or "vt"
  session,    \* sessions negotiated
  phase,      \* "between", "resetting" or "streaming"
  ready,      \* the decoder's initialize succeeded
  fed,        \* frames given to the decoder in this session
  hardware,   \* VideoToolbox: a decompression session exists
  inside,     \* frames in the transform, or in VideoToolbox: their ids
  output,     \* output_queue
  at,         \* the receive loop, from one pass to the next
  pushed,     \* pushed_any
  queue,      \* FrameQueue
  wakes,      \* a Frame event is posted
  hand,       \* the frame popped to be rendered
  renderer,   \* "none", "gpu" or "soft"
  gpuFrames,  \* D3d11Context::gpu_frames
  shown,      \* D3d11Presenter::shown, which holds its surface
  view,       \* the frame in the window
  failed,     \* history: a frame was lost to a failing renderer
  pool        \* what is in each surface of the transform: a frame's id

decoder == <<ready, fed, hardware, inside, output, pool>>
window == <<hand, renderer, gpuFrames, shown, view, failed>>
vars == <<backend, session, phase, decoder, at, pushed, queue, wakes, window>>

Frame == [session : 1 .. MaxSessions, id : 1 .. MaxFrames, surface : 0 .. Surfaces]
Blank == [session |-> 0, id |-> 0]

TypeOK ==
  /\ backend \in {"mf", "vt"}
  /\ session \in 0 .. MaxSessions
  /\ phase \in {"between", "resetting", "streaming"}
  /\ {ready, hardware, pushed, wakes, gpuFrames, failed} \subseteq BOOLEAN
  /\ fed \in 0 .. MaxFrames
  /\ inside \in Seq(1 .. MaxFrames)
  /\ {output, queue, hand, shown} \subseteq Seq(Frame)
  /\ Len(output) <= OutputCap /\ Len(queue) <= Capacity
  /\ Len(hand) <= 1 /\ Len(shown) <= 1
  /\ at \in {"waiting", "next", "decoding", "draining", "leaving"}
  /\ renderer \in {"none", "gpu", "soft"}
  /\ view \in {Blank} \cup [session : 1 .. MaxSessions, id : 1 .. MaxFrames]
  /\ pool \in [Surface -> 0 .. MaxFrames]

Init ==
  /\ backend \in {"mf", "vt"}
  /\ session = 0 /\ phase = "between"
  /\ ready = FALSE /\ fed = 0 /\ hardware = FALSE
  /\ inside = <<>> /\ output = <<>> /\ pool = [s \in Surface |-> 0]
  /\ at = "waiting" /\ pushed = FALSE /\ queue = <<>> /\ wakes = FALSE
  /\ hand = <<>> /\ renderer = "none" /\ gpuFrames = FALSE /\ shown = <<>>
  /\ view = Blank /\ failed = FALSE

More == fed < IF session = 1 THEN MaxFrames ELSE MaxLater

MutPushed(q, f, cap) == Append(IF Len(q) > cap THEN Tail(q) ELSE q, f)

\* A queue that drops its oldest to make room: FrameQueue::push, and the
\* decoders' output queues.
Pushed(q, f, cap) == Append(IF Len(q) >= cap THEN Tail(q) ELSE q, f)

Holds(f, s) == f.session = session /\ f.surface = s

MutFree == {s \in Surface : ~\E f \in ToSet(output) \cup ToSet(queue) \cup ToSet(hand) : Holds(f, s)}

\* Surfaces nobody holds: each GpuSurface keeps its sample, the one on screen
\* included, and the transform reuses a sample that came back.
Free ==
  {s \in Surface :
     ~\E f \in ToSet(output) \cup ToSet(queue) \cup ToSet(hand) \cup ToSet(shown) : Holds(f, s)}

-----------------------------------------------------------------------------
(* The session, as far as the decoder and the queue see it.                *)

BeginSession ==
  /\ phase = "between" /\ session < MaxSessions
  /\ session' = session + 1
  /\ phase' = "resetting"
  /\ fed' = 0
  /\ UNCHANGED <<backend, ready, hardware, inside, output, pool, at, pushed, queue, wakes, window>>

Fresh(r) ==
  /\ phase' = "streaming"
  /\ inside' = <<>> /\ output' = <<>> /\ hardware' = FALSE
  /\ pool' = [s \in Surface |-> 0]
  /\ ready' = r
  /\ UNCHANGED <<backend, session, fed, at, pushed, queue, wakes, window>>

\* reset and initialize of the Media Foundation decoder: the transform is made
\* anew, and may not be had.
ResetTransform ==
  /\ phase = "resetting" /\ backend = "mf"
  /\ \E r \in BOOLEAN : Fresh(r)

\* ... and of the VideoToolbox one, which waits for the frames in its session;
\* the next is made of the first packet's parameter sets.
ResetVideoToolbox ==
  /\ phase = "resetting" /\ backend = "vt"
  /\ inside = <<>>
  /\ Fresh(TRUE)

MutEndSession ==
  /\ phase = "streaming" /\ at = "waiting"
  /\ phase' = "between"
  /\ UNCHANGED <<backend, session, decoder, at, pushed, queue, wakes, window>>

\* The connection is gone: the receive loop returns and the queue is cleared.
EndSession ==
  /\ phase = "streaming" /\ at = "waiting"
  /\ phase' = "between"
  /\ queue' = <<>>
  /\ UNCHANGED <<backend, session, decoder, at, pushed, wakes, window>>

-----------------------------------------------------------------------------
(* decode_packet                                                           *)

NextFrame == phase = "streaming" /\ at \in {"waiting", "next"} /\ More

\* The loop's next frame goes to the decoder: Media Foundation takes it at once ...
SubmitInput ==
  /\ NextFrame /\ backend = "mf" /\ ready
  /\ fed' = fed + 1
  /\ inside' = Append(inside, fed + 1)
  /\ at' = "decoding"
  /\ UNCHANGED <<backend, session, phase, ready, hardware, output, pool, pushed, queue, wakes, window>>

\* ... and VideoToolbox in its own time, in the session there is ...
DecodeFrame ==
  /\ NextFrame /\ backend = "vt" /\ ready /\ hardware
  /\ fed' = fed + 1
  /\ inside' = Append(inside, fed + 1)
  /\ at' = "draining"
  /\ UNCHANGED <<backend, session, phase, ready, hardware, output, pool, pushed, queue, wakes, window>>

\* ... or in one made for the other parameter sets the frame brings, once the
\* frames in the old one are out.
NewParameterSets ==
  /\ NextFrame /\ backend = "vt"
  /\ inside = <<>>
  /\ fed' = fed + 1
  /\ hardware' \in BOOLEAN
  /\ inside' = IF hardware' THEN <<fed + 1>> ELSE <<>>
  /\ at' = "draining"
  /\ UNCHANGED <<backend, session, phase, ready, output, pool, pushed, queue, wakes, window>>

\* There is no decoder to speak of, or it refuses the frame: the rest of the
\* pass is skipped and a keyframe asked for.
DecodeFails ==
  /\ NextFrame
  /\ fed' = fed + 1
  /\ at' = "leaving"
  /\ UNCHANGED <<backend, session, phase, ready, hardware, inside, output, pool, pushed, queue, wakes, window>>

\* sample_to_frame: the transform's oldest frame in surface s, left there while
\* the presenter takes those, else copied.
SampleToFrame(s) ==
  [session |-> session, id |-> inside[1], surface |-> IF gpuFrames THEN s ELSE Memory]

\* drain_output
ProcessOutput ==
  /\ at = "decoding" /\ Len(inside) > 0 /\ Free # {}
  /\ LET s == CHOOSE s \in Free : TRUE
     IN /\ output' = Pushed(output, SampleToFrame(s), OutputCap)
        /\ pool' = [pool EXCEPT ![s] = inside[1]]
  /\ inside' = Tail(inside)
  /\ UNCHANGED <<backend, session, phase, ready, fed, hardware, at, pushed, queue, wakes, window>>

\* MF_E_TRANSFORM_NEED_MORE_INPUT, with a few frames still inside.
NeedMoreInput ==
  /\ at = "decoding" /\ Len(inside) <= Delay
  /\ at' = "draining"
  /\ UNCHANGED <<backend, session, phase, decoder, pushed, queue, wakes, window>>

\* VideoToolbox's callback: a frame, or an error that is only logged.
OutputCallback ==
  /\ backend = "vt" /\ inside # <<>>
  /\ inside' = Tail(inside)
  /\ output' \in {output, Pushed(output, [session |-> session, id |-> inside[1], surface |-> Memory], OutputCap)}
  /\ UNCHANGED <<backend, session, phase, ready, fed, hardware, pool, at, pushed, queue, wakes, window>>

-----------------------------------------------------------------------------
(* The receive loop after it.                                              *)

\* receive_frame, pushed into the FrameQueue.
Drain ==
  /\ at = "draining" /\ output # <<>>
  /\ queue' = Pushed(queue, output[1], Capacity)
  /\ output' = Tail(output)
  /\ pushed' = TRUE
  /\ UNCHANGED <<backend, session, phase, ready, fed, hardware, inside, pool, at, wakes, window>>

\* The decoder has nothing more, and the pass another frame.
NextOfPass ==
  /\ at = "draining" /\ output = <<>> /\ More
  /\ at' = "next"
  /\ UNCHANGED <<backend, session, phase, decoder, pushed, queue, wakes, window>>

MutEndPass ==
  /\ at = "leaving" \/ (at = "draining" /\ output = <<>>)
  /\ at' = "waiting" /\ pushed' = FALSE
  /\ wakes' = (wakes \/ (pushed /\ at = "draining"))
  /\ UNCHANGED <<backend, session, phase, decoder, queue, window>>

\* ... or the pass is over: the window's thread is woken once.
EndPass ==
  /\ at = "leaving" \/ (at = "draining" /\ output = <<>>)
  /\ at' = "waiting" /\ pushed' = FALSE
  /\ wakes' = (wakes \/ pushed)
  /\ UNCHANGED <<backend, session, phase, decoder, queue, window>>

-----------------------------------------------------------------------------
(* The window's thread.                                                    *)

\* resumed: the window is there, and its renderer, or the software one.
Resumed ==
  /\ renderer = "none"
  /\ renderer' \in IF backend = "mf" THEN {"gpu", "soft"} ELSE {"soft"}
  /\ gpuFrames' = (renderer' = "gpu")
  /\ wakes' = TRUE                   \* the new window asks to be painted
  /\ UNCHANGED <<backend, session, phase, decoder, at, pushed, queue, hand, shown, view, failed>>

\* pop_latest: the newest frame, for the others are late.
Latest == IF queue = <<>> THEN <<>> ELSE <<Last(queue)>>

\* present_next_frame, on a Frame event or a repaint.
Take ==
  /\ renderer # "none" /\ hand = <<>> /\ wakes
  /\ wakes' = FALSE
  /\ hand' = Latest
  /\ queue' = <<>>
  /\ UNCHANGED <<backend, session, phase, decoder, at, pushed, renderer, gpuFrames, shown, view, failed>>

InView(f) == [session |-> f.session, id |-> f.id]

\* render_frame and present of the D3D11 presenter, which keeps the frame, and
\* with it the surface, until it is given another.
Draw ==
  /\ hand # <<>> /\ renderer = "gpu"
  /\ hand' = <<>> /\ shown' = hand
  /\ view' = InView(hand[1])
  /\ UNCHANGED <<backend, session, phase, decoder, at, pushed, queue, wakes, renderer, gpuFrames, failed>>

\* ... and of the software renderer, which has no picture to copy out of a
\* surface; it paints the window all the same and reports no error.
Paint ==
  /\ hand # <<>> /\ renderer = "soft"
  /\ hand' = <<>>
  /\ view' = IF hand[1].surface = Memory THEN InView(hand[1]) ELSE view
  /\ UNCHANGED <<backend, session, phase, decoder, at, pushed, queue, wakes, renderer, gpuFrames, shown, failed>>

\* on_render_error: the presenter is replaced for good; the frame is lost.
RenderFails ==
  /\ hand # <<>> /\ renderer = "gpu"
  /\ hand' = <<>> /\ shown' = <<>>
  /\ renderer' = "soft" /\ gpuFrames' = FALSE
  /\ failed' = TRUE
  /\ UNCHANGED <<backend, session, phase, decoder, at, pushed, queue, wakes, view>>

\* The window is exposed, resized, or told of the connection.
Redraw ==
  /\ renderer # "none" /\ ~wakes
  /\ wakes' = TRUE
  /\ UNCHANGED <<backend, session, phase, decoder, at, pushed, queue, window>>

-----------------------------------------------------------------------------
FrameOfPass == SubmitInput \/ DecodeFrame \/ NewParameterSets \/ DecodeFails

Loop ==
  \/ FrameOfPass
  \/ ProcessOutput \/ NeedMoreInput \/ Drain \/ NextOfPass \/ EndPass

Window == Take \/ Draw \/ Paint \/ RenderFails

Next ==
  \/ BeginSession \/ ResetTransform \/ ResetVideoToolbox \/ EndSession
  \/ Loop \/ OutputCallback
  \/ Resumed \/ Redraw \/ Window

Spec == Init /\ [][Next]_vars

-----------------------------------------------------------------------------
(* Properties.                                                             *)

\* What the window shows is a live view: frames of the session in progress,
\* each newer than the last, whatever was decoded late, dropped from a queue,
\* left over from a session that ended or lost to a failing renderer.
Live == INSTANCE LiveView WITH
  live <- session,
  on <- phase # "between",
  taken <- [i \in DOMAIN hand |-> [session |-> hand[i].session, id |-> hand[i].id]]

ShowsLive == Live!Spec

\* The decoder finds a surface to decode into, however many frames wait.
NeverDry == at = "decoding" /\ inside # <<>> => Free # {}

\* A surface holds the picture of the frame that has it for as long as somebody
\* does, the window included, and yet the decoder never runs out of them.
PicturesIntact ==
  /\ NeverDry
  /\ \A f \in ToSet(output) \cup ToSet(queue) \cup ToSet(hand) \cup ToSet(shown) :
       f.surface # Memory /\ f.session = session => pool[f.surface] = f.id

\* A frame is waiting that is newer than what is in view.
Behind ==
  phase = "streaming" /\ ~failed /\ \E f \in ToSet(queue) : f.id > view.id

\* Every frame decoded while the stream goes on is shown, or a newer one is: no
\* wake-up of the window is lost between a pass of the receive loop and the next.
FramesShown == Behind ~> ~Behind
=============================================================================
