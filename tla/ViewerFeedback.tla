---------------------------- MODULE ViewerFeedback ----------------------------
(***************************************************************************)
(* What the viewer tells the host of the frames it receives: the receive   *)
(* pass (renderd-viewer network/data.rs) settles each frame, one by one in *)
(* the order of their ids, and signals it through a bounded channel to the *)
(* feedback task (app.rs), which asks for keyframes, not too often, and    *)
(* counts losses for its reports (abr/feedback.rs).  How the receive window*)
(* comes to settle a frame is ReceiveWindow's; the host is reduced to      *)
(* answering a keyframe request.  Delay and rate estimates are left out.   *)
(***************************************************************************)
EXTENDS Naturals, Sequences

CONSTANTS
  MaxFrames,   \* frames the host sends
  Channel      \* capacity of the signal channel

\* What the constants must be; the module that chooses them assumes it.
Assumption == {MaxFrames, Channel} \subseteq Nat \ {0}

VARIABLES
  frame,      \* the last frame settled
  awaiting,   \* ReceiveWindow::need_keyframe
  held,       \* the window holds frames it cannot decode
  asked,      \* keyframe_asked: "never", "recently" or, keyframe_retry ago, "due"
  channel,    \* signals on the way to the feedback task
  debounced,  \* less than KF_DEBOUNCE since last_kf_req
  request,    \* the host's part: "none", "asked", or the keyframe is "coming"
  last,       \* FeedbackExporter::last_frame_id
  lost        \* FeedbackExporter::lost_frames

window == <<frame, awaiting, held, asked>>
exporter == <<last, lost>>
vars == <<window, channel, debounced, request, exporter>>

FrameId == 1 .. MaxFrames
Signal == [type : {"FrameDecoded", "FragmentLoss", "KeyframeNeeded"}, id : FrameId \cup {0}]

TypeOK ==
  /\ frame \in 0 .. MaxFrames
  /\ {awaiting, held, debounced} \subseteq BOOLEAN
  /\ asked \in {"never", "recently", "due"}
  /\ channel \in Seq(Signal) /\ Len(channel) <= Channel
  /\ request \in {"none", "asked", "coming"}
  /\ last \in 0 .. MaxFrames /\ lost \in Nat

\* The window starts out waiting for the keyframe every session opens with.
Init ==
  /\ frame = 0 /\ awaiting = TRUE /\ held = FALSE /\ asked = "never"
  /\ channel = <<>> /\ debounced = FALSE /\ request = "coming"
  /\ last = 0 /\ lost = 0

Decoded(id) == [type |-> "FrameDecoded", id |-> id]
Lost == [type |-> "FragmentLoss", id |-> 0]
KeyframeNeeded == [type |-> "KeyframeNeeded", id |-> 0]   \* or DecodeBacklog

\* try_send, of one signal after another: what does not fit is dropped.
Signalled(signals) ==
  LET room == Channel - Len(channel)
  IN channel' = channel \o SubSeq(signals, 1, IF room < Len(signals) THEN room ELSE Len(signals))

-----------------------------------------------------------------------------
(* The receive pass.                                                       *)

\* The next frame is decoded: it follows the last, or is the keyframe awaited.
DecodeFrame ==
  /\ frame < MaxFrames
  /\ awaiting => request = "coming"
  /\ frame' = frame + 1
  /\ awaiting' = FALSE /\ held' = FALSE /\ asked' = "never"
  /\ request' \in IF awaiting THEN {"none"} ELSE {request, "none"}
  /\ Signalled(<<Decoded(frame + 1)>>)
  /\ UNCHANGED <<debounced, exporter>>

\* The window gives the next frame up, and asks for a keyframe unless it has.
GiveUp ==
  /\ frame < MaxFrames
  /\ frame' = frame + 1
  /\ awaiting' = TRUE /\ held' = FALSE
  /\ request' \in IF request = "coming" THEN {"coming", "none"} ELSE {request}
  /\ IF awaiting /\ asked # "never"
     THEN Signalled(<<Lost>>) /\ asked' = asked
     ELSE Signalled(<<Lost, KeyframeNeeded>>) /\ asked' = "recently"
  /\ UNCHANGED <<debounced, exporter>>

\* A frame that arrives while a keyframe is awaited can only be held.
Hold ==
  /\ frame < MaxFrames /\ awaiting
  /\ frame' = frame + 1
  /\ held' = TRUE
  /\ UNCHANGED <<awaiting, asked, channel, debounced, request, exporter>>

MutRequireKeyframe ==
  /\ awaiting' = TRUE /\ held' = FALSE
  /\ asked' = "never"

\* ReceiveWindow::require_keyframe
RequireKeyframe ==
  /\ awaiting' = TRUE /\ held' = FALSE
  /\ asked' = "recently"

\* The decoder refuses the next frame, or arrival outran it and the frame is
\* skipped with no keyframe behind it.
SkipFrame ==
  /\ frame < MaxFrames /\ ~awaiting
  /\ frame' = frame + 1
  /\ RequireKeyframe
  /\ Signalled(<<KeyframeNeeded>>)
  /\ UNCHANGED <<debounced, request, exporter>>

\* ... or with a keyframe behind it in the same pass, at which decoding restarts.
SkipToKeyframe ==
  /\ frame + 1 < MaxFrames /\ ~awaiting /\ request = "coming"
  /\ frame' = frame + 2
  /\ request' = "none"
  /\ Signalled(<<Decoded(frame + 2)>>)
  /\ UNCHANGED <<awaiting, held, asked, debounced, exporter>>

\* A keyframe nobody answered is asked for again, once keyframe_retry is over.
RetryDue ==
  /\ asked = "recently"
  /\ asked' = "due"
  /\ UNCHANGED <<frame, awaiting, held, channel, debounced, request, exporter>>

AskAgain ==
  /\ awaiting /\ held /\ asked = "due"
  /\ asked' = "recently"
  /\ Signalled(<<KeyframeNeeded>>)
  /\ UNCHANGED <<frame, awaiting, held, debounced, request, exporter>>

-----------------------------------------------------------------------------
(* The feedback task.                                                      *)

\* record_frame: ids passed over count as lost.
RecordFrame(id) ==
  LET gap == IF last > 0 /\ id > last + 1 THEN id - last - 1 ELSE 0
  IN /\ lost' = lost + gap
     /\ last' = id

\* The next signal: a frame or a loss is recorded, a keyframe asked for unless
\* one was within KF_DEBOUNCE, when the signal is dropped.
Record ==
  /\ channel # <<>>
  /\ channel' = Tail(channel)
  /\ LET signal == Head(channel) IN
       \/ /\ signal.type = "FrameDecoded"
          /\ RecordFrame(signal.id)
          /\ UNCHANGED <<debounced, request>>
       \/ /\ signal.type = "FragmentLoss"
          /\ lost' = lost + 1
          /\ UNCHANGED <<last, debounced, request>>
       \/ /\ signal.type = "KeyframeNeeded"
          /\ request' = IF debounced THEN request ELSE "asked"
          /\ debounced' = TRUE
          /\ UNCHANGED exporter
  /\ UNCHANGED <<window>>

DebounceOver ==
  /\ debounced
  /\ debounced' = FALSE
  /\ UNCHANGED <<window, channel, request, exporter>>

\* maybe_export_reactive: the losses since the last report are sent.
Report ==
  /\ lost > 0
  /\ lost' = 0
  /\ UNCHANGED <<window, channel, debounced, request, last>>

\* The host answers a request with a keyframe.
Answer ==
  /\ request = "asked"
  /\ request' = "coming"
  /\ UNCHANGED <<window, channel, debounced, exporter>>

-----------------------------------------------------------------------------
Pass ==
  \/ DecodeFrame \/ GiveUp \/ Hold \/ SkipFrame \/ SkipToKeyframe
  \/ AskAgain

Next == Pass \/ RetryDue \/ Record \/ DebounceOver \/ Report \/ Answer

Spec == Init /\ [][Next]_vars

-----------------------------------------------------------------------------
(* Properties.                                                             *)

\* While frames arrive that cannot be decoded, a keyframe is asked for in the
\* end: whether the signal met a full channel or the debounce, and whether the
\* keyframe it asked for was lost in turn.
KeyframeAsked == awaiting /\ held ~> request # "none" \/ ~(awaiting /\ held)
=============================================================================
