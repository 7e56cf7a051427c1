----------------------------- MODULE HostSender -----------------------------
(***************************************************************************)
(* From the screen to the wire on the host: the keyframe gate and the      *)
(* encode pipeline of crates/renderd-host/src/encode.rs, the bounded ring  *)
(* its output callback fills, and the DataSender thread that empties it    *)
(* (network/data.rs).                                                      *)
(*                                                                         *)
(* Four kinds of thread meet here: the submitters (screen capture and the  *)
(* still-screen refiner), the encoder's output callback, the sender, and   *)
(* whoever asks for a keyframe or resizes the encoder.                     *)
(*                                                                         *)
(* Frame ids are consecutive at the encoder's output, so what a property   *)
(* needs of an id is whether the frame before was sent too.  A frame is    *)
(* therefore [key, gap]: gap says that the frame before it was discarded   *)
(* on the way, for a non-key frame (the only kind that references it).     *)
(* Time is reduced to whether the gate's cooldown still runs.             *)
(***************************************************************************)
EXTENDS Integers, SequencesExt

CONSTANTS
  Submitters,    \* threads calling EncodePipeline::submit
  RingCapacity,  \* RING_CAPACITY
  Backlog,       \* SKIP_AHEAD_BACKLOG
  MaxCoding      \* frames the encoder holds at a time

ASSUME SizeAssumption ==
  /\ {RingCapacity, Backlog, MaxCoding} \subseteq Nat \ {0}
  /\ Backlog < RingCapacity

VARIABLES
  pending,   \* KeyframeGate::pending
  cooling,   \* whether the last keyframe's cooldown still runs
  submit,    \* where each submitter is in submit()
  coding,    \* frames in the encoder, oldest first: whether each was forced
  started,   \* whether this encoder session has output a frame
  resize,    \* where EncodePipeline::resize is
  ring,      \* the channel between callback and sender
  overflow,  \* whether the callback's latest frame found the ring full
  sender,    \* "waiting" for a frame or "holding" one
  hand,      \* the frame held
  awaiting,  \* awaiting_keyframe
  hole,      \* whether the frame before the next one received was discarded
  wire,      \* the last frame sent whole
  forcedLost \* history: the encoder lost a forced frame of this session

gate == <<pending, cooling>>
encode == <<submit, coding, started, resize, forcedLost>>
channel == <<ring, overflow>>
transmit == <<sender, hand, awaiting, hole, wire>>
vars == <<gate, encode, channel, transmit>>

Frame == [key : BOOLEAN, gap : BOOLEAN]

NoFrame == [key |-> FALSE, gap |-> FALSE]

\* What went out: broken is a non-key frame whose reference was not sent.
Sent == [key : BOOLEAN, broken : BOOLEAN, afterKey : BOOLEAN]

Nothing == [key |-> FALSE, broken |-> FALSE, afterKey |-> FALSE]

TypeOK ==
  /\ pending \in BOOLEAN /\ cooling \in BOOLEAN
  /\ submit \in [Submitters -> {"idle", "passing", "forced", "plain"}]
  /\ coding \in BoundedSeq(BOOLEAN, MaxCoding)
  /\ started \in BOOLEAN
  /\ resize \in {"no", "armed", "swapping"}
  /\ ring \in BoundedSeq(Frame, RingCapacity)
  /\ overflow \in BOOLEAN
  /\ sender \in {"waiting", "holding"}
  /\ hand \in Frame
  /\ awaiting \in BOOLEAN /\ hole \in BOOLEAN
  /\ wire \in Sent
  /\ forcedLost \in BOOLEAN

Init ==
  /\ pending = TRUE /\ cooling = FALSE
  /\ submit = [s \in Submitters |-> "idle"]
  /\ coding = <<>> /\ started = FALSE /\ resize = "no"
  /\ ring = <<>> /\ overflow = FALSE
  /\ sender = "waiting" /\ hand = NoFrame
  /\ awaiting = FALSE /\ hole = TRUE /\ wire = Nothing
  /\ forcedLost = FALSE

-----------------------------------------------------------------------------
(* The keyframe gate.                                                      *)

\* KeyframeGate::request, by the viewer or the bitrate controller.
Request ==
  /\ pending' = TRUE
  /\ UNCHANGED <<cooling, encode, channel, transmit>>

\* The cooldown runs out: at most MAX_KEYFRAME_SPACING after the keyframe.
CoolDown ==
  /\ cooling
  /\ cooling' = FALSE
  /\ UNCHANGED <<pending, encode, channel, transmit>>

\* take_at up to its return on no request or a running cooldown.
TakeCheck(s) ==
  /\ submit[s] = "idle"
  /\ submit' = [submit EXCEPT ![s] = IF pending /\ ~cooling THEN "passing" ELSE "plain"]
  /\ UNCHANGED <<gate, coding, started, resize, channel, transmit, forcedLost>>

\* The swap that consumes the request, and the stamp that starts the cooldown.
TakeSwap(s) ==
  /\ submit[s] = "passing"
  /\ submit' = [submit EXCEPT ![s] = IF pending THEN "forced" ELSE "plain"]
  /\ pending' = FALSE
  /\ cooling' = (pending \/ cooling)
  /\ UNCHANGED <<coding, started, resize, channel, transmit, forcedLost>>

-----------------------------------------------------------------------------
(* The encoder.                                                            *)

\* The surface reaches encode_surface, under the session lock; the call
\* returns once the encoder has room.
AtEncoder(s) ==
  /\ submit[s] \in {"forced", "plain"}
  /\ resize # "swapping"
  /\ Len(coding) < MaxCoding

MutEncodeFails(s) ==
  /\ AtEncoder(s)
  /\ submit' = [submit EXCEPT ![s] = "idle"]
  /\ UNCHANGED <<gate, coding, started, resize, channel, transmit, forcedLost>>

\* encode_surface refuses the frame: a forced one renews its request.
EncodeFails(s) ==
  /\ AtEncoder(s)
  /\ submit' = [submit EXCEPT ![s] = "idle"]
  /\ pending' = (pending \/ submit[s] = "forced")
  /\ UNCHANGED <<cooling, coding, started, resize, channel, transmit, forcedLost>>

\* The frame goes to the hardware.
Encode(s) ==
  /\ AtEncoder(s)
  /\ submit' = [submit EXCEPT ![s] = "idle"]
  /\ coding' = Append(coding, submit[s] = "forced")
  /\ UNCHANGED <<gate, started, resize, channel, transmit, forcedLost>>

MutOutput(periodic) ==
  LET key == Head(coding) \/ ~started \/ periodic
      full == Len(ring) > RingCapacity
  IN /\ coding # <<>>
     /\ coding' = Tail(coding)
     /\ started' = TRUE
     /\ cooling' = (key \/ cooling)
     /\ ring' = IF full THEN ring ELSE Append(ring, [key |-> key, gap |-> ~key /\ overflow])
     /\ overflow' = full
     /\ pending' = (full \/ pending)
     /\ UNCHANGED <<submit, resize, transmit, forcedLost>>

\* The output callback for the oldest frame.  The encoder makes a keyframe when
\* told to, for the first frame of a session, and (periodic) on its own.
Output(periodic) ==
  LET key == Head(coding) \/ ~started \/ periodic
      full == Len(ring) >= RingCapacity
  IN /\ coding # <<>>
     /\ coding' = Tail(coding)
     /\ started' = TRUE
     /\ cooling' = (key \/ cooling)
     /\ ring' = IF full THEN ring ELSE Append(ring, [key |-> key, gap |-> ~key /\ overflow])
     /\ overflow' = full
     /\ pending' = (full \/ pending)
     /\ UNCHANGED <<submit, resize, transmit, forcedLost>>

\* The callback reports an error or a frame dropped by the rate controller,
\* which keeps the encoder's own reference chain intact.
Lose ==
  /\ coding # <<>>
  /\ coding' = Tail(coding)
  /\ forcedLost' = (forcedLost \/ Head(coding))
  /\ UNCHANGED <<gate, submit, started, resize, channel, transmit>>

\* resize: the gate is reset first, so the new size starts with a keyframe.
ResizeArm ==
  /\ resize = "no"
  /\ resize' = "armed"
  /\ pending' = TRUE /\ cooling' = FALSE
  /\ UNCHANGED <<submit, coding, started, channel, transmit, forcedLost>>

\* The new hardware session exists and waits for the lock, or cannot be made.
ResizeCreate ==
  /\ resize = "armed"
  /\ resize' \in {"swapping", "no"}
  /\ UNCHANGED <<gate, submit, coding, started, channel, transmit, forcedLost>>

\* The old session is dropped, which waits for its frames to come out.
ResizeSwap ==
  /\ resize = "swapping" /\ coding = <<>>
  /\ resize' = "no"
  /\ started' = FALSE
  /\ UNCHANGED <<gate, submit, coding, channel, transmit, forcedLost>>

\* shutdown and, for the next viewer, init: capture has been stopped, the ring
\* is emptied, the gate reset, and a new sender starts with nothing awaited.
NewSession ==
  /\ submit = [s \in Submitters |-> "idle"] /\ resize = "no"
  /\ pending' = TRUE /\ cooling' = FALSE
  /\ coding' = <<>> /\ started' = FALSE
  /\ ring' = <<>> /\ overflow' = FALSE
  /\ sender' = "waiting" /\ hand' = NoFrame
  /\ awaiting' = FALSE /\ hole' = TRUE /\ wire' = Nothing
  /\ forcedLost' = FALSE
  /\ UNCHANGED <<submit, resize>>

-----------------------------------------------------------------------------
(* The sender.                                                             *)

\* recv_timeout hands over the oldest frame.
Receive ==
  /\ sender = "waiting" /\ ring # <<>>
  /\ sender' = "holding"
  /\ hand' = [Head(ring) EXCEPT !.gap = ~Head(ring).key /\ (@ \/ hole)]
  /\ hole' = FALSE
  /\ ring' = Tail(ring)
  /\ UNCHANGED <<gate, encode, overflow, awaiting, wire>>

MutPreferDecodable(current, fresher) == fresher

\* Which of two frames survives the draining of a backlog.
PreferDecodable(current, fresher) ==
  IF fresher.key \/ ~current.key THEN fresher ELSE current

SkipDue == Len(ring) >= Backlog

\* The frame left once the first i of the ring are drained.
Drained[i \in 0 .. Len(ring)] ==
  IF i = 0 THEN hand ELSE PreferDecodable(Drained[i - 1], ring[i])

\* A frame pushed while draining counts as pushed before it.
Kept == Drained[Len(ring)]

\* Nothing was drained after the frame kept.
KeptIsLast == ~Kept.key \/ Last(ring).key

\* The frame to send: the one received, or the one kept of a backlog.
Chosen == IF SkipDue THEN [Kept EXCEPT !.gap = ~Kept.key] ELSE hand

\* A non-key frame does not go out after a skip or while a keyframe is awaited.
Withheld == ~Chosen.key /\ (SkipDue \/ awaiting)

LeaveRing ==
  /\ sender = "holding"
  /\ sender' = "waiting" /\ hand' = NoFrame
  /\ ring' = IF SkipDue THEN <<>> ELSE ring

\* Skipping ahead to a non-key frame also asks for a keyframe.
Withhold ==
  /\ LeaveRing /\ Withheld
  /\ awaiting' = TRUE
  /\ pending' = (SkipDue \/ pending)
  /\ hole' = TRUE
  /\ UNCHANGED <<cooling, encode, overflow, wire>>

\* Every fragment of the frame was taken by the connection.
Send ==
  /\ LeaveRing /\ ~Withheld
  /\ awaiting' = FALSE
  /\ hole' = (SkipDue /\ ~KeptIsLast)
  /\ wire' = [key |-> Chosen.key, broken |-> Chosen.gap,
              afterKey |-> wire.key]
  /\ UNCHANGED <<gate, encode, overflow>>

MutSendFails ==
  /\ LeaveRing /\ ~Withheld
  /\ pending' = TRUE
  /\ hole' = TRUE
  /\ UNCHANGED <<cooling, encode, overflow, awaiting, wire>>

\* Some fragment was refused: the frame is partial on the wire.
SendFails ==
  /\ LeaveRing /\ ~Withheld
  /\ awaiting' = TRUE
  /\ pending' = TRUE
  /\ hole' = TRUE
  /\ UNCHANGED <<cooling, encode, overflow, wire>>

-----------------------------------------------------------------------------
SubmitterStep(s) == TakeCheck(s) \/ TakeSwap(s) \/ Encode(s)

Next ==
  \/ Request \/ CoolDown
  \/ \E s \in Submitters : SubmitterStep(s) \/ EncodeFails(s)
  \/ \E periodic \in BOOLEAN : Output(periodic)
  \/ Lose
  \/ ResizeArm \/ ResizeCreate \/ ResizeSwap
  \/ NewSession
  \/ Receive \/ Withhold \/ Send \/ SendFails

Spec == Init /\ [][Next]_vars

\* Time passes, the threads run, and neither the encoder nor the connection
\* refuses every frame.  A submitter's fairness says that the screen goes on
\* changing: without a frame to encode there is nothing to make a keyframe of.
FairSpec ==
  /\ Spec
  /\ WF_vars(CoolDown)
  /\ \A s \in Submitters : /\ WF_vars(TakeCheck(s)) /\ WF_vars(TakeSwap(s))
                           /\ SF_vars(submit[s] = "forced" /\ Encode(s))
                           /\ SF_vars(submit[s] = "plain" /\ Encode(s))
  /\ WF_vars(Output(FALSE))
  /\ WF_vars(ResizeCreate) /\ WF_vars(ResizeSwap)
  /\ WF_vars(Receive) /\ WF_vars(Withhold) /\ SF_vars(Send)

-----------------------------------------------------------------------------
(* Properties.                                                             *)

\* A sender withholding frames is owed a keyframe: the request is pending, a
\* submitter has taken it, or the forced frame is in the encoder, the ring or
\* the sender's hand.  Were it none of these, the picture would stay frozen
\* until the encoder's own 20 s keyframe interval.  The one exception is a
\* forced frame the encoder itself lost: its request is not renewed.
KeyframeOwed ==
  awaiting /\ ~forcedLost =>
    \/ pending
    \/ \E s \in Submitters : submit[s] = "forced"
    \/ TRUE \in ToSet(coding)
    \/ \E f \in ToSet(ring) : f.key
    \/ sender = "holding" /\ hand.key

\* Damage is confined: a frame goes out without the one it references only
\* just after a keyframe, whatever the ring dropped, a send lost, or an earlier
\* session left behind.
BreaksOnlyAfterKeyframe == wire.broken => wire.afterKey

\* An awaited keyframe gets through, unless the ring overflows again or the
\* encoder loses a forced frame: the sender does not discard the answer to its
\* own request over and over.
AwaitedKeyframeComes ==
  awaiting ~> ~awaiting \/ overflow \/ forcedLost

\* Non-key frames are withheld until the keyframe that makes them decodable.
SentDecodably == ~wire.broken
=============================================================================
