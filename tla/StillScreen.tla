----------------------------- MODULE StillScreen -----------------------------
(***************************************************************************)
(* What the viewer is left looking at when the screen stops changing: the  *)
(* capture callback (crates/renderd-host/src/capture.rs), the still-screen *)
(* refiner with its thread (refine.rs), submission to the encoder and its  *)
(* replacement by a sharper one (encode.rs), and the hardware session that *)
(* holds frames in flight (renderd-vt-sys, session.rs and the C shim).     *)
(*                                                                         *)
(* The refiner's state is behind one mutex, so a step of it is what runs   *)
(* between two unlocks.  Times are reduced to whether they have come.  The *)
(* keyframe gate's cooldown, the ring and the sender are HostSender's.     *)
(***************************************************************************)
EXTENDS Naturals, FiniteSets, Sequences, SequencesExt

CONSTANTS
  Passes,       \* PASSES
  Attempts,     \* MAX_ATTEMPTS
  MaxCaptures,  \* captures the screen delivers
  MaxCoding,    \* frames a session holds at a time
  MaxDrops      \* frames the encoder's rate controller drops

\* What the constants must be; the module that chooses them assumes it.
Assumption ==
  /\ {Passes, Attempts, MaxCaptures, MaxCoding} \subseteq Nat \ {0}
  /\ MaxDrops \in Nat
  /\ Passes <= Attempts

Nobody == "nobody"
Thread == {"capture", "refiner"}

\* No capture is numbered 0, and an output count noted is kept one higher.
None == 0

VARIABLES
  screen,     \* the newest capture delivered, numbered from 1
  at,         \* where each thread is
  carried,    \* the capture each thread is submitting
  latest,     \* State::latest
  passes,     \* RefineSchedule::passes_left
  attempts,   \* RefineSchedule::attempts_left
  next,       \* RefineSchedule::next_at: "none", "later" or "due"
  pending,    \* State::pending, one more than the output count noted
  sharpen,    \* plan_sharpen: "never", "at" or "now"
  stop,       \* State::stop
  life,       \* CapturePipeline: "running", "draining", "joining", "stopped"
  sharpened,  \* EncodePipeline::base_size is set
  locked,     \* holder of EncodePipeline::session across a rebuild
  session,    \* compression sessions created
  coding,     \* frames in the hardware, oldest first
  outputs,    \* EncodePipeline::output_frames
  out,        \* the frame last output
  owed,       \* KeyframeGate::pending
  drops       \* frames dropped by the rate controller

refiner == <<latest, passes, attempts, next, pending, sharpen, stop>>
encoder == <<sharpened, locked, session, coding, outputs, out, owed, drops>>
vars == <<screen, at, carried, refiner, life, encoder>>

Frame == [shows : 0 .. MaxCaptures, session : Nat]

\* The places of the frames that session s holds.
Held(s) == {i \in DOMAIN coding : coding[i].session = s}

TypeOK ==
  /\ screen \in 0 .. MaxCaptures
  /\ at \in [Thread -> {"idle", "noted", "restoring", "draining", "submitting", "stamped", "sharpening", "stopped"}]
  /\ carried \in [Thread -> 0 .. MaxCaptures]
  /\ latest \in 0 .. MaxCaptures
  /\ passes \in 0 .. Passes /\ attempts \in 0 .. Attempts
  /\ next \in {"none", "later", "due"}
  /\ pending \in Nat
  /\ sharpen \in {"never", "at", "now"}
  /\ stop \in BOOLEAN /\ sharpened \in BOOLEAN /\ owed \in BOOLEAN
  /\ life \in {"running", "draining", "joining", "stopped"}
  /\ locked \in Thread \cup {Nobody}
  /\ session \in Nat \ {0} /\ outputs \in Nat
  /\ coding \in Seq(Frame) /\ Cardinality(Held(session)) <= MaxCoding
  /\ out \in Frame
  /\ drops \in 0 .. MaxDrops

Init ==
  /\ screen = 0
  /\ at = [t \in Thread |-> "idle"] /\ carried = [t \in Thread |-> None]
  /\ latest = None /\ passes = 0 /\ attempts = 0 /\ next = "none" /\ pending = None
  /\ sharpen = "never" /\ stop = FALSE /\ life = "running"
  /\ sharpened = FALSE /\ locked = Nobody /\ session = 1
  /\ coding = <<>> /\ outputs = 0 /\ out = [shows |-> 0, session |-> 1]
  /\ owed = TRUE /\ drops = 0

Goes(t, place) == at' = [at EXCEPT ![t] = place]

\* RefineSchedule::on_capture
MutScheduled ==
  /\ passes' = 1
  /\ attempts' = Attempts
  /\ next' = "later"

Scheduled ==
  /\ passes' = Passes
  /\ attempts' = Attempts
  /\ next' = "later"

-----------------------------------------------------------------------------
(* The capture callback.                                                   *)

\* StaticRefiner::on_capture up to its unlock.  Whether this is the start of
\* motion, and whether the size of the encoder leaves anything to sharpen, is
\* left open.
OnCapture ==
  /\ life = "running" /\ screen < MaxCaptures /\ at["capture"] = "idle"
  /\ screen' = screen + 1
  /\ latest' = screen + 1
  /\ Scheduled
  /\ pending' = None
  /\ carried' = [carried EXCEPT !["capture"] = screen + 1]
  /\ \E moving \in BOOLEAN :
       Goes("capture", IF moving /\ sharpened THEN "restoring" ELSE "noted")
  /\ sharpen' \in IF sharpened THEN {"never"} ELSE {"never", "at"}
  /\ UNCHANGED <<stop, life, encoder>>

\* submit, for the capture and for a re-encode pass alike: shed for a deep send
\* queue, or stamped with the gate's request taken.
Submit(t) ==
  /\ at[t] = (IF t = "capture" THEN "noted" ELSE "submitting")
  /\ \/ Goes(t, "idle") /\ owed' = owed
     \/ Goes(t, "stamped") /\ owed' = FALSE
  /\ UNCHANGED <<screen, carried, refiner, life, sharpened, locked, session, coding, outputs, out, drops>>

\* The frame goes into the session that exists when its lock is had.
Encode(t) ==
  /\ at[t] = "stamped" /\ locked = Nobody
  /\ Cardinality(Held(session)) < MaxCoding
  /\ coding' = Append(coding, [shows |-> carried[t], session |-> session])
  /\ Goes(t, "idle")
  /\ UNCHANGED <<screen, carried, refiner, life, sharpened, locked, session, outputs, out, owed, drops>>

-----------------------------------------------------------------------------
(* The refiner's thread, with the state locked unless it says otherwise.   *)

\* Waiting ends: the next pass, or the moment to sharpen, has come.
Time ==
  /\ \/ next = "later" /\ next' = "due" /\ sharpen' = sharpen
     \/ sharpen = "at" /\ sharpen' = "now" /\ next' = next
  /\ UNCHANGED <<screen, at, carried, latest, passes, attempts, pending, stop, life, encoder>>

Looping == at["refiner"] = "idle" /\ ~stop

\* The last pass landed, told by the output count.
Landed ==
  /\ Looping
  /\ pending # None /\ outputs > pending - 1
  /\ pending' = None
  /\ passes' = IF passes = 0 THEN 0 ELSE passes - 1
  /\ next' = IF passes <= 1 THEN "none" ELSE next
  /\ UNCHANGED <<screen, at, carried, latest, attempts, sharpen, stop, life, encoder>>

AtTop == Looping /\ (pending = None \/ outputs <= pending - 1)

\* Time to sharpen: unlocked, on to EncodePipeline::sharpen.
Sharpen ==
  /\ AtTop /\ sharpen = "now" /\ latest # None
  /\ sharpen' = "never"
  /\ Goes("refiner", "sharpening")
  /\ UNCHANGED <<screen, carried, latest, passes, attempts, next, pending, stop, life, encoder>>

\* Every pass ran: the surface goes back to the capture pool.
Rest ==
  /\ AtTop /\ sharpen = "never" /\ next = "none"
  /\ latest # None
  /\ latest' = None
  /\ UNCHANGED <<screen, at, carried, passes, attempts, next, pending, sharpen, stop, life, encoder>>

\* take_pass finds the link busy: the pass waits and is not counted.
PassWaits ==
  /\ AtTop /\ sharpen = "never" /\ next = "due"
  /\ next' = "later"
  /\ UNCHANGED <<screen, at, carried, latest, passes, attempts, pending, sharpen, stop, life, encoder>>

\* take_pass: the newest surface is submitted once more, unlocked.
Pass ==
  /\ AtTop /\ sharpen = "never" /\ next = "due" /\ latest # None
  /\ attempts' = attempts - 1
  /\ next' = IF attempts = 1 THEN "none" ELSE "later"
  /\ pending' = outputs + 1
  /\ carried' = [carried EXCEPT !["refiner"] = latest]
  /\ Goes("refiner", "submitting")
  /\ UNCHANGED <<screen, latest, passes, sharpen, stop, life, encoder>>

\* run ends on the stop flag.
Leave ==
  /\ at["refiner"] = "idle" /\ stop
  /\ Goes("refiner", "stopped")
  /\ UNCHANGED <<screen, carried, refiner, life, encoder>>

-----------------------------------------------------------------------------
(* Replacing the session: sharpen by the refiner, restore_size by the      *)
(* capture callback.                                                       *)

Rebuilding(t) == at[t] = (IF t = "capture" THEN "restoring" ELSE "sharpening")

\* resize arms the gate, the new hardware session is created, and the lock on
\* the old one is taken.  base_size is set first when sharpening.
BeginSwap(t) ==
  /\ Rebuilding(t) /\ locked = Nobody
  /\ sharpened = (t = "capture")
  /\ owed' = TRUE
  /\ locked' = t
  /\ sharpened' = TRUE
  /\ Goes(t, "draining")
  /\ UNCHANGED <<screen, carried, refiner, life, session, coding, outputs, out, drops>>

\* The new session cannot be created, or there is nothing to change: the old
\* one stays.
SwapRefused(t) ==
  /\ Rebuilding(t)
  /\ Goes(t, IF t = "capture" THEN "noted" ELSE "idle")
  /\ UNCHANGED <<screen, carried, refiner, life, encoder>>

MutSwapped(t) ==
  /\ at[t] = "draining"
  /\ session' = session + 1
  /\ locked' = Nobody
  /\ sharpened' = (t = "refiner")
  /\ Goes(t, IF t = "capture" THEN "noted" ELSE "idle")
  /\ IF t = "refiner" THEN Scheduled /\ pending' = None
     ELSE UNCHANGED <<passes, attempts, next, pending>>
  /\ UNCHANGED <<screen, carried, latest, sharpen, stop, life, coding, outputs, out, owed, drops>>

\* Dropping the old session completes its frames; only then is it replaced.
\* The refiner schedules its passes afresh for the sharpened picture.
Swapped(t) ==
  /\ at[t] = "draining" /\ coding = <<>>
  /\ session' = session + 1
  /\ locked' = Nobody
  /\ sharpened' = (t = "refiner")
  /\ Goes(t, IF t = "capture" THEN "noted" ELSE "idle")
  /\ IF t = "refiner" THEN Scheduled /\ pending' = None
     ELSE UNCHANGED <<passes, attempts, next, pending>>
  /\ UNCHANGED <<screen, carried, latest, sharpen, stop, life, coding, outputs, out, owed, drops>>

-----------------------------------------------------------------------------
(* The hardware session's output callback.                                 *)

\* The place of the oldest frame of a session; two sessions at once know nothing of each other.
Oldest == {i \in DOMAIN coding : \A j \in Held(coding[i].session) : i <= j}

\* A frame comes out; if the ring is full it is dropped and a keyframe owed.
Output ==
  /\ \E i \in Oldest : coding' = RemoveAt(coding, i) /\ out' = coding[i]
  /\ outputs' = outputs + 1
  /\ owed' \in {owed, TRUE}
  /\ UNCHANGED <<screen, at, carried, refiner, life, sharpened, locked, session, drops>>

\* The low-latency rate controller has no budget for the frame.
EncoderDrops ==
  /\ drops < MaxDrops
  /\ \E i \in Oldest : coding' = RemoveAt(coding, i)
  /\ drops' = drops + 1
  /\ UNCHANGED <<screen, at, carried, refiner, life, sharpened, locked, session, outputs, out, owed>>

\* A KeyframeRequest of the viewer.
ForceKeyframe ==
  /\ life = "running" /\ ~owed
  /\ owed' = TRUE
  /\ UNCHANGED <<screen, at, carried, refiner, life, sharpened, locked, session, coding, outputs, out, drops>>

-----------------------------------------------------------------------------
(* CapturePipeline::stop.                                                  *)

StopStream ==
  /\ life = "running" /\ screen = MaxCaptures
  /\ life' = "draining"
  /\ UNCHANGED <<screen, at, carried, refiner, encoder>>

\* The stream has no callback running; the refiner is told to stop and joined.
StopRefiner ==
  /\ life = "draining" /\ at["capture"] = "idle"
  /\ life' = "joining"
  /\ stop' = TRUE /\ latest' = None
  /\ UNCHANGED <<screen, at, carried, passes, attempts, next, pending, sharpen, encoder>>

Joined ==
  /\ life = "joining" /\ at["refiner"] = "stopped"
  /\ life' = "stopped"
  /\ UNCHANGED <<screen, at, carried, refiner, encoder>>

-----------------------------------------------------------------------------
RefinerStep ==
  \/ Landed \/ Sharpen \/ Rest \/ PassWaits \/ Pass \/ Leave
  \/ Submit("refiner") \/ Encode("refiner")
  \/ BeginSwap("refiner") \/ SwapRefused("refiner") \/ Swapped("refiner")

CaptureStep ==
  \/ Submit("capture") \/ Encode("capture")
  \/ BeginSwap("capture") \/ SwapRefused("capture") \/ Swapped("capture")

Next ==
  \/ OnCapture \/ CaptureStep
  \/ Time \/ RefinerStep
  \/ Output \/ EncoderDrops \/ ForceKeyframe
  \/ StopStream \/ StopRefiner \/ Joined

Spec == Init /\ [][Next]_vars

-----------------------------------------------------------------------------
(* Properties.                                                             *)

\* The refiner is done with a screen: its passes came out of the encoder, and
\* nothing is on its way.
AtRest ==
  /\ life = "running" /\ passes = 0 /\ screen > 0
  /\ at["refiner"] = "idle" /\ at["capture"] = "idle"
  /\ coding = <<>>

\* The viewer ends on the current screen: whatever was shed, dropped or still
\* in the encoder when the screen went still, and whichever sessions replaced
\* one another, what came out last shows the newest capture.
EndsOnCurrentScreen == AtRest => out.shows = screen

\* Frames of a session all come out before any of the session that replaced
\* it, so ids given at the output are in the order of decoding.
OldSessionFirst == [][out'.session >= out.session]_vars
=============================================================================
