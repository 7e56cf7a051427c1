----------------------------- MODULE HostParts ------------------------------
(***************************************************************************)
(* The parts of the host that share no state once what they take from each *)
(* other is left open: a behaviour is of one of them, for any value of its *)
(* constants.                                                              *)
(***************************************************************************)
EXTENDS Naturals, Sequences

CONSTANT Machines   \* the components run, each on its own

\* Those of the components, where their modules say what they are.
CONSTANTS
  \* StillScreen
  Passes, Attempts, MaxCaptures, MaxCoding, MaxDrops,
  \* SizeGovernor
  Cost, Bitrates, DownAfter, UpAfter, MinChangeGap, CalmGap, RetryHold, MaxUpAfter,
  \* RateControl
  MinRate, MaxRate, StepUp, ProbeAfter, HoldTicks,
  \* Pairing
  Viewers, MaxPins, Validity, Threshold, MaxLockout, MaxFailures,
  \* LinkPressure
  MaxSessions, MaxPackets, MaxLost, MaxQueue, SkipAbove, ResumeBelow, LossSamples,
  \* CaptureControl
  Intervals, ControlMaxSessions,
  \* Negotiation
  Offers, Displays, Refresh, HostRates, Ceilings, MaxHeights, StandardHeights,
  \* EncoderSize
  Sizes, Native, SizeMaxSessions,
  \* CaptureSurfaces
  Depth, SurfacesMaxCaptures, SurfacesMaxCoding,
  \* HostStart
  Values, Overrides, MaxGiven, Ephemeral

VARIABLE machine    \* the one this behaviour is of

VARIABLES   \* StillScreen
  screen, at, carried, latest, passes, attempts, next, pending, sharpen, stop, life,
  sharpened, locked, session, coding, outputs, out, owed, drops

VARIABLES   \* SizeGovernor
  policy, current, pressure, changed, runStart, lastCongested, lastUnstable, lastReturn,
  retryAfter, calm, sinceLeft, owedWait

VARIABLES   \* RateControl
  rate, mode, clean, hold, ratesOwed, debounced, applied, setting, hardware, building,
  ratesCalm, overlapped

VARIABLES   \* Pairing
  pin, pinAge, pins, failed, pairingLocked, saving, keychain, prompt, token, waited, used

VARIABLES   \* LinkPressure
  linkSession, attached, counted, queued, skipping, checking, last, samples, reading,
  readings, straddled

VARIABLES   \* CaptureControl
  controlSession, phase, target, displays, negotiated, floor, controlApplied, recent,
  jobs, applying, stream, os, late, refused

VARIABLES   \* Negotiation
  offer, settings, config, viewer, host, up, down

VARIABLES   \* EncoderSize
  params, sizeHardware, base, holder, sizeAt, want, sizePhase, linkSize, sessions, spoilt

VARIABLES   \* CaptureSurfaces
  captures, drawing, content, delivered, runs, surfacesLife, surfacesAt, surfacesCarried,
  surfacesLatest, noted, surfacesStop, surfacesCoding, refs, uses

VARIABLES   \* HostStart
  file, cli, startConfig, startPhase, engine, endpoint, advertised, startSession, task,
  capturing, startLate

still == <<screen, at, carried, latest, passes, attempts, next, pending, sharpen, stop,
  life, sharpened, locked, session, coding, outputs, out, owed, drops>>
governor == <<policy, current, pressure, changed, runStart, lastCongested, lastUnstable,
  lastReturn, retryAfter, calm, sinceLeft, owedWait>>
rates == <<rate, mode, clean, hold, ratesOwed, debounced, applied, setting, hardware,
  building, ratesCalm, overlapped>>
pairing == <<pin, pinAge, pins, failed, pairingLocked, saving, keychain, prompt, token,
  waited, used>>
link == <<linkSession, attached, counted, queued, skipping, checking, last, samples,
  reading, readings, straddled>>
control == <<controlSession, phase, target, displays, negotiated, floor, controlApplied,
  recent, jobs, applying, stream, os, late, refused>>
stream0 == <<offer, settings, config, viewer, host, up, down>>
size == <<params, sizeHardware, base, holder, sizeAt, want, sizePhase, linkSize, sessions,
  spoilt>>
surfaces == <<captures, drawing, content, delivered, runs, surfacesLife, surfacesAt,
  surfacesCarried, surfacesLatest, noted, surfacesStop, surfacesCoding, refs, uses>>
start == <<file, cli, startConfig, startPhase, engine, endpoint, advertised, startSession,
  task, capturing, startLate>>
vars == <<machine, still, governor, rates, pairing, link, control, stream0, size,
  surfaces, start>>

Still == INSTANCE StillScreen

Governor == INSTANCE SizeGovernor

Rates == INSTANCE RateControl WITH
  owed <- ratesOwed, calm <- ratesCalm

Pairs == INSTANCE Pairing WITH
  locked <- pairingLocked

Link == INSTANCE LinkPressure WITH
  session <- linkSession

Control == INSTANCE CaptureControl WITH
  MaxSessions <- ControlMaxSessions, session <- controlSession, applied <- controlApplied

Stream0 == INSTANCE Negotiation

Size == INSTANCE EncoderSize WITH
  MaxSessions <- SizeMaxSessions, hardware <- sizeHardware, at <- sizeAt,
  phase <- sizePhase

Surfaces == INSTANCE CaptureSurfaces WITH
  MaxCaptures <- SurfacesMaxCaptures, MaxCoding <- SurfacesMaxCoding,
  life <- surfacesLife, at <- surfacesAt, carried <- surfacesCarried,
  latest <- surfacesLatest, stop <- surfacesStop, coding <- surfacesCoding

Start == INSTANCE HostStart WITH
  config <- startConfig, phase <- startPhase, session <- startSession, late <- startLate

ASSUME PartsAssumption ==
  /\ Still!Assumption
  /\ Governor!Assumption
  /\ Rates!Assumption
  /\ Pairs!Assumption
  /\ Link!Assumption
  /\ Control!Assumption
  /\ Stream0!Assumption
  /\ Size!Assumption
  /\ Surfaces!Assumption
  /\ Start!Assumption

TypeOK ==
  /\ machine \in Machines
  /\ machine = "still" => Still!TypeOK
  /\ machine = "governor" => Governor!TypeOK
  /\ machine = "rates" => Rates!TypeOK
  /\ machine = "pairing" => Pairs!TypeOK
  /\ machine = "link" => Link!TypeOK
  /\ machine = "control" => Control!TypeOK
  /\ machine = "stream0" => Stream0!TypeOK
  /\ machine = "size" => Size!TypeOK
  /\ machine = "surfaces" => Surfaces!TypeOK
  /\ machine = "start" => Start!TypeOK

\* A component that does not run starts in one of its initial states.
Init ==
  /\ machine \in Machines
  /\ Still!Init
  /\ Governor!Init
  /\ machine # "governor" => policy = "sharp"
  /\ Rates!Init
  /\ Pairs!Init
  /\ Link!Init
  /\ Control!Init
  /\ Stream0!Init
  /\ machine # "stream0" =>
       /\ offer = (CHOOSE o \in Stream0!Hello : TRUE)
       /\ settings = CHOOSE s \in Stream0!Settings : TRUE
  /\ Size!Init
  /\ Surfaces!Init
  /\ Start!Init
  /\ machine # "start" =>
       /\ file = [read |-> "missing", gives |-> <<>>]
       /\ cli = <<>>

\* A step of one component leaves the others where they are.
Next ==
  \/ /\ machine = "still" /\ Still!Next
     /\ UNCHANGED <<machine, governor, rates, pairing, link, control, stream0, size,
                    surfaces, start>>
  \/ /\ machine = "governor" /\ Governor!Next
     /\ UNCHANGED <<machine, still, rates, pairing, link, control, stream0, size,
                    surfaces, start>>
  \/ /\ machine = "rates" /\ Rates!Next
     /\ UNCHANGED <<machine, still, governor, pairing, link, control, stream0, size,
                    surfaces, start>>
  \/ /\ machine = "pairing" /\ Pairs!Next
     /\ UNCHANGED <<machine, still, governor, rates, link, control, stream0, size,
                    surfaces, start>>
  \/ /\ machine = "link" /\ Link!Next
     /\ UNCHANGED <<machine, still, governor, rates, pairing, control, stream0, size,
                    surfaces, start>>
  \/ /\ machine = "control" /\ Control!Next
     /\ UNCHANGED <<machine, still, governor, rates, pairing, link, stream0, size,
                    surfaces, start>>
  \/ /\ machine = "stream0" /\ Stream0!Next
     /\ UNCHANGED <<machine, still, governor, rates, pairing, link, control, size,
                    surfaces, start>>
  \/ /\ machine = "size" /\ Size!Next
     /\ UNCHANGED <<machine, still, governor, rates, pairing, link, control, stream0,
                    surfaces, start>>
  \/ /\ machine = "surfaces" /\ Surfaces!Next
     /\ UNCHANGED <<machine, still, governor, rates, pairing, link, control, stream0,
                    size, start>>
  \/ /\ machine = "start" /\ Start!Next
     /\ UNCHANGED <<machine, still, governor, rates, pairing, link, control, stream0,
                    size, surfaces>>

Spec == Init /\ [][Next]_vars

\* SizeGovernor: the viewer goes on reporting.
\* RateControl: the viewer goes on reporting, and the rate set reaches the
\* session.
\* LinkPressure: the link drains its queue, and the screen goes on changing, so
\* that frames are captured.
FairSpec ==
  /\ Spec
  /\ WF_governor(machine = "governor" /\ Governor!Step)
  /\ WF_rates(machine = "rates" /\ Rates!Report)
  /\ WF_rates(machine = "rates" /\ Rates!SetBitrate)
  /\ WF_link(machine = "link" /\ Link!Drains)
  /\ WF_link(machine = "link" /\ Link!Capture)

-----------------------------------------------------------------------------
(* Properties, each of one component.                                      *)

\* When the screen rests, what the encoder last put out shows its current
\* content; a frame whose surface was drawn into again never stays the last,
\* and every surface goes back to the pool.
EndsOnCurrentScreen ==
  /\ Still!EndsOnCurrentScreen
  /\ Surfaces!SurfacesTrue

\* Frames of an encoder session come out before those of the one that replaced
\* it.
OldSessionFirst == Still!OldSessionFirst

\* The display's own size is retried after a wait that doubles with each
\* failure.
RetriesSpread == Governor!RetriesSpread

\* A link that turns good is used to the full: the display's own size and the
\* highest rate come back, and frames are no longer held back once its queue
\* has drained.
LinkUsed ==
  /\ Governor!NativeComesBack
  /\ Rates!RateRecovers
  /\ Link!SkippingEnds

\* The loss that the rate follows is that of the session's own packets.
LossIsTheSessions == Link!LossIsTheSessions

\* A PIN is accepted once, and guesses past the threshold wait for their
\* lockout.
PinGuarded == Pairs!PinGuarded

\* What the ends agree on suits both, and is the best the bitrate affords.
StreamAgreed == Stream0!StreamAgreed

\* What was decided is what is in force, however the calls that bring it about
\* interleave, fail or outlive a session: the rate of the encoder, the interval
\* of capture, the size of the encoder, and what file and flags say of the
\* host, which leaves nothing behind.
SettingsInForce ==
  /\ Rates!RateInForce
  /\ Control!IntervalInForce
  /\ Size!LinkSizeInForce
  /\ Start!RunsAsConfigured
=============================================================================
