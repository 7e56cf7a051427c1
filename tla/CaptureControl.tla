--------------------------- MODULE CaptureControl ---------------------------
(***************************************************************************)
(* The capture stream across sessions: which display it shows and how fast *)
(* it runs.  The host (app.rs) chooses the target and may create a virtual *)
(* display, CapturePipeline (capture.rs) starts and stops the stream under *)
(* one mutex, ClockController (clock.rs) turns the viewer's vsync reports  *)
(* into intervals that blocking jobs apply, and ScreenStream, ContentFilter*)
(* and VirtualDisplay (renderd-sc-sys) talk to ScreenCaptureKit, which     *)
(* answers late or not at all.                                             *)
(*                                                                         *)
(* Intervals are small numbers, further apart than the deadband; the rest  *)
(* of a session is HostSession's and the encoder EncoderSize's.            *)
(***************************************************************************)
EXTENDS Naturals

CONSTANTS
  Intervals,     \* negotiated frame intervals and vsync periods
  MaxSessions

\* What the constants must be; the module that chooses them assumes it.
Assumption ==
  /\ Intervals \subseteq Nat \ {0} /\ Intervals # {}
  /\ MaxSessions \in Nat \ {0}

None == 0
Main == 0
Session == 1 .. MaxSessions

VARIABLES
  session,    \* the session, numbered; 0 before the first
  phase,      \* of the session
  target,     \* CaptureTarget: the main display or a virtual one, by session
  displays,   \* virtual displays there are
  negotiated, \* the session's frame interval
  floor,      \* ClockController::floor
  applied,    \* ClockController::last_applied, None or an interval
  recent,     \* less than MIN_RECONFIGURE_INTERVAL since it was noted
  jobs,       \* apply_interval jobs queued: [session, interval]
  applying,   \* the job that holds the capture mutex, {} if none does
  stream,     \* CapturePipeline::stream: the session that made it, or None
  os,         \* ScreenCaptureKit's streams: [runs, shows, interval, config]
  late,       \* sessions whose stream ScreenCaptureKit starts or stops late
  refused     \* history: an interval was not applied or not by its session

clock == <<floor, applied, recent>>
vars == <<session, phase, target, displays, negotiated, clock, jobs, applying, stream, os, late, refused>>

Interval == Intervals \cup {None}

TypeOK ==
  /\ session \in 0 .. MaxSessions
  /\ phase \in {"idle", "selecting", "starting", "started", "streaming", "stopping", "stopped"}
  /\ target \in 0 .. MaxSessions
  /\ displays \subseteq Session
  /\ {negotiated, floor, applied} \subseteq Interval
  /\ recent \in BOOLEAN /\ refused \in BOOLEAN
  /\ jobs \subseteq [session : Session, interval : Intervals]
  /\ applying \subseteq [session : Session, interval : Intervals]
  /\ stream \in 0 .. MaxSessions
  /\ os \in [Session -> [runs : BOOLEAN, shows : 0 .. MaxSessions, interval : Interval, config : Interval]]
  /\ late \subseteq Session

NoStream == [runs |-> FALSE, shows |-> Main, interval |-> None, config |-> None]

Init ==
  /\ session = 0 /\ phase = "idle" /\ target = Main /\ displays = {}
  /\ negotiated = None /\ floor = None /\ applied = None /\ recent = FALSE
  /\ jobs = {} /\ applying = {} /\ stream = None
  /\ os = [s \in Session |-> NoStream]
  /\ late = {} /\ refused = FALSE

Slower(a, b) == IF a < b THEN b ELSE a

-----------------------------------------------------------------------------
(* The session.                                                            *)

\* select_capture_target when the main display is to be mirrored ...
SelectMain ==
  /\ phase = "idle" /\ session < MaxSessions
  /\ session' = session + 1
  /\ phase' = "selecting"
  /\ target' = Main
  /\ UNCHANGED <<displays, negotiated, clock, jobs, applying, stream, os, late, refused>>

\* ... or extended: a virtual display of the viewer's size is created, and the
\* main display mirrored when macOS has no such display to give.
CreateDisplay ==
  /\ phase = "idle" /\ session < MaxSessions
  /\ session' = session + 1
  /\ phase' = "selecting"
  /\ \/ target' = session + 1 /\ displays' = displays \cup {session + 1}
     \/ target' = Main /\ displays' = displays
  /\ UNCHANGED <<negotiated, clock, jobs, applying, stream, os, late, refused>>

\* start with the capture mutex taken: the filter is made, of the virtual
\* display itself or of any when the main one is gone, and the stream asked to
\* start at the negotiated interval.
Start ==
  /\ phase = "selecting" /\ applying = {}
  /\ phase' = "starting"
  /\ negotiated' \in Intervals
  /\ os' = [os EXCEPT ![session] =
              [runs |-> FALSE, shows |-> target, interval |-> negotiated', config |-> negotiated']]
  /\ refused' = FALSE
  /\ UNCHANGED <<session, target, displays, clock, jobs, applying, stream, late>>

\* ... permission is denied, or the display does not show up in time.
NoFilter ==
  /\ phase = "selecting" /\ applying = {}
  /\ phase' = "stopped"
  /\ UNCHANGED <<session, target, displays, negotiated, clock, jobs, applying, stream, os, late, refused>>

\* The stream starts, and the pipeline keeps it.
Started ==
  /\ phase = "starting"
  /\ os' = [os EXCEPT ![session].runs = TRUE]
  /\ stream' = session
  /\ phase' = "started"
  /\ UNCHANGED <<session, target, displays, negotiated, clock, jobs, applying, late, refused>>

\* It fails to start, or answers too late: the handle is dropped without a stop,
\* for it never ran.
StartFails ==
  /\ phase = "starting"
  /\ phase' = "stopped"
  /\ late' \in {late, late \cup {session}}
  /\ UNCHANGED <<session, target, displays, negotiated, clock, jobs, applying, stream, os, refused>>

\* ClockController::begin_session
BeginSession ==
  /\ phase = "started"
  /\ phase' = "streaming"
  /\ floor' = negotiated
  /\ applied' = negotiated
  /\ recent' = TRUE
  /\ UNCHANGED <<session, target, displays, negotiated, jobs, applying, stream, os, late, refused>>

\* teardown_session: the capture mutex is taken, and the stream told to stop.
Stop ==
  /\ phase = "streaming" /\ applying = {}
  /\ phase' = "stopping"
  /\ UNCHANGED <<session, target, displays, negotiated, clock, jobs, applying, stream, os, late, refused>>

\* It has stopped, or has not within three seconds; either way it is dropped.
Stopped ==
  /\ phase = "stopping"
  /\ phase' = "stopped"
  /\ stream' = None
  /\ \/ os' = [os EXCEPT ![session].runs = FALSE] /\ late' = late
     \/ os' = os /\ late' = late \cup {session}
  /\ UNCHANGED <<session, target, displays, negotiated, clock, jobs, applying, refused>>

\* The connection's task ends: the handle of the virtual display goes with it.
Ended ==
  /\ phase = "stopped"
  /\ phase' = "idle"
  /\ displays' = displays \ {session}
  /\ UNCHANGED <<session, target, negotiated, clock, jobs, applying, stream, os, late, refused>>

-----------------------------------------------------------------------------
(* Retiming.                                                               *)

MutReconfigure(interval) == interval # applied

\* should_reconfigure
Reconfigure(interval) == interval # applied /\ ~recent

\* The interval a report's period asks for, never under the floor.
Target(period) == Slower(period, floor)

\* on_vsync_report, of a period: what was decided is noted as applied and a job
\* is queued to apply it.
OnVsyncReport(period) ==
  /\ phase = "streaming"
  /\ Reconfigure(Target(period))
  /\ [session |-> session, interval |-> Target(period)] \notin jobs
  /\ applied' = Target(period)
  /\ recent' = TRUE
  /\ jobs' = jobs \cup {[session |-> session, interval |-> Target(period)]}
  /\ UNCHANGED <<session, phase, target, displays, negotiated, floor, applying, stream, os, late, refused>>

\* Five seconds pass; jobs of this session are long done.
MinIntervalPasses ==
  /\ recent
  /\ \A j \in jobs \cup applying : j.session # session
  /\ recent' = FALSE
  /\ UNCHANGED <<session, phase, target, displays, negotiated, floor, applied, jobs, applying, stream, os, late, refused>>

\* apply_interval has the capture mutex: set_target_interval changes the
\* configuration of whichever stream there is and asks for an update with it.
Apply(j) ==
  /\ j \in jobs /\ applying = {}
  /\ phase \notin {"starting", "stopping"}
  /\ jobs' = jobs \ {j}
  /\ IF stream = None THEN applying' = {} /\ os' = os /\ refused' = refused
     ELSE /\ applying' = {j}
          /\ os' = [os EXCEPT ![stream].config = j.interval]
          /\ refused' = (refused \/ stream # j.session)
  /\ UNCHANGED <<session, phase, target, displays, negotiated, clock, stream, late>>

\* The update completes, or fails, or its answer is not waited for.
Applied ==
  /\ applying # {}
  /\ applying' = {}
  /\ \/ os' = [os EXCEPT ![stream].interval = os[stream].config] /\ refused' = refused
     \/ os' = os /\ refused' = TRUE
  /\ UNCHANGED <<session, phase, target, displays, negotiated, clock, jobs, stream, late>>

-----------------------------------------------------------------------------
(* ScreenCaptureKit, after it was no longer waited for.                    *)

StartsOrStopsLate(s) ==
  /\ s \in late
  /\ late' = late \ {s}
  /\ os' = [os EXCEPT ![s].runs = ~os[s].runs]
  /\ UNCHANGED <<session, phase, target, displays, negotiated, clock, jobs, applying, stream, refused>>

-----------------------------------------------------------------------------
Next ==
  \/ SelectMain \/ CreateDisplay \/ Start \/ NoFilter \/ Started \/ StartFails \/ BeginSession
  \/ Stop \/ Stopped \/ Ended
  \/ \E period \in Intervals : OnVsyncReport(period)
  \/ MinIntervalPasses
  \/ \E j \in jobs : Apply(j)
  \/ Applied
  \/ \E s \in Session : StartsOrStopsLate(s)

Spec == Init /\ [][Next]_vars

-----------------------------------------------------------------------------
(* Properties.                                                             *)

\* Once nothing is on its way to it, capture runs at the interval the clock
\* takes for applied: the one the next report is compared with.  A session it
\* was refused in, by ScreenCaptureKit or for a job the session before left
\* behind, is another matter.
IntervalInForce ==
  phase = "streaming" /\ jobs = {} /\ applying = {} /\ ~refused
    => os[session].interval = applied
=============================================================================
