---------------------------- MODULE CaptureSurfaces ----------------------------
(***************************************************************************)
(* The surfaces that ScreenCaptureKit draws the screen into and that the   *)
(* encoder reads, with nothing copied between: the capture callback        *)
(* (crates/renderd-sc-sys/src/stream.rs, crates/renderd-host/src/          *)
(* capture.rs), the surface the still-screen refiner keeps (refine.rs),    *)
(* IoSurface and HeldSurface (crates/renderd-vt-sys/src/surface.rs) and    *)
(* the pixel buffer around a surface that is encoded (session.rs).         *)
(*                                                                         *)
(* A reference keeps a surface's memory; only a use count keeps the pool   *)
(* from drawing the next picture into it.  What the refiner submits when   *)
(* is StillScreen's: here it submits what it keeps when it likes.          *)
(***************************************************************************)
EXTENDS Naturals, Sequences

CONSTANTS
  Depth,        \* surfaces of the pool, setQueueDepth
  MaxCaptures,
  MaxCoding     \* frames the encoder holds at a time

\* What the constants must be; the module that chooses them assumes it.
Assumption == {Depth, MaxCaptures, MaxCoding} \subseteq Nat \ {0}

Surface == 1 .. Depth
None == 0
Torn == 0      \* in place of a capture: the surface was being drawn into

Thread == {"capture", "refiner"}

VARIABLES
  captures,   \* pictures of the screen drawn, which numbers them
  drawing,    \* the surface ScreenCaptureKit draws into
  content,    \* the capture in each surface
  delivered,  \* sample buffers for the callback, oldest first: their surfaces
  runs,       \* ScreenCaptureKit goes on capturing
  life,       \* CapturePipeline: "running", "stopping", "joining", "stopped", "gone"
  at,         \* where each thread is
  carried,    \* the surface each thread submits, and the capture it is meant to show
  latest,     \* State::latest
  noted,      \* the newest capture on_capture has seen
  stop,       \* State::stop
  coding,     \* frames in the encoder, oldest first
  refs,       \* references to each surface but the pool's own
  uses        \* IOSurface use counts

pool == <<captures, drawing, content, delivered, runs>>
threads == <<life, at, carried, latest, noted, stop>>
counts == <<refs, uses>>
vars == <<pool, threads, coding, counts>>

Capture == 0 .. MaxCaptures
Carried == [surface : Surface \cup {None}, meant : Capture]
Nothing == [surface |-> None, meant |-> 0]

TypeOK ==
  /\ captures \in Capture /\ noted \in Capture
  /\ drawing \in Surface \cup {None}
  /\ content \in [Surface -> Capture]
  /\ delivered \in Seq(Surface)
  /\ {runs, stop} \subseteq BOOLEAN
  /\ life \in {"running", "stopping", "joining", "stopped", "gone"}
  /\ at \in [Thread -> {"idle", "called", "submitting", "submitted"}]
  /\ carried \in [Thread -> Carried] /\ latest \in Carried
  /\ Len(coding) <= MaxCoding
  /\ coding \in Seq([surface : Surface, meant : Capture, shows : Capture])
  /\ refs \in [Surface -> Nat] /\ uses \in [Surface -> Nat]

Init ==
  /\ captures = 0 /\ drawing = None /\ content = [s \in Surface |-> 0]
  /\ delivered = <<>> /\ runs = TRUE
  /\ life = "running" /\ stop = FALSE
  /\ at = [t \in Thread |-> "idle"] /\ carried = [t \in Thread |-> Nothing]
  /\ latest = Nothing /\ noted = 0
  /\ coding = <<>>
  /\ refs = [s \in Surface |-> 0] /\ uses = [s \in Surface |-> 0]

\* IoSurface::from_raw_retained, clone and drop.
Retained(count, s) == [count EXCEPT ![s] = @ + 1]
Dropped(count, s) == IF s = None THEN count ELSE [count EXCEPT ![s] = @ - 1]

MutInUse(count, s) == count

\* HeldSurface::new
InUse(count, s) == [count EXCEPT ![s] = @ + 1]

MutUnused(count, s) == count

\* The end of a HeldSurface.
Unused(count, s) == IF s = None THEN count ELSE [count EXCEPT ![s] = @ - 1]

-----------------------------------------------------------------------------
(* ScreenCaptureKit.                                                       *)

\* The screen changed, and there is a surface nobody uses.
DrawBegins ==
  /\ runs /\ drawing = None /\ captures < MaxCaptures
  /\ \E s \in Surface :
       /\ uses[s] = 0
       /\ drawing' = s
       /\ content' = [content EXCEPT ![s] = captures + 1]
  /\ captures' = captures + 1
  /\ UNCHANGED <<delivered, runs, threads, coding, counts>>

\* The sample buffer that is delivered has the surface in use.
DrawEnds ==
  /\ drawing # None
  /\ drawing' = None
  /\ delivered' = Append(delivered, drawing)
  /\ refs' = [refs EXCEPT ![drawing] = @ + 1]
  /\ uses' = [uses EXCEPT ![drawing] = @ + 1]
  /\ UNCHANGED <<captures, content, runs, threads, coding>>

\* Capturing ends, in time for who waits for it or later.
Ends ==
  /\ runs /\ life # "running"
  /\ runs' = FALSE
  /\ UNCHANGED <<captures, drawing, content, delivered, threads, coding, counts>>

-----------------------------------------------------------------------------
(* The capture callback, one at a time on the stream's queue.              *)

\* stream_did_output_sample_buffer, up to the callback.
Called ==
  /\ at["capture"] = "idle" /\ delivered # <<>>
  /\ LET s == Head(delivered)
     IN /\ carried' = [carried EXCEPT !["capture"] = [surface |-> s, meant |-> content[s]]]
        /\ refs' = Retained(refs, s)
  /\ at' = [at EXCEPT !["capture"] = "called"]
  /\ UNCHANGED <<pool, life, latest, noted, stop, coding, uses>>

\* StaticRefiner::on_capture: the surface is in use before it takes the place of
\* the one kept so far.
OnCapture ==
  /\ at["capture"] = "called"
  /\ latest' = carried["capture"]
  /\ noted' = carried["capture"].meant
  /\ LET s == carried["capture"].surface
     IN /\ refs' = Dropped(Retained(refs, s), latest.surface)
        /\ uses' = Unused(InUse(uses, s), latest.surface)
  /\ at' = [at EXCEPT !["capture"] = "submitting"]
  /\ UNCHANGED <<pool, life, carried, stop, coding>>

\* encode_surface: the pixel buffer around the surface is VideoToolbox's until
\* the frame comes out, and reads what is there.
Encode(t) ==
  LET s == carried[t].surface
  IN /\ at[t] = "submitting" /\ Len(coding) < MaxCoding
     /\ coding' = Append(coding, [surface |-> s, meant |-> carried[t].meant,
                                  shows |-> IF drawing = s THEN Torn ELSE content[s]])
     /\ refs' = Retained(refs, s)
     /\ uses' = [uses EXCEPT ![s] = @ + 1]
     /\ at' = [at EXCEPT ![t] = "submitted"]
     /\ UNCHANGED <<pool, life, carried, latest, noted, stop>>

\* The frame is shed, or the encoder will not take it.
NotEncoded(t) ==
  /\ at[t] = "submitting"
  /\ at' = [at EXCEPT ![t] = "submitted"]
  /\ UNCHANGED <<pool, life, carried, latest, noted, stop, coding, counts>>

\* The callback returns: its frame is dropped, and so is the sample buffer.
Returned ==
  LET s == carried["capture"].surface
  IN /\ at["capture"] = "submitted"
     /\ refs' = Dropped(Dropped(refs, s), s)
     /\ uses' = [uses EXCEPT ![s] = @ - 1]
     /\ delivered' = Tail(delivered)
     /\ carried' = [carried EXCEPT !["capture"] = Nothing]
     /\ at' = [at EXCEPT !["capture"] = "idle"]
     /\ UNCHANGED <<captures, drawing, content, runs, life, latest, noted, stop, coding>>

\* The frame comes out of the encoder, and its pixel buffer goes.
Output ==
  /\ coding # <<>>
  /\ refs' = Dropped(refs, Head(coding).surface)
  /\ uses' = [uses EXCEPT ![Head(coding).surface] = @ - 1]
  /\ coding' = Tail(coding)
  /\ UNCHANGED <<pool, threads>>

-----------------------------------------------------------------------------
(* The refiner's thread.                                                   *)

\* A pass: what is kept is cloned under the lock, and submitted without it.
Pass ==
  /\ at["refiner"] = "idle" /\ ~stop /\ latest # Nothing
  /\ carried' = [carried EXCEPT !["refiner"] = latest]
  /\ refs' = Retained(refs, latest.surface)
  /\ at' = [at EXCEPT !["refiner"] = "submitting"]
  /\ UNCHANGED <<pool, life, latest, noted, stop, coding, uses>>

\* The end of a pass: the clone goes.
PassEnds ==
  /\ at["refiner"] = "submitted"
  /\ refs' = Dropped(refs, carried["refiner"].surface)
  /\ carried' = [carried EXCEPT !["refiner"] = Nothing]
  /\ at' = [at EXCEPT !["refiner"] = "idle"]
  /\ UNCHANGED <<pool, life, latest, noted, stop, coding, uses>>

LetGo ==
  /\ latest' = Nothing
  /\ refs' = Dropped(refs, latest.surface)
  /\ uses' = Unused(uses, latest.surface)

\* Every pass ran: the surface goes back to the pool.
Rest ==
  /\ at["refiner"] = "idle" /\ ~stop /\ latest # Nothing
  /\ LetGo
  /\ UNCHANGED <<pool, life, at, carried, noted, stop, coding>>

-----------------------------------------------------------------------------
(* CapturePipeline::stop.                                                  *)

StopStream ==
  /\ life = "running"
  /\ life' = "stopping"
  /\ UNCHANGED <<pool, at, carried, latest, noted, stop, coding, counts>>

\* ScreenStream::stop returned, though capturing may go on if it timed out; the
\* refiner is told to stop, and lets go ...
StopRefiner ==
  /\ life = "stopping"
  /\ life' = "joining" /\ stop' = TRUE
  /\ LetGo
  /\ UNCHANGED <<pool, at, carried, noted, coding>>

\* ... and is joined.
Joined ==
  /\ life = "joining" /\ at["refiner"] = "idle"
  /\ life' = "stopped"
  /\ UNCHANGED <<pool, at, carried, latest, noted, stop, coding, counts>>

\* The last callback is over: the closure goes and the refiner with it, which
\* stops once more.
ClosureGone ==
  /\ life = "stopped" /\ ~runs /\ drawing = None
  /\ delivered = <<>> /\ at["capture"] = "idle"
  /\ life' = "gone"
  /\ LetGo
  /\ UNCHANGED <<pool, at, carried, noted, stop, coding>>

Next ==
  \/ DrawBegins \/ DrawEnds \/ Ends
  \/ Called \/ OnCapture \/ Returned \/ Output
  \/ \E t \in Thread : Encode(t) \/ NotEncoded(t)
  \/ Pass \/ PassEnds \/ Rest
  \/ StopStream \/ StopRefiner \/ Joined \/ ClosureGone

Spec == Init /\ [][Next]_vars

-----------------------------------------------------------------------------
(* Properties.                                                             *)

\* What is encoded shows the capture it was submitted as, or a newer capture
\* was noted meanwhile and is encoded after it: the clone that a pass submits
\* outlives the hold on its surface, but not unnoticed.
ShowsMeant ==
  ~stop => \A i \in DOMAIN coding :
             coding[i].shows = coding[i].meant \/ coding[i].meant < noted

\* The screen is done with, or the session is.
Quiet ==
  /\ latest = Nothing \/ life = "gone"
  /\ coding = <<>> /\ delivered = <<>>
  /\ \A t \in Thread : at[t] = "idle"

\* Nothing keeps a surface from the pool once the screen is done with, nor
\* after a session, even one whose stream would not stop in time.
PoolWhole == Quiet => \A s \in Surface : refs[s] = 0 /\ uses[s] = 0

SurfacesTrue == ShowsMeant /\ PoolWhole
=============================================================================
