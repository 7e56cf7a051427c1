----------------------------- MODULE LinkPressure -----------------------------
(***************************************************************************)
(* What the host knows of the session's connection while it sends          *)
(* (crates/renderd-host/src/network/pressure.rs): the queue in front of    *)
(* the link, for which captured frames are skipped before they are         *)
(* encoded, and QUIC's packet loss over the last few reports, for the      *)
(* bitrate.  One LinkPressure serves all sessions in turn; the thread that *)
(* captures and the tasks that read the viewer's reports use it without    *)
(* knowing of each other, or of a session that ends (app.rs).              *)
(*                                                                         *)
(* The queue is measured in the time it takes to drain.                    *)
(***************************************************************************)
EXTENDS Integers, Sequences, SequencesExt

CONSTANTS
  MaxSessions,
  MaxPackets, MaxLost,      \* counted by a connection
  MaxQueue,
  SkipAbove, ResumeBelow,   \* in units of the queue
  LossSamples

\* What the constants must be; the module that chooses them assumes it.
Assumption ==
  /\ {MaxSessions, MaxPackets, MaxLost, MaxQueue, SkipAbove, ResumeBelow, LossSamples} \subseteq Nat \ {0}
  /\ ResumeBelow <= SkipAbove /\ SkipAbove < MaxQueue

VARIABLES
  session,    \* sessions that were attached
  attached,   \* the last one still is
  counted,    \* packets sent and lost by its connection
  queued,     \* its datagram queue
  skipping,
  checking,   \* the capturing thread in should_skip_frame: what it has read
  last,       \* LossWindow::last
  samples,    \* LossWindow::samples
  reading,    \* of each session's reader: counters read and not yet sampled
  readings,   \* history: the counters sampled since the session was attached
  straddled   \* history: a reader of an earlier session sampled among them

capture == <<skipping, checking>>
window == <<last, samples, reading, readings, straddled>>
vars == <<session, attached, counted, queued, capture, window>>

Counters == [sent : 0 .. MaxPackets, lost : 0 .. MaxLost]
None == [sent |-> -1, lost |-> -1]
Zero == [sent |-> 0, lost |-> 0]
Idle == <<>>

TypeOK ==
  /\ session \in 0 .. MaxSessions
  /\ {attached, skipping, straddled} \subseteq BOOLEAN
  /\ counted \in Counters /\ queued \in 0 .. MaxQueue
  /\ checking \in {Idle} \cup ({"loaded", "decided"} \X BOOLEAN)
  /\ last \in Counters \cup {None}
  /\ {samples, readings} \subseteq Seq(Counters)
  /\ Len(samples) <= LossSamples
  /\ reading \in [1 .. MaxSessions -> Counters \cup {None}]

Init ==
  /\ session = 0 /\ attached = FALSE
  /\ counted = Zero /\ queued = 0
  /\ skipping = FALSE /\ checking = Idle
  /\ last = None /\ samples = <<>>
  /\ reading = [r \in 1 .. MaxSessions |-> None]
  /\ readings = <<>> /\ straddled = FALSE

-----------------------------------------------------------------------------
(* A session's connection.                                                 *)

MutAttach ==
  /\ ~attached /\ session < MaxSessions
  /\ session' = session + 1 /\ attached' = TRUE
  /\ counted' = Zero /\ queued' = 0
  /\ skipping' = FALSE
  /\ readings' = <<>> /\ straddled' = FALSE
  /\ UNCHANGED <<checking, last, samples, reading>>

\* attach, which starts the loss window anew.
Attach ==
  /\ ~attached /\ session < MaxSessions
  /\ session' = session + 1 /\ attached' = TRUE
  /\ counted' = Zero /\ queued' = 0
  /\ skipping' = FALSE
  /\ last' = None /\ samples' = <<>>
  /\ readings' = <<>> /\ straddled' = FALSE
  /\ UNCHANGED <<checking, reading>>

\* detach, by EncodePipeline::shutdown; the connection is of no interest any more.
Detach ==
  /\ attached
  /\ attached' = FALSE
  /\ counted' = Zero /\ queued' = 0
  /\ skipping' = FALSE
  /\ last' = None /\ samples' = <<>>
  /\ readings' = <<>> /\ straddled' = FALSE
  /\ UNCHANGED <<session, checking, reading>>

\* QUIC counts a packet sent, or finds one lost.
Counts ==
  /\ attached
  /\ \/ counted.sent < MaxPackets /\ counted' = [counted EXCEPT !.sent = @ + 1]
     \/ counted.lost < counted.sent /\ counted.lost < MaxLost /\ counted' = [counted EXCEPT !.lost = @ + 1]
  /\ UNCHANGED <<session, attached, queued, capture, window>>

\* The queue drains onto the link.
Drains ==
  /\ attached /\ queued > 0
  /\ queued' = queued - 1
  /\ UNCHANGED <<session, attached, counted, capture, window>>

-----------------------------------------------------------------------------
(* should_skip_frame                                                       *)

MutNextSkipState(was, queue) == IF was THEN queue <= SkipAbove ELSE queue > SkipAbove

NextSkipState(was, queue) == IF was THEN queue >= ResumeBelow ELSE queue > SkipAbove

\* What was decided for the last frame ...
LoadSkipping ==
  /\ checking = Idle
  /\ checking' = <<"loaded", skipping>>
  /\ UNCHANGED <<session, attached, counted, queued, skipping, window>>

\* ... and the queue there is now, which is empty without a connection ...
Decide ==
  /\ checking # Idle /\ checking[1] = "loaded"
  /\ LET skip == NextSkipState(checking[2], IF attached THEN queued ELSE 0)
     IN /\ checking' = <<"decided", skip>>
        /\ skipping' = skipping
  /\ UNCHANGED <<session, attached, counted, queued, window>>

\* ... decide on this one, which is encoded and queued, or not.
StoreSkipping ==
  /\ checking # Idle /\ checking[1] = "decided"
  /\ skipping' = checking[2]
  /\ checking' = Idle
  /\ queued' \in IF checking[2] \/ ~attached THEN {queued} ELSE queued .. MaxQueue
  /\ UNCHANGED <<session, attached, counted, window>>

-----------------------------------------------------------------------------
(* packet_loss, by the reader of a session, once per report.  A reader may *)
(* still be at it when its session is over.                                *)

\* The counters of the connection attached ...
ReadStats(r) ==
  /\ attached /\ r <= session /\ reading[r] = None
  /\ reading' = [reading EXCEPT ![r] = counted]
  /\ UNCHANGED <<session, attached, counted, queued, capture, last, samples, readings, straddled>>

Newest(s, n) == IF Len(s) > n THEN Tail(s) ELSE s

\* saturating_sub
Less(a, b) == IF a < b THEN 0 ELSE a - b

\* ... and LossWindow::sample.
Sample(r) ==
  /\ reading[r] # None
  /\ samples' =
       IF last = None THEN samples
       ELSE Newest(Append(samples, [sent |-> Less(reading[r].sent, last.sent),
                                    lost |-> Less(reading[r].lost, last.lost)]), LossSamples)
  /\ last' = reading[r]
  /\ reading' = [reading EXCEPT ![r] = None]
  /\ readings' = Newest(Append(readings, reading[r]), LossSamples + 1)
  /\ straddled' = (straddled \/ r # session)
  /\ UNCHANGED <<session, attached, counted, queued, capture>>

-----------------------------------------------------------------------------
Reader == \E r \in 1 .. MaxSessions : ReadStats(r) \/ Sample(r)
Capture == LoadSkipping \/ Decide \/ StoreSkipping

Next == Attach \/ Detach \/ Counts \/ Drains \/ Capture \/ Reader

Spec == Init /\ [][Next]_vars

-----------------------------------------------------------------------------
(* Properties.                                                             *)

\* Packets of the first samples, and of all in the window.
Total[i \in 0 .. Len(samples)] ==
  IF i = 0 THEN Zero
  ELSE [sent |-> Total[i - 1].sent + samples[i].sent, lost |-> Total[i - 1].lost + samples[i].lost]
InWindow == Total[Len(samples)]

\* The loss the bitrate is set by is that of the session's own packets, all of
\* those between the first of the last reports and the last of them and no
\* others, though one window serves every session; unless a reader of a session
\* before it was late and counted here too.
LossIsTheSessions ==
  attached /\ ~straddled /\ readings # <<>> =>
    /\ InWindow.sent = Last(readings).sent - Head(readings).sent
    /\ InWindow.lost = Last(readings).lost - Head(readings).lost

\* Frames that were held back for the queue are not the last: while the screen is
\* captured one is encoded again.
SkippingEnds == skipping ~> ~skipping
=============================================================================
