------------------------------ MODULE FrameTimes ------------------------------
(***************************************************************************)
(* The capture time of a frame on its way from the host to the viewer's    *)
(* estimate of queuing delay.  The host sends it in a field that wraps     *)
(* (renderd-host network/data.rs, fragment_frame); the viewer places it in *)
(* a period of its own (renderd-viewer network/data.rs, unwrap_pts_ns),    *)
(* once when the frame has arrived and once when it is decoded, and        *)
(* subtracts it from the time of arrival (abr/delay.rs).  A unit of time   *)
(* is a Period-th of 16.7 s, and also a bucket of the baseline; both       *)
(* machines' clocks run alike, which the estimate does not depend on.      *)
(***************************************************************************)
EXTENDS Integers, FiniteSets, FiniteSetsExt

CONSTANTS
  Period,      \* MAX_PTS_OFFSET_US + 1
  Window,      \* BASE_WINDOW / BUCKET
  MaxDelay,    \* how long a frame may be on its way when nothing of it is lost
  MaxResend,   \* ... and when some of it is sent again
  MaxFrames,   \* bound on the frames captured
  MaxTime      \* bound on the time from the first capture on

\* What the constants must be; the module that chooses them assumes it.
Assumption ==
  /\ {Period, Window, MaxDelay, MaxResend, MaxFrames, MaxTime} \subseteq Nat
  /\ 2 * MaxResend < Period /\ MaxDelay <= MaxResend /\ Period > 1 /\ Window > 0

VARIABLES
  now,       \* the time
  end,       \* when time stops
  sent,      \* frame id -> its capture time, for the frames sent so far
  arrived,   \* ids of the complete frames
  next,      \* the next frame to decode
  last,      \* last_pts_us, or None
  decoded,   \* the last timestamp the decoder was given, or None
  buckets,   \* DelayTracker::base_buckets
  interval,  \* interval_min_transit, or None
  queue,     \* last_queue_delay_us
  origin,    \* history: the capture time placed at last
  skew,      \* history: how far off the last frame was placed, or None
  sure,      \* history: how long frames have been placed that far off
  decodedBack \* history: the decoder saw time go backwards

vars == <<now, end, sent, arrived, next, last, decoded, buckets, interval, queue, origin,
          skew, sure, decodedBack>>

None == -1
Half == Period \div 2

TypeOK ==
  /\ now \in Nat /\ end \in Nat
  /\ DOMAIN sent \subseteq 1 .. MaxFrames
  /\ arrived \subseteq DOMAIN sent
  /\ next \in 1 .. MaxFrames + 1
  /\ last \in Nat \cup {None} /\ decoded \in Nat \cup {None}
  /\ buckets \subseteq [at : Nat, transit : Int]
  /\ interval \in Int /\ queue \in Nat
  /\ origin \in Nat /\ skew \in Int
  /\ sure \in 0 .. Window

\* The session may begin at any moment of a period.
Init ==
  /\ now \in Period .. 2 * Period - 1 /\ end = now + MaxTime
  /\ sent = <<>> /\ arrived = {} /\ next = 1
  /\ last = None /\ decoded = None
  /\ buckets = {} /\ interval = None /\ queue = 0
  /\ origin = 0 /\ skew = None /\ sure = Window /\ decodedBack = FALSE

\* fragment_frame: what is left of a capture time on the wire.
Wire(time) == time % Period

MutCandidates(raw, base) == {raw + base, raw + base + Period}

\* The places a time can have: in the period of the last, before or after it.
Candidates(raw, base) == {raw + period : period \in {p \in {base - Period, base, base + Period} : p >= 0}}

PeriodOf(l) == l - (l % Period)

Distance(a, b) == IF a < b THEN b - a ELSE a - b

\* unwrap_pts_ns: the candidate nearest to the last time, the earlier of two.
Unwrap(raw, l) ==
  IF l = None THEN raw
  ELSE LET near == Min({Distance(c, l) : c \in Candidates(raw, PeriodOf(l))})
       IN Min({c \in Candidates(raw, PeriodOf(l)) : Distance(c, l) = near})

Later(l, abs) == IF l >= abs THEN l ELSE abs

-----------------------------------------------------------------------------
(* The delay estimate.                                                     *)

Lowest(a, b) == IF a = None THEN b ELSE IF a < b THEN a ELSE b

MutBuckets(transit) == buckets \cup {[at |-> now, transit |-> transit]}

\* The baseline's buckets once a frame with this transit has arrived.
Buckets(transit) ==
  {b \in buckets : now - b.at < Window} \cup {[at |-> now, transit |-> transit]}

\* on_frame
OnFrame(abs) ==
  /\ buckets' = Buckets(now - abs)
  /\ interval' = Lowest(interval, now - abs)

\* take_report; with no frame in the interval the last estimate is repeated
\* or, three reports on, dropped.
TakeReport ==
  /\ queue' \in IF interval = None THEN {queue, 0}
                ELSE {Max({0, interval - Min({b.transit : b \in buckets})})}
  /\ interval' = None
  /\ UNCHANGED <<now, end, sent, arrived, next, last, decoded, buckets, origin, skew, sure, decodedBack>>

-----------------------------------------------------------------------------
(* Frames.                                                                 *)

\* A still screen sends nothing for as long as it likes.
Capture ==
  /\ Cardinality(DOMAIN sent) < MaxFrames
  /\ \A f \in DOMAIN sent : sent[f] # now
  /\ sent' = [f \in DOMAIN sent \cup {Cardinality(DOMAIN sent) + 1} |->
                IF f \in DOMAIN sent THEN sent[f] ELSE now]
  /\ UNCHANGED <<now, end, arrived, next, last, decoded, buckets, interval, queue, origin,
                 skew, sure, decodedBack>>

\* The frames the window releases once f has arrived.
Released(f) ==
  {g \in next .. MaxFrames : next .. g \subseteq arrived \cup {f}}

Final(f) == next - 1 + Cardinality(Released(f))

\* last_pts_us once f is complete, and once each frame released has been decoded.
After(f) ==
  LET after[g \in next - 1 .. Final(f)] ==
        IF g < next THEN Later(last, Unwrap(Wire(sent[f]), last))
        ELSE Later(after[g - 1], Unwrap(Wire(sent[g]), after[g - 1]))
  IN after

\* The pass in which f becomes complete: its time is placed, and told to the
\* delay estimate unless f was recovered; then each frame released is placed
\* again for the decoder (receive_loop_inner).
Arrive(f) ==
  LET abs     == Unwrap(Wire(sent[f]), last)
      after   == After(f)
      Time(g) == Unwrap(Wire(sent[g]), after[g - 1])
      final   == Final(f)
  IN /\ f \in DOMAIN sent \ arrived
     /\ arrived' = arrived \cup {f}
     /\ next' = final + 1
     /\ last' = after[final]
     /\ decoded' = IF final < next THEN decoded ELSE Time(final)
     /\ decodedBack' = (decodedBack \/ \E g \in Released(f) :
                          Time(g) < IF g = next THEN decoded ELSE Time(g - 1))
     /\ IF now - sent[f] <= MaxDelay
        THEN OnFrame(abs)
        ELSE UNCHANGED <<buckets, interval>>
     /\ origin' = IF last' = last THEN origin
                  ELSE IF last' = abs THEN sent[f]
                  ELSE sent[CHOOSE g \in Released(f) : Time(g) = last']
     /\ skew' = abs - sent[f]
     /\ sure' = IF skew \in {None, skew'} THEN sure ELSE 0
     /\ UNCHANGED <<now, end, sent, queue>>

\* Time goes on; no frame takes longer than a resend, and reports are ten a
\* second, many in a unit.
Tick ==
  /\ now < end /\ sent # <<>>
  /\ interval = None
  /\ \A f \in DOMAIN sent \ arrived : now - sent[f] < MaxResend
  /\ now' = now + 1
  /\ sure' = IF sure < Window THEN sure + 1 ELSE sure
  /\ UNCHANGED <<sent, end, arrived, next, last, decoded, buckets, interval, queue, origin, skew, decodedBack>>

Next == Tick \/ Capture \/ TakeReport \/ \E f \in 1 .. MaxFrames : Arrive(f)

Spec == Init /\ [][Next]_vars

-----------------------------------------------------------------------------
(* Properties.                                                             *)

\* A frame is placed differently from the newest one before it only half a
\* period or more after that one, or when it is older than a wrap and the viewer
\* had seen nothing before that wrap: loss, resends and reordering around a wrap
\* never confuse the viewer otherwise (unwrap_pts_ns).
OnlySilenceMisplaces ==
  \A f \in DOMAIN sent :
    f \in arrived' \ arrived /\ last # None =>
      \/ Distance(sent[f], origin) >= Half
      \/ sent[f] < origin /\ last < Period
      \/ skew' = last - origin

\* From the time the baseline has forgotten it, no more queuing is reported than
\* there is (DelayTracker).
QueueTrue ==
  interval # None /\ interval' = None /\ sure >= Window => queue' <= MaxDelay

\* A frame is misplaced in time only by half a period of silence, or by a wrap
\* before anything had arrived, and spoils the queue delay that is reported for
\* no longer than the baseline looks back.
TimesTrue == [][OnlySilenceMisplaces /\ QueueTrue]_vars

\* "the nearest placement is always the right one" (unwrap_pts_ns): the decoder
\* never sees time go backwards.
PlacementRight == ~decodedBack
=============================================================================
