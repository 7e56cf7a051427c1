---------------------------- MODULE StreamRecovery ----------------------------
(***************************************************************************)
(* A frame from the host's sender to the viewer's decoder over a link that *)
(* loses and reorders datagrams: the data sender with its tail probe       *)
(* (renderd-host network/data.rs), the RetransmitCache (retransmit.rs) and *)
(* the control reader that answers Nacks from it (app.rs), and the receive *)
(* window's requests and their limits (renderd-frame receive.rs, in full   *)
(* in ReceiveWindow).  The session's first keyframe, frame 0, is decoded.  *)
(*                                                                         *)
(* The control stream loses nothing; its order is left open.  The network  *)
(* is timely: a request is due again, and a frame given up, only when no   *)
(* datagram of the frame and no request is on its way, which is what       *)
(* RecoveryConfig's times are for.                                         *)
(***************************************************************************)
EXTENDS Integers, Sequences, SequencesExt, FiniteSetsExt

CONSTANTS
  MaxFrames,   \* frames sent before the screen goes still
  Fragments,   \* datagrams of a frame
  Retained,    \* frames the cache holds at most (RETAIN_BYTES)
  MaxRounds,   \* RecoveryConfig::max_nack_rounds
  MaxLosses,   \* times a datagram is lost
  MaxLost      \* losses altogether

\* What the constants must be; the module that chooses them assumes it.
Assumption ==
  /\ {MaxFrames, Fragments, Retained, MaxRounds} \subseteq Nat \ {0}
  /\ {MaxLosses, MaxLost} \subseteq Nat

Frame == 1 .. MaxFrames
Frag == 1 .. Fragments
Datagram == [frame : Frame, frag : Frag]

VARIABLES
  keys,      \* the frames sent that are keyframes
  owed,      \* KeyframeGate::pending
  at,        \* the sender: "waiting", or the burst is "out" and yet to be kept
  sent,      \* the last frame sent
  cache,     \* RetransmitCache::frames, oldest first
  resent,    \* datagrams resent less than min_gap ago
  probe,     \* tail_probe_at is set
  wire,      \* datagrams on their way
  control,   \* requests on their way: Nacks, or a KeyframeRequest
  got,       \* the window's slots: fragments received of each frame
  nextId, needKeyframe,   \* the window
  asked,     \* fragments asked for since the last request was due
  whole,     \* frames asked for as a whole (Slot::asked_whole)
  rounds,    \* Slot::nack_rounds
  shown,     \* the last frame decoded
  losses,    \* environment: how often each datagram was lost,
  lost,      \* and how many were
  evicted    \* history: a frame was asked for after it left the cache

host == <<keys, owed, at, sent, cache, resent, probe>>
viewer == <<got, nextId, needKeyframe, asked, whole, rounds, shown>>
network == <<losses, lost>>
vars == <<host, wire, control, viewer, network, evicted>>

TypeOK ==
  /\ sent \in 0 .. MaxFrames
  /\ keys \subseteq Frame
  /\ {owed, probe, needKeyframe, evicted} \subseteq BOOLEAN
  /\ at \in {"waiting", "out"}
  /\ cache \in Seq(Frame) /\ Len(cache) <= Retained
  /\ resent \subseteq Datagram /\ wire \subseteq Datagram
  /\ control \subseteq [frame : Frame \cup {0}, frags : SUBSET Frag]
  /\ got \in [Frame -> SUBSET Frag] /\ asked \in [Frame -> SUBSET Frag]
  /\ whole \subseteq Frame /\ rounds \in [Frame -> 0 .. MaxRounds]
  /\ nextId \in 1 .. MaxFrames + 1 /\ shown \in 0 .. MaxFrames
  /\ losses \in [Datagram -> 0 .. MaxLosses] /\ lost \in 0 .. MaxLost

Init ==
  /\ keys = {} /\ owed = FALSE
  /\ at = "waiting" /\ sent = 0 /\ cache = <<>> /\ resent = {} /\ probe = FALSE
  /\ wire = {} /\ control = {}
  /\ got = [f \in Frame |-> {}] /\ asked = [f \in Frame |-> {}]
  /\ whole = {} /\ rounds = [f \in Frame |-> 0]
  /\ nextId = 1 /\ needKeyframe = FALSE /\ shown = 0
  /\ losses = [d \in Datagram |-> 0] /\ lost = 0 /\ evicted = FALSE

KeyframeRequest == [frame |-> 0, frags |-> {}]

Of(f) == {[frame |-> f, frag |-> i] : i \in Frag}

-----------------------------------------------------------------------------
(* The host.                                                               *)

\* The next frame, a keyframe if one is owed, goes out in one burst ...
Burst ==
  /\ at = "waiting" /\ sent < MaxFrames
  /\ at' = "out"
  /\ sent' = sent + 1
  /\ keys' = IF owed THEN keys \cup {sent + 1} ELSE keys
  /\ owed' = FALSE
  /\ wire' = wire \cup Of(sent + 1)
  /\ UNCHANGED <<cache, resent, probe, control, viewer, network, evicted>>

\* ... then insert, which lets go of the oldest, over RETAIN_FOR or in excess of
\* RETAIN_BYTES, and the tail probe is set.
Insert ==
  /\ at = "out"
  /\ at' = "waiting"
  /\ \E old \in 0 .. Len(cache) :
       /\ Len(cache) - old < Retained
       /\ cache' = Append(SubSeq(cache, old + 1, Len(cache)), sent)
  /\ probe' = TRUE
  /\ UNCHANGED <<keys, owed, sent, resent, wire, control, viewer, network, evicted>>

MutTailProbe ==
  /\ at = "waiting" /\ probe /\ wire = {}
  /\ probe' = FALSE
  /\ wire' = wire \cup {[frame |-> Last(cache), frag |-> 1]}
  /\ UNCHANGED <<keys, owed, at, sent, cache, resent, control, viewer, network, evicted>>

\* Two round trips without a frame, in which what was sent has arrived or not:
\* the last datagram goes out once more.
TailProbe ==
  /\ at = "waiting" /\ probe /\ wire = {}
  /\ probe' = FALSE
  /\ wire' = wire \cup {[frame |-> Last(cache), frag |-> Fragments]}
  /\ UNCHANGED <<keys, owed, at, sent, cache, resent, control, viewer, network, evicted>>

MutWanted(nack) == {[frame |-> nack.frame, frag |-> i] : i \in nack.frags}

\* The fragments a request names: all of the frame when it names none.
Wanted(nack) ==
  IF nack.frags = {} THEN Of(nack.frame)
  ELSE {[frame |-> nack.frame, frag |-> i] : i \in nack.frags}

\* answer_nack: what take_for_resend finds, and was not just resent.
AnswerNack(nack) ==
  /\ nack.frame # 0
  /\ control' = control \ {nack}
  /\ LET answer == IF nack.frame \in ToSet(cache) THEN Wanted(nack) \ resent ELSE {}
     IN /\ wire' = wire \cup answer
        /\ resent' = resent \cup answer
        /\ evicted' = (evicted \/ (cache # <<>> /\ nack.frame < cache[1]))
  /\ UNCHANGED <<keys, owed, at, sent, cache, probe, viewer, network>>

\* on_keyframe_request
AnswerKeyframe ==
  /\ KeyframeRequest \in control
  /\ control' = control \ {KeyframeRequest}
  /\ owed' = TRUE
  /\ UNCHANGED <<keys, at, sent, cache, resent, probe, wire, viewer, network, evicted>>

-----------------------------------------------------------------------------
(* The network.                                                            *)

Lose(d) ==
  /\ losses[d] < MaxLosses
  /\ lost < MaxLost /\ lost' = lost + 1
  /\ wire' = wire \ {d}
  /\ losses' = [losses EXCEPT ![d] = @ + 1]
  /\ UNCHANGED <<host, control, viewer, evicted>>

-----------------------------------------------------------------------------
(* The viewer's receive window.                                            *)

Complete(g, f) == g[f] = Frag

\* release: frames go to the decoder in order, or from the first keyframe on.
Released(g, next, need) ==
  LET start == IF need THEN {f \in Frame : f >= next /\ f \in keys /\ Complete(g, f)} ELSE {next}
      from == IF start = {} THEN 0 ELSE Min(start)
  IN IF from = 0 THEN next
     ELSE Min({f \in from .. MaxFrames : ~Complete(g, f)} \cup {MaxFrames + 1})

Highest(g) == Max({f \in Frame : g[f] # {}} \cup {0})

\* Fragments of f known to be missing; all of them when nothing of it came.
Missing(g, f) ==
  IF f < Highest(g) THEN Frag \ g[f]
  ELSE IF g[f] = {} THEN {} ELSE (1 .. Max(g[f])) \ g[f]

\* worth_asking and recoverable
Useful(g, next, need, f) ==
  /\ f >= next
  /\ ~\E k \in keys : k > f /\ g[k] # {}
  /\ need => f \in keys \/ g[f] = {}

\* request_missing: what was not asked for yet, and, for the frame whose time it
\* is, what was.
Requests(g, next, need, due) ==
  LET asks(f) == LET again == f = due /\ rounds[f] < MaxRounds IN
        IF ~Useful(g, next, need, f) THEN {}
        ELSE IF g[f] = {} /\ Missing(g, f) # {}
             THEN IF (f \in whole /\ ~again) \/ rounds[f] = MaxRounds THEN {} ELSE {[frame |-> f, frags |-> {}]}
        ELSE LET ask == Missing(g, f) \ (IF again THEN {} ELSE asked[f])
             IN IF ask = {} THEN {} ELSE {[frame |-> f, frags |-> ask]}
  IN UNION {asks(f) : f \in Frame}

\* Sends the requests, and keeps what was asked and how often.
Request(g, next, need, due, more) ==
  LET reqs == Requests(g, next, need, due)
      of(f) == {r \in reqs : r.frame = f}
  IN /\ control' = control \cup reqs \cup more
     /\ asked' = [f \in Frame |-> asked[f] \cup UNION {r.frags : r \in of(f)}]
     /\ whole' = whole \cup {r.frame : r \in {q \in reqs : q.frags = {}}}
     /\ rounds' = [f \in Frame |->
                     IF of(f) # {} /\ (f = due \/ g[f] = {}) /\ rounds[f] < MaxRounds THEN rounds[f] + 1
                     ELSE IF of(f) # {} /\ rounds[f] = 0 THEN 1 ELSE rounds[f]]

Deliver(next) ==
  /\ nextId' = next
  /\ shown' = IF next > nextId THEN next - 1 ELSE shown

\* insert: a datagram that is not stale is kept, and all that follows.
Receive(d) ==
  /\ wire' = wire \ {d}
  /\ LET g == IF d.frame < nextId THEN got ELSE [got EXCEPT ![d.frame] = @ \cup {d.frag}]
         next == Released(g, nextId, needKeyframe)
         need == needKeyframe /\ next = nextId
     IN /\ got' = g /\ Deliver(next) /\ needKeyframe' = need
        /\ Request(g, next, need, 0, {})
  /\ UNCHANGED <<host, network, evicted>>

\* No answer to what was asked about f is on its way any more; the sender is
\* never that long between a burst and keeping it.
Overdue(f) ==
  /\ at = "waiting"
  /\ f >= nextId /\ (asked[f] # {} \/ f \in whole)
  /\ Missing(got, f) # {} /\ Useful(got, nextId, needKeyframe, f)
  /\ \A d \in wire : d.frame # f
  /\ \A r \in control : r.frame # f

\* poll: a request is repeated; by then min_gap is over at the host.
Retry(f) ==
  /\ Overdue(f) /\ rounds[f] < MaxRounds
  /\ Request(got, nextId, needKeyframe, f, {})
  /\ resent' = {d \in resent : d.frame # f}
  /\ UNCHANGED <<keys, owed, at, sent, cache, probe, wire, got, nextId, needKeyframe, shown, network, evicted>>

\* give_up_expired: f and what came before it are abandoned, a keyframe asked for.
GiveUp(f) ==
  /\ Overdue(f) /\ rounds[f] = MaxRounds
  /\ LET next == Released(got, f + 1, TRUE)
         need == next = f + 1
         more == IF needKeyframe THEN {} ELSE {KeyframeRequest}
     IN /\ nextId' = next /\ needKeyframe' = need
        /\ shown' = IF need THEN shown ELSE next - 1
        /\ Request(got, next, need, 0, more)
  /\ UNCHANGED <<host, wire, got, network, evicted>>

-----------------------------------------------------------------------------
Step ==
  \/ Burst \/ Insert \/ TailProbe
  \/ AnswerKeyframe \/ \E nack \in control : AnswerNack(nack)
  \/ \E f \in Frame : Retry(f) \/ GiveUp(f)
  \/ \E d \in wire : Receive(d)

Next == Step \/ \E d \in wire : Lose(d)

Spec == Init /\ [][Next]_vars

-----------------------------------------------------------------------------
(* Properties.                                                             *)

\* The end of the last frame and its probe were both lost: nothing tells the
\* viewer that there is more of it.
Blind == losses[[frame |-> MaxFrames, frag |-> Fragments]] > 1

\* The viewer catches up: once the screen is still its last frame is decoded, or
\* the host knows that a keyframe is needed.
CatchesUp == sent = MaxFrames ~> shown = MaxFrames \/ owed \/ Blind

\* A datagram lost once never costs a keyframe, however datagrams, requests and
\* the sender's own bookkeeping are ordered, if the cache still holds its frame.
LossRecovered == needKeyframe => evicted \/ \E d \in Datagram : losses[d] > 1
=============================================================================
