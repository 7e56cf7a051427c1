--------------------------- MODULE ReceiveWindow ---------------------------
(***************************************************************************)
(* The loss-recovering, decode-ordered frame receiver of the viewer:       *)
(* crates/renderd-frame/src/receive.rs.                                    *)
(*                                                                         *)
(* The window is a pure state machine driven by one task: insert takes in  *)
(* a fragment, poll runs the timers, require_keyframe tells it the decoder *)
(* lost its place, set_rtt updates the timers' base.  Each is one action.  *)
(* An instant is represented by its age: 0 is "now", None is no instant,   *)
(* and Tick ages every instant the window holds.  An age stops at AgeCap,  *)
(* past every interval the code compares an age with, so that a saturated  *)
(* age behaves as any larger one.                                          *)
(*                                                                         *)
(* Payloads and timestamps are left out.  A slot's received fragments are  *)
(* a set, from which the code's counters (received, highest_frag) and its  *)
(* assembled frame (complete) follow.  Frame ids start at 1, as the host   *)
(* numbers them, so 0 stands for the None of next_id and highest_seen: all *)
(* of the code's uses of those two options treat None as 0 would be.       *)
(***************************************************************************)
EXTENDS DecodeFeed, FiniteSets, Functions, FiniteSetsExt

CONSTANTS
  MaxHeldFrames,  \* RecoveryConfig::max_held_frames
  MaxGap,         \* RecoveryConfig::max_gap
  MaxNackRounds,  \* RecoveryConfig::max_nack_rounds
  RetrySlack,     \* RecoveryConfig::retry_slack
  GiveUpSlack,    \* RecoveryConfig::give_up_slack
  KeyframeRetry,  \* RecoveryConfig::keyframe_retry
  MaxRtt,         \* MAX_RTT
  InitialRtt,     \* the 20 ms a new window starts from
  Rtts,           \* round trips the transport may report
  Headers,        \* fragment headers that may arrive
  AgeCap          \* where ages saturate

None == -1

RetryInterval(rtt) ==
  LET r == IF rtt < MaxRtt THEN rtt ELSE MaxRtt IN r + (r \div 2) + RetrySlack

GiveUpAfter(rtt) ==
  LET r == IF rtt < MaxRtt THEN rtt ELSE MaxRtt IN r * 2 + GiveUpSlack

Header == [frame : FrameId, frag : Nat, total : Nat,
           first : BOOLEAN, last : BOOLEAN, key : BOOLEAN]

ASSUME ConfigAssumption ==
  /\ {MaxHeldFrames, MaxNackRounds} \subseteq Nat \ {0}
  /\ {RetrySlack, GiveUpSlack, KeyframeRetry} \subseteq Nat \ {0}
  /\ {MaxGap, MaxRtt, InitialRtt} \subseteq Nat /\ InitialRtt <= MaxRtt
  /\ Rtts \subseteq Nat
  /\ Headers \subseteq Header

\* Saturation loses nothing: every interval an age is compared with is within it.
ASSUME AgeAssumption ==
  /\ AgeCap \in Nat
  /\ AgeCap >= RetryInterval(MaxRtt)
  /\ AgeCap >= GiveUpAfter(MaxRtt)
  /\ AgeCap >= KeyframeRetry

VARIABLE rx       \* the window, with the ReceiveOutput of the latest call

vars == <<rx, handed, ref, top>>

-----------------------------------------------------------------------------
(* A slot: one frame the window knows about.                               *)

\* Slot::unknown: a frame known only because a later one arrived.
UnknownSlot ==
  [total |-> 0, got |-> {}, key |-> FALSE, since |-> None,
   asked |-> {}, askedWhole |-> FALSE, rounds |-> 0, lastNack |-> None]

Sized(s) == s.total > 0

Complete(s) == Sized(s) /\ s.got = 0 .. (s.total - 1)

\* Fragments known to be missing: those below one that arrived, and, once a
\* later frame was seen, all the others too.
Missing(s, tailKnown) ==
  {i \in 0 .. (s.total - 1) \ s.got : tailKnown \/ \E j \in s.got : i < j}

IsMissing(s, tailKnown) == ~Sized(s) \/ Missing(s, tailKnown) # {}

MutMarkAlwaysNow(s) == [s EXCEPT !.since = 0]

\* missing_since.get_or_insert(now)
MarkMissing(s) == [s EXCEPT !.since = IF s.since = None THEN 0 ELSE s.since]

-----------------------------------------------------------------------------
(* Facts about the whole window w.                                         *)

Held(w) == DOMAIN w.slots

TailKnown(w, id) == id < w.highestSeen

CompleteIds(w) == {id \in Held(w) : Complete(w.slots[id])}

CompleteKeyframes(w) == {id \in CompleteIds(w) : w.slots[id].key}

\* A keyframe on its way supersedes every frame before it.
Recoverable(w, id) ==
  /\ id \notin CompleteIds(w)
  /\ \A later \in Held(w) : later > id => ~w.slots[later].key

\* With the chain broken only a frame that is, or might be, a keyframe helps.
WorthAsking(w, s) == ~w.needKeyframe \/ s.key \/ ~Sized(s)

KeyframeInFlight(w) == \E id \in Held(w) : w.slots[id].key

KeyframeRetryDue(w) ==
  /\ w.needKeyframe
  /\ Held(w) # {}
  /\ ~KeyframeInFlight(w)
  /\ w.keyframeAsked >= KeyframeRetry

Expired(w) ==
  {id \in Held(w) : /\ Recoverable(w, id)
                    /\ IsMissing(w.slots[id], TailKnown(w, id))
                    /\ w.slots[id].since >= GiveUpAfter(w.rtt)}

-----------------------------------------------------------------------------
(* The private steps the calls are made of, as functions of the window.    *)

\* ReceiveOutput::clear
Cleared(w) == [w EXCEPT !.frames = << >>, !.nacks = {}, !.lost = {},
                        !.askKeyframe = FALSE]

DropBelow(w, id) == [w EXCEPT !.slots = Restrict(@, {i \in Held(w) : i >= id})]

\* DropBelow where the incomplete frames dropped are counted as lost.
Lose(w, id) ==
  [DropBelow(w, id) EXCEPT
     !.lost = @ \cup {i \in Held(w) \ CompleteIds(w) : i < id}]

MutBreakChainNoFlag(w, floor) ==
  [w EXCEPT !.nextId = IF floor > @ THEN floor ELSE @,
            !.askKeyframe = TRUE, !.keyframeAsked = 0]

MutBreakChainNoFloor(w, floor) ==
  [w EXCEPT !.askKeyframe = TRUE, !.keyframeAsked = 0, !.needKeyframe = TRUE]

BreakChain(w, floor) ==
  LET ask == ~w.needKeyframe \/ w.keyframeAsked = None IN
  [w EXCEPT !.nextId = IF floor > @ THEN floor ELSE @,
            !.askKeyframe = @ \/ ask,
            !.keyframeAsked = IF ask THEN 0 ELSE @,
            !.needKeyframe = TRUE]

\* Every slot held now has its tail accounted for.
TailsMissing(w) ==
  [w EXCEPT !.slots = [id \in Held(w) |->
     IF IsMissing(@[id], TRUE) THEN MarkMissing(@[id]) ELSE @[id]]]

\* Frames a jump to frame proves missing get a slot of their own.
FillGap(w, highest, frame) ==
  LET new == {id \in (highest + 1) .. (frame - 1) : id >= w.nextId} IN
  [w EXCEPT !.slots = [id \in Held(w) \cup new |->
     IF id \notin new THEN @[id]
     ELSE MarkMissing(IF id \in Held(w) THEN @[id] ELSE UnknownSlot)]]

NoteNewFrame(w, h) ==
  LET stamped == [w EXCEPT !.keyframeAsked = IF @ = None THEN 0 ELSE @]
      noted   == [stamped EXCEPT !.highestSeen = h.frame]
      tails   == TailsMissing(noted)
      gap     == h.frame - w.highestSeen - 1
  IN  CASE w.highestSeen = 0                  -> noted
        [] w.highestSeen # 0 /\ gap < 0       -> stamped
        [] w.highestSeen # 0 /\ gap = 0       -> tails
        [] w.highestSeen # 0 /\ gap > MaxGap  ->
             IF h.key THEN DropBelow(tails, h.frame)
             ELSE BreakChain(Lose(tails, h.frame), h.frame)
        [] OTHER -> FillGap(tails, w.highestSeen, h.frame)

\* The slot fragment h belongs to, sized by h if it was not sized yet.
SlotFor(w, h) ==
  LET s == IF h.frame \in Held(w) THEN w.slots[h.frame] ELSE UnknownSlot IN
  IF Sized(s) THEN s ELSE [s EXCEPT !.total = h.total]

Store(w, h) ==
  LET s    == SlotFor(w, h)
      got  == s.got \cup {h.frag}
      full == got = 0 .. (s.total - 1)
      new  == [s EXCEPT !.got = got, !.key = @ \/ h.key,
                        !.since = IF full THEN None ELSE @]
  IN  [w EXCEPT !.slots = [id \in Held(w) \cup {h.frame} |->
                             IF id = h.frame THEN new ELSE @[id]]]

FrameOf(w, id) == [id |-> id, key |-> w.slots[id].key]

\* The first frame from next_id on that is not complete.
RunEnd(w) ==
  Min({id \in w.nextId .. (w.highestSeen + 1) : id \notin CompleteIds(w)})

\* While the chain is whole, hand out the complete frames from next_id on.
ReleaseRun(w) ==
  IF w.needKeyframe \/ w.nextId \notin CompleteIds(w) THEN w
  ELSE LET end == RunEnd(w) IN
       [w EXCEPT
          !.frames = @ \o [i \in 1 .. (end - w.nextId) |->
                             FrameOf(w, w.nextId + i - 1)],
          !.slots = Restrict(@, Held(w) \ (w.nextId .. (end - 1))),
          !.nextId = end]

\* The oldest complete keyframe is handed out, superseding what is before it.
ReleaseKeyframe(w) ==
  IF CompleteKeyframes(w) = {} THEN w
  ELSE LET id == Min(CompleteKeyframes(w)) IN
       [DropBelow(w, id + 1) EXCEPT
          !.frames = Append(@, FrameOf(w, id)),
          !.nextId = id + 1,
          !.needKeyframe = FALSE,
          !.keyframeAsked = None]

\* The code loops until neither step applies.  Between calls no complete
\* keyframe is held (NoCompleteKeyframeHeld), so a call meets at most the one
\* it just completed, and one turn of the loop on each side of it is all.
Release(w) == ReleaseRun(ReleaseKeyframe(ReleaseRun(w)))

GiveUpThrough(w, id) == Release(BreakChain(Lose(w, id + 1), id + 1))

GiveUpExpired(w) ==
  IF Expired(w) = {} THEN w ELSE GiveUpThrough(w, Max(Expired(w)))

MutRetryUncapped(w, s) == s.lastNack >= RetryInterval(w.rtt)

\* An unanswered request is due again, and there are rounds left for it.
RetryAllowed(w, s) ==
  s.lastNack >= RetryInterval(w.rtt) /\ s.rounds < MaxNackRounds

\* What request_missing asks of slot s of frame id: whether it asks at all, for
\* which fragments (none: the whole frame), and the slot afterwards.
Ask(w, id) ==
  LET s        == w.slots[id]
      missing  == Missing(s, TailKnown(w, id))
      retry    == RetryAllowed(w, s)
      whole    == (~s.askedWhole \/ retry) /\ s.rounds < MaxNackRounds
      frags    == IF retry THEN missing ELSE missing \ s.asked
      marked   == MarkMissing(s)
  IN  CASE ~Sized(s) ->
             [send |-> whole, frags |-> {},
              slot |-> IF whole
                       THEN [marked EXCEPT !.askedWhole = TRUE,
                               !.rounds = @ + 1, !.lastNack = 0]
                       ELSE s]
        [] Sized(s) /\ missing = {} ->
             [send |-> FALSE, frags |-> {}, slot |-> [s EXCEPT !.since = None]]
        [] OTHER ->
             [send |-> frags # {}, frags |-> frags,
              slot |-> IF frags = {} THEN marked
                       ELSE [marked EXCEPT
                               !.rounds = IF retry \/ @ = 0 THEN @ + 1 ELSE @,
                               !.asked = @ \cup frags,
                               !.lastNack = 0]]

RequestMissing(w) ==
  LET eligible == {id \in Held(w) : /\ Recoverable(w, id)
                                    /\ WorthAsking(w, w.slots[id])}
      asking   == {id \in eligible : Ask(w, id).send}
  IN  [w EXCEPT
         !.slots = [id \in Held(w) |-> IF id \in eligible
                                       THEN Ask(w, id).slot ELSE @[id]],
         !.nacks = @ \cup {[frame |-> id, frags |-> Ask(w, id).frags] :
                             id \in asking}]

MutEnforceLate(w) ==
  IF Cardinality(Held(w)) <= MaxHeldFrames + 1 THEN w
  ELSE GiveUpThrough(w, Min(Held(w)))

\* The code gives up the oldest frame until the window fits.  After the first
\* the chain is broken and no complete keyframe is held, so the rest of the
\* loop only drops: together they give up through the newest frame in excess.
EnforceCapacity(w) ==
  IF Cardinality(Held(w)) <= MaxHeldFrames THEN w
  ELSE LET cut == Min({id \in 0 .. w.highestSeen :
             Cardinality({i \in Held(w) : i > id}) <= MaxHeldFrames})
       IN  GiveUpThrough(w, cut)

MutRepeatSilently(w) ==
  IF KeyframeRetryDue(w) THEN [w EXCEPT !.keyframeAsked = 0] ELSE w

RepeatKeyframeRequest(w) ==
  IF KeyframeRetryDue(w)
  THEN [w EXCEPT !.keyframeAsked = 0, !.askKeyframe = TRUE]
  ELSE w

-----------------------------------------------------------------------------
(* The calls.                                                              *)

\* FragmentHeader::validate
Valid(h) ==
  /\ h.total > 0 /\ h.frag < h.total
  /\ h.first = (h.frag = 0)
  /\ h.last = (h.frag = h.total - 1)

Accepted(w, h) == Valid(h) /\ h.frame >= w.nextId

\* A fragment already held, or one that disagrees on its frame's size.
Redundant(w, h) ==
  LET s == SlotFor(w, h) IN s.total # h.total \/ h.frag \in s.got

MutInsertedAsksFirst(w, h) ==
  EnforceCapacity(Release(RequestMissing(Store(NoteNewFrame(w, h), h))))

Inserted(w, h) ==
  EnforceCapacity(RequestMissing(Release(Store(NoteNewFrame(w, h), h))))

Polled(w) == RepeatKeyframeRequest(RequestMissing(GiveUpExpired(w)))

MutRequiringNoFlag(w) ==
  [w EXCEPT !.slots = Restrict(@, {id \in Held(w) : w.slots[id].key}),
            !.keyframeAsked = 0]

\* require_keyframe
Requiring(w) ==
  LET kept  == {id \in Held(w) : id > w.highestSeen \/ w.slots[id].key}
      floor == IF kept = {} THEN w.highestSeen + 1 ELSE Min(kept)
  IN  IF w.highestSeen = 0
      THEN [w EXCEPT !.needKeyframe = TRUE, !.keyframeAsked = 0]
      ELSE [w EXCEPT !.slots = Restrict(@, kept),
                     !.needKeyframe = TRUE, !.keyframeAsked = 0,
                     !.nextId = IF floor > @ THEN floor ELSE @]

Init ==
  /\ rx = [slots |-> [id \in {} |-> UnknownSlot], nextId |-> 0,
           needKeyframe |-> TRUE, highestSeen |-> 0, keyframeAsked |-> None,
           rtt |-> InitialRtt,
           frames |-> << >>, nacks |-> {}, lost |-> {}, askKeyframe |-> FALSE]
  /\ FeedInit

\* The caller decodes what a call handed out before it makes the next one.
HandOut(w) ==
  /\ rx' = w
  /\ handed' = w.frames
  /\ ref' = LastId(ref, w.frames)
  /\ top' = LastId(top, w.frames)

\* insert, for a fragment that is stored.
InsertFresh ==
  \E h \in Headers :
    /\ Accepted(rx, h)
    /\ ~Redundant(NoteNewFrame(Cleared(rx), h), h)
    /\ HandOut(Inserted(Cleared(rx), h))

\* insert, returning early: only note_new_frame has had an effect.  An invalid
\* or stale header returns before that and changes nothing.
InsertRedundant ==
  \E h \in Headers :
    /\ Accepted(rx, h)
    /\ Redundant(NoteNewFrame(Cleared(rx), h), h)
    /\ HandOut(NoteNewFrame(Cleared(rx), h))

Poll == HandOut(Polled(Cleared(rx)))

SetRtt ==
  \E r \in Rtts :
    /\ rx' = [rx EXCEPT !.rtt = IF r < MaxRtt THEN r ELSE MaxRtt]
    /\ UNCHANGED feedVars

\* The decoder fell behind, or failed on a frame it was handed.
RequireKeyframe ==
  /\ rx' = Requiring(Cleared(rx))
  /\ Restart

Older(age) == IF age = None \/ age = AgeCap THEN age ELSE age + 1

Aged(s) == [s EXCEPT !.since = Older(@), !.lastNack = Older(@)]

\* Time passes: every instant the window holds gets older.
Tick ==
  /\ rx' = [rx EXCEPT !.keyframeAsked = Older(@),
                      !.slots = [id \in Held(rx) |-> Aged(@[id])]]
  /\ rx' # rx
  /\ UNCHANGED feedVars

Next ==
  \/ InsertFresh
  \/ InsertRedundant
  \/ Poll
  \/ SetRtt
  \/ RequireKeyframe
  \/ Tick

Spec == Init /\ [][Next]_vars

-----------------------------------------------------------------------------
(* Properties.                                                             *)

Age == None .. AgeCap

Slot == [total : Nat, got : SUBSET Nat, key : BOOLEAN, since : Age,
         asked : SUBSET Nat, askedWhole : BOOLEAN, rounds : 0 .. MaxNackRounds,
         lastNack : Age]

IsSlot(s) == s \in Slot /\ s.got \subseteq 0 .. (s.total - 1)

IsWindow(w) ==
  /\ w = [slots |-> w.slots, nextId |-> w.nextId,
          needKeyframe |-> w.needKeyframe, highestSeen |-> w.highestSeen,
          keyframeAsked |-> w.keyframeAsked, rtt |-> w.rtt,
          frames |-> w.frames, nacks |-> w.nacks, lost |-> w.lost,
          askKeyframe |-> w.askKeyframe]
  /\ w.slots = [id \in Held(w) |-> w.slots[id]]
  /\ Held(w) \subseteq FrameId
  /\ \A id \in Held(w) : IsSlot(w.slots[id])
  /\ w.nextId \in Nat
  /\ w.needKeyframe \in BOOLEAN
  /\ w.highestSeen \in Nat
  /\ w.keyframeAsked \in Age
  /\ w.rtt \in 0 .. MaxRtt
  /\ w.frames \in Seq(Frame)
  /\ w.nacks \subseteq [frame : FrameId, frags : SUBSET Nat]
  /\ w.lost \subseteq FrameId
  /\ w.askKeyframe \in BOOLEAN

\* The window, its output and the decoder's position have the types of the
\* structs; a slot holds only fragments within its size, and no frame is asked
\* for in more rounds than max_nack_rounds.
TypeOK ==
  /\ IsWindow(rx)
  /\ handed \in Seq(Frame)
  /\ ref \in FrameId \cup {NoFrame}
  /\ top \in Nat

\* The window feeds the decoder as DecodeFeed promises: whatever the order,
\* loss and duplication of fragments, give-ups, overflows and restarts, insert
\* and poll never hand out a frame whose reference the decoder does not hold,
\* and never one at or below a frame already handed out.
FeedsDecodably == FeedSpec

\* Every frame held is still wanted and was really seen, and every frame handed
\* out is behind next_id: release, give_up_through and require_keyframe leave no
\* slot below next_id, none above highest_seen, and nothing to hand out twice.
HeldWithinWindow ==
  /\ \A id \in Held(rx) : rx.nextId <= id /\ id <= rx.highestSeen
  /\ top < rx.nextId \/ top = 0

\* While the window does not wait for a keyframe, the decoder's reference is the
\* frame just before next_id: the chain is whole in fact, not only by the flag.
ChainWhole == ~rx.needKeyframe => rx.nextId > 1 /\ ref = rx.nextId - 1

\* After every call the window holds at most max_held_frames frames, however
\* many slots one jump in frame_id added.
WithinCapacity == Cardinality(Held(rx)) <= MaxHeldFrames

\* Every hole worth filling in a frame the window holds has been asked for and
\* has a give-up deadline running: no incomplete frame is waited for in silence.
KnownHolesAsked ==
  \A id \in Held(rx) :
    LET s == rx.slots[id] IN
    /\ Recoverable(rx, id)
    /\ WorthAsking(rx, s)
    /\ IsMissing(s, TailKnown(rx, id))
    => /\ s.since # None
       /\ IF Sized(s) THEN Missing(s, TailKnown(rx, id)) \subseteq s.asked
                      ELSE s.askedWhole

\* next_deadline: what poll would have to do now.
DeadlineDue(w) ==
  \/ \E id \in Held(w) :
       LET s == w.slots[id] IN
       /\ s.since # None
       /\ Recoverable(w, id)
       /\ IsMissing(s, TailKnown(w, id))
       /\ \/ s.since >= GiveUpAfter(w.rtt)
          \/ /\ WorthAsking(w, s)
             /\ s.rounds < MaxNackRounds
             /\ s.lastNack >= RetryInterval(w.rtt)
  \/ KeyframeRetryDue(w)

\* A frame counted as lost is behind next_id from then on, and next_id never
\* moves back: no frame is both lost and handed out, or counted twice.
LostForGood ==
  [][/\ rx'.nextId >= rx.nextId
     /\ rx'.lost # rx.lost =>
          \A id \in rx'.lost : /\ rx.nextId <= id /\ id < rx'.nextId
                               /\ \A i \in DOMAIN handed' : handed'[i].id # id
    ]_vars

\* The moment any fragment of a later frame has arrived, a missing frame the
\* decoder still needs is listed for a resend (receive.rs:17-19), which takes a
\* slot for it: while the chain is whole, no frame up to the newest seen is
\* unknown to the window, unless a keyframe on its way supersedes it.
EveryGapNoticed ==
  ~rx.needKeyframe =>
    \A id \in rx.nextId .. rx.highestSeen :
      id \in Held(rx) \/ \E k \in Held(rx) : k > id /\ rx.slots[k].key

\* Time goes on, and the receive loop, which sleeps until next_deadline, polls
\* once a deadline is due: weak fairness of Poll with its ENABLED spelled out.
FairSpec ==
  /\ Spec
  /\ WF_vars(Tick)
  /\ []<>~DeadlineDue(rx) \/ []<><<Poll>>_vars

\* A hole worth filling is eventually filled, superseded or given up.
HolesResolved ==
  \A id \in {h.frame : h \in Headers} :
    LET Hole == /\ id \in Held(rx)
                /\ Recoverable(rx, id)
                /\ WorthAsking(rx, rx.slots[id])
                /\ IsMissing(rx.slots[id], TailKnown(rx, id))
    IN  Hole ~> ~Hole

\* A window that holds frames it cannot use, with no keyframe on its way, asks
\* for one, again and again, until that changes.
KeyframeAskedFor ==
  LET Starved == rx.needKeyframe /\ Held(rx) # {} /\ ~KeyframeInFlight(rx)
  IN  Starved ~> (~Starved \/ rx.askKeyframe)
=============================================================================
