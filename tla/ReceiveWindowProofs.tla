------------------------ MODULE ReceiveWindowProofs ------------------------
(***************************************************************************)
(* Proofs about ReceiveWindow, for every configuration, every stream and   *)
(* every order, loss and duplication of its fragments.                     *)
(*                                                                         *)
(* A call is a pipeline of private steps, so each step has one lemma: it   *)
(* preserves Sound, the invariant extended to the middle of a call.        *)
(***************************************************************************)
EXTENDS ReceiveWindow, FiniteSetTheorems, WellFoundedInduction,
        SequenceTheorems, TLAPS

\* What holds of a window in the middle of a call that began with the decoder
\* at reference r and newest frame t: the frames collected so far decode, and
\* the window's own idea of the chain agrees with where they leave the decoder.
Sound(w, r, t) ==
  /\ IsWindow(w)
  /\ \A id \in Held(w) : w.nextId <= id /\ id <= w.highestSeen
  /\ Decodable(r, w.frames)
  /\ Ascending(t, w.frames)
  /\ LastId(t, w.frames) < w.nextId \/ LastId(t, w.frames) = 0
  /\ ~w.needKeyframe => w.nextId > 1 /\ LastId(r, w.frames) = w.nextId - 1

\* The decoder's position, as the caller keeps it.
IsPosition(r, t) == r \in FrameId \cup {NoFrame} /\ t \in Nat

-----------------------------------------------------------------------------
(* Sets of naturals and sequences of frames.                               *)

LEMMA MinNat ==
  ASSUME NEW S \in SUBSET Nat, S # {}
  PROVE  Min(S) \in S /\ \A n \in S : Min(S) <= n
<1>1. IsWellFoundedOn(OpToRel(<, Nat), Nat)
  BY NatLessThanWellFounded
<1>2. PICK m \in S : \A y \in S : ~(<<y, m>> \in OpToRel(<, Nat))
  BY <1>1, WFMin
<1>3. \A y \in S : ~(y < m)
  BY <1>2 DEF OpToRel
<1>4. \A y \in S : m <= y
  BY <1>3
<1> QED BY <1>4 DEF Min

LEMMA MaxNat ==
  ASSUME NEW b \in Nat, NEW S \in SUBSET (0 .. b), S # {}
  PROVE  Max(S) \in S /\ Max(S) \in Nat /\ \A n \in S : n <= Max(S)
<1> DEFINE T == {b - n : n \in S}
<1>1. T \in SUBSET Nat /\ T # {}
  <2>1. \A n \in S : n \in Nat /\ b - n \in Nat
    OBVIOUS
  <2> QED BY <2>1
<1>2. Min(T) \in T /\ \A k \in T : Min(T) <= k
  BY <1>1, MinNat
<1>3. PICK m \in S : Min(T) = b - m
  BY <1>2
<1>4. \A n \in S : m >= n
  BY <1>2, <1>3
<1>5. Max(S) \in S /\ \A n \in S : Max(S) >= n
  BY <1>4 DEF Max
<1>6. S \subseteq Nat
  OBVIOUS
<1>7. \A n \in S : n <= Max(S)
  BY <1>5, <1>6
<1> QED BY <1>5, <1>6, <1>7

LEMMA Enumerated ==
  ASSUME NEW k \in Nat, NEW gs \in [1 .. k -> Frame]
  PROVE  gs \in Seq(Frame) /\ Len(gs) = k /\ DOMAIN gs = 1 .. k
OBVIOUS

LEMMA Concatenated ==
  ASSUME NEW r \in Int, NEW fs \in Seq(Frame), NEW gs \in Seq(Frame)
  PROVE  /\ LastId(r, fs) \in Int
         /\ fs \o gs \in Seq(Frame)
         /\ LastId(r, fs \o gs) = LastId(LastId(r, fs), gs)
         /\ Decodable(r, fs) /\ Decodable(LastId(r, fs), gs)
              => Decodable(r, fs \o gs)
         /\ Ascending(r, fs) /\ Ascending(LastId(r, fs), gs)
              => Ascending(r, fs \o gs)
<1>1. LastId(r, fs) \in Int
  <2>1. CASE fs = << >>
    BY <2>1 DEF LastId
  <2>2. CASE fs # << >>
    <3>1. Len(fs) \in 1 .. Len(fs)
      BY <2>2
    <3>2. fs[Len(fs)] \in Frame
      BY <3>1
    <3> QED BY <2>2, <3>2 DEF LastId, Frame, FrameId
  <2> QED BY <2>1, <2>2
<1>2. fs \o gs \in Seq(Frame)
  OBVIOUS
<1>3. LastId(r, fs \o gs) = LastId(LastId(r, fs), gs)
  <2>1. CASE gs = << >>
    BY <2>1 DEF LastId
  <2>2. CASE gs # << >>
    <3>1. /\ Len(gs) > 0 /\ fs \o gs # << >>
          /\ (fs \o gs)[Len(fs \o gs)] = gs[Len(gs)]
      BY <2>2
    <3> QED BY <2>2, <3>1 DEF LastId
  <2> QED BY <2>1, <2>2
<1>4. ASSUME NEW i \in DOMAIN (fs \o gs)
      PROVE  \/ /\ i \in DOMAIN fs /\ (fs \o gs)[i] = fs[i]
                /\ Before(r, fs \o gs, i) = Before(r, fs, i)
             \/ \E j \in DOMAIN gs :
                  /\ (fs \o gs)[i] = gs[j]
                  /\ Before(r, fs \o gs, i) = Before(LastId(r, fs), gs, j)
  <2>1. CASE i <= Len(fs)
    BY <2>1 DEF Before
  <2>2. CASE i > Len(fs)
    <3> DEFINE j == i - Len(fs)
    <3>1. j \in DOMAIN gs /\ (fs \o gs)[i] = gs[j]
      BY <2>2
    <3>2. CASE j = 1
      <4>1. CASE fs = << >>
        BY <2>2, <3>1, <3>2, <4>1 DEF Before, LastId
      <4>2. CASE fs # << >>
        <5>1. i # 1 /\ i - 1 = Len(fs) /\ (fs \o gs)[i - 1] = fs[Len(fs)]
          BY <2>2, <3>2, <4>2
        <5> QED BY <3>1, <3>2, <4>2, <5>1 DEF Before, LastId
      <4> QED BY <4>1, <4>2
    <3>3. CASE j # 1
      <4>1. i # 1 /\ i - 1 \in 1 .. Len(fs \o gs) /\ i - 1 > Len(fs)
        BY <2>2, <3>3
      <4>2. (fs \o gs)[i - 1] = gs[j - 1]
        BY <4>1
      <4> QED BY <3>1, <3>3, <4>1, <4>2 DEF Before
    <3> QED BY <3>1, <3>2, <3>3
  <2> QED BY <2>1, <2>2
<1>5. Decodable(r, fs) /\ Decodable(LastId(r, fs), gs) => Decodable(r, fs \o gs)
  BY <1>4 DEF Decodable
<1>6. Ascending(r, fs) /\ Ascending(LastId(r, fs), gs) => Ascending(r, fs \o gs)
  BY <1>4 DEF Ascending
<1> QED BY <1>1, <1>2, <1>3, <1>5, <1>6

-----------------------------------------------------------------------------
(* The private steps.                                                      *)

LEMMA UnknownIsSlot == IsSlot(UnknownSlot)
BY ConfigAssumption, AgeAssumption DEF IsSlot, UnknownSlot, Slot, Age, None

LEMMA MarkedIsSlot ==
  ASSUME NEW s, IsSlot(s)
  PROVE  IsSlot(MarkMissing(s))
BY AgeAssumption DEF IsSlot, Slot, MarkMissing, Age, None

\* A step that only rewrites slots, within the window, and timers.
LEMMA SlotsRewritten ==
  ASSUME NEW w, NEW v, NEW r, NEW t, Sound(w, r, t), IsWindow(v),
         v.frames = w.frames, v.nextId = w.nextId,
         v.needKeyframe = w.needKeyframe,
         \A id \in Held(v) : w.nextId <= id /\ id <= v.highestSeen
  PROVE  Sound(v, r, t)
BY DEF Sound

LEMMA DropBelowSound ==
  ASSUME NEW w, IsWindow(w), NEW id \in Nat
  PROVE  /\ IsWindow(DropBelow(w, id))
         /\ Held(DropBelow(w, id)) = {i \in Held(w) : i >= id}
         /\ \A i \in Held(DropBelow(w, id)) :
              DropBelow(w, id).slots[i] = w.slots[i]
         /\ DropBelow(w, id).nextId = w.nextId
         /\ DropBelow(w, id).needKeyframe = w.needKeyframe
         /\ DropBelow(w, id).highestSeen = w.highestSeen
         /\ DropBelow(w, id).frames = w.frames
BY DEF IsWindow, DropBelow, Held, Restrict

LEMMA LoseSound ==
  ASSUME NEW w, IsWindow(w), NEW id \in Nat
  PROVE  /\ IsWindow(Lose(w, id))
         /\ Held(Lose(w, id)) = {i \in Held(w) : i >= id}
         /\ Lose(w, id).nextId = w.nextId
         /\ Lose(w, id).needKeyframe = w.needKeyframe
         /\ Lose(w, id).highestSeen = w.highestSeen
         /\ Lose(w, id).frames = w.frames
<1> DEFINE d == DropBelow(w, id)
<1>1. IsWindow(d)
  BY DropBelowSound
<1>2. {i \in Held(w) \ CompleteIds(w) : i < id} \subseteq FrameId
  BY DEF IsWindow
<1> HIDE DEF d
<1>3. Lose(w, id) = [d EXCEPT !.lost = @ \cup {i \in Held(w) \ CompleteIds(w) : i < id}]
  BY DEF Lose, d
<1>4. /\ IsWindow(Lose(w, id))
      /\ Lose(w, id).slots = d.slots
      /\ Lose(w, id).nextId = d.nextId
      /\ Lose(w, id).needKeyframe = d.needKeyframe
      /\ Lose(w, id).highestSeen = d.highestSeen
      /\ Lose(w, id).frames = d.frames
  BY <1>1, <1>2, <1>3 DEF IsWindow, Held
<1> QED BY <1>4, DropBelowSound DEF d, Held

LEMMA BreakChainSound ==
  ASSUME NEW w, IsWindow(w), NEW floor \in Nat
  PROVE  /\ IsWindow(BreakChain(w, floor))
         /\ BreakChain(w, floor).slots = w.slots
         /\ BreakChain(w, floor).nextId = IF floor > w.nextId THEN floor
                                          ELSE w.nextId
         /\ BreakChain(w, floor).needKeyframe = TRUE
         /\ BreakChain(w, floor).highestSeen = w.highestSeen
         /\ BreakChain(w, floor).frames = w.frames
<1> DEFINE ask == ~w.needKeyframe \/ w.keyframeAsked = None
           n == IF floor > w.nextId THEN floor ELSE w.nextId
           a == w.askKeyframe \/ ask
           k == IF ask THEN 0 ELSE w.keyframeAsked
<1>1. BreakChain(w, floor) =
        [w EXCEPT !.nextId = n, !.askKeyframe = a, !.keyframeAsked = k,
                  !.needKeyframe = TRUE]
  BY DEF BreakChain
<1>2. n \in Nat /\ k \in Age
  BY AgeAssumption DEF IsWindow, Age, None
<1>3. a \in BOOLEAN
  OBVIOUS
<1> HIDE DEF ask, n, a, k
<1>4. /\ IsWindow(BreakChain(w, floor))
      /\ BreakChain(w, floor).slots = w.slots
      /\ BreakChain(w, floor).nextId = n
      /\ BreakChain(w, floor).needKeyframe = TRUE
      /\ BreakChain(w, floor).highestSeen = w.highestSeen
      /\ BreakChain(w, floor).frames = w.frames
  BY <1>1, <1>2, <1>3 DEF IsWindow, Held
<1> QED BY <1>4 DEF n

\* Giving frames up below a floor leaves the window sound: what is held is
\* above the floor, and nothing but a keyframe can follow.
LEMMA LoseAndBreakSound ==
  ASSUME NEW w, NEW r, NEW t, IsPosition(r, t), Sound(w, r, t), NEW id \in Nat
  PROVE  /\ Sound(BreakChain(Lose(w, id), id), r, t)
         /\ BreakChain(Lose(w, id), id).nextId = IF id > w.nextId THEN id
                                                 ELSE w.nextId
         /\ BreakChain(Lose(w, id), id).highestSeen = w.highestSeen
<1>1. IsWindow(w) /\ IsWindow(Lose(w, id))
  BY LoseSound DEF Sound
<1> DEFINE l == Lose(w, id)
           b == BreakChain(l, id)
<1>2. /\ Held(l) = {i \in Held(w) : i >= id}
      /\ l.nextId = w.nextId
      /\ l.highestSeen = w.highestSeen
      /\ l.frames = w.frames
  BY <1>1, LoseSound
<1>3. /\ IsWindow(b) /\ Held(b) = Held(l)
      /\ b.nextId = IF id > l.nextId THEN id ELSE l.nextId
      /\ b.needKeyframe = TRUE
      /\ b.highestSeen = l.highestSeen
      /\ b.frames = l.frames
  BY <1>1, BreakChainSound DEF Held
<1> HIDE DEF l, b
<1>4. LastId(t, w.frames) \in Int
  BY <1>1, Concatenated DEF IsWindow, IsPosition
<1>5. w.nextId \in Nat /\ Held(w) \subseteq FrameId
  BY <1>1 DEF IsWindow
<1>6. Sound(b, r, t)
  BY <1>2, <1>3, <1>4, <1>5 DEF Sound, FrameId
<1> QED BY <1>2, <1>3, <1>6 DEF l, b

LEMMA TailsMissingSound ==
  ASSUME NEW w, IsWindow(w)
  PROVE  /\ IsWindow(TailsMissing(w))
         /\ Held(TailsMissing(w)) = Held(w)
         /\ TailsMissing(w).nextId = w.nextId
         /\ TailsMissing(w).needKeyframe = w.needKeyframe
         /\ TailsMissing(w).highestSeen = w.highestSeen
         /\ TailsMissing(w).frames = w.frames
<1> DEFINE m == [id \in Held(w) |-> IF IsMissing(w.slots[id], TRUE)
                                    THEN MarkMissing(w.slots[id])
                                    ELSE w.slots[id]]
<1>1. TailsMissing(w) = [w EXCEPT !.slots = m]
  BY DEF TailsMissing
<1>2. \A id \in Held(w) : IsSlot(m[id])
  BY MarkedIsSlot DEF IsWindow
<1>3. DOMAIN m = Held(w) /\ m = [id \in DOMAIN m |-> m[id]]
  OBVIOUS
<1> HIDE DEF m
<1> QED BY <1>1, <1>2, <1>3 DEF IsWindow, Held

LEMMA FillGapSound ==
  ASSUME NEW w, IsWindow(w), NEW highest \in Nat, NEW frame \in Nat
  PROVE  /\ IsWindow(FillGap(w, highest, frame))
         /\ \A id \in Held(FillGap(w, highest, frame)) :
              \/ id \in Held(w)
              \/ id > highest /\ id < frame /\ id >= w.nextId
         /\ FillGap(w, highest, frame).nextId = w.nextId
         /\ FillGap(w, highest, frame).needKeyframe = w.needKeyframe
         /\ FillGap(w, highest, frame).highestSeen = w.highestSeen
         /\ FillGap(w, highest, frame).frames = w.frames
<1> DEFINE new == {id \in (highest + 1) .. (frame - 1) : id >= w.nextId}
           old(id) == IF id \in Held(w) THEN w.slots[id] ELSE UnknownSlot
           m == [id \in Held(w) \cup new |->
                   IF id \notin new THEN w.slots[id] ELSE MarkMissing(old(id))]
<1>1. FillGap(w, highest, frame) = [w EXCEPT !.slots = m]
  BY DEF FillGap
<1>2. \A id \in Held(w) \cup new : IsSlot(m[id])
  BY MarkedIsSlot, UnknownIsSlot DEF IsWindow
<1>3. DOMAIN m = Held(w) \cup new /\ m = [id \in DOMAIN m |-> m[id]]
  OBVIOUS
<1>4. new \subseteq FrameId
  BY DEF FrameId
<1> HIDE DEF m, new
<1>5. /\ IsWindow(FillGap(w, highest, frame))
      /\ Held(FillGap(w, highest, frame)) = Held(w) \cup new
      /\ FillGap(w, highest, frame).nextId = w.nextId
      /\ FillGap(w, highest, frame).needKeyframe = w.needKeyframe
      /\ FillGap(w, highest, frame).highestSeen = w.highestSeen
      /\ FillGap(w, highest, frame).frames = w.frames
  BY <1>1, <1>2, <1>3, <1>4 DEF IsWindow, Held
<1> QED BY <1>5 DEF new

LEMMA NoteNewFrameSound ==
  ASSUME NEW w, NEW r, NEW t, IsPosition(r, t), Sound(w, r, t),
         NEW h \in Headers, h.frame >= w.nextId
  PROVE  /\ Sound(NoteNewFrame(w, h), r, t)
         /\ NoteNewFrame(w, h).nextId <= h.frame
         /\ h.frame <= NoteNewFrame(w, h).highestSeen
<1> DEFINE a == IF w.keyframeAsked = None THEN 0 ELSE w.keyframeAsked
           stamped == [w EXCEPT !.keyframeAsked = a]
           noted == [stamped EXCEPT !.highestSeen = h.frame]
           tails == TailsMissing(noted)
           gap == h.frame - w.highestSeen - 1
<1>1. h.frame \in FrameId /\ h.frame \in Nat /\ h.frame >= 1
  BY ConfigAssumption DEF Header, FrameId
<1>2. /\ IsWindow(w) /\ w.nextId \in Nat /\ w.highestSeen \in Nat
      /\ Held(w) \subseteq FrameId
  BY DEF Sound, IsWindow
<1>3. a \in Age
  BY <1>2, AgeAssumption DEF IsWindow, Age, None
<1> HIDE DEF a
<1>4. IsWindow(stamped) /\ IsWindow(noted)
  <2>1. IsWindow(stamped)
    BY <1>2, <1>3 DEF IsWindow, Held
  <2> HIDE DEF stamped
  <2>2. IsWindow(noted)
    BY <1>1, <2>1 DEF IsWindow, Held
  <2> QED BY <2>1, <2>2
<1>5. /\ stamped.slots = w.slots /\ noted.slots = w.slots
      /\ stamped.nextId = w.nextId /\ noted.nextId = w.nextId
      /\ stamped.needKeyframe = w.needKeyframe
      /\ noted.needKeyframe = w.needKeyframe
      /\ stamped.highestSeen = w.highestSeen /\ noted.highestSeen = h.frame
      /\ stamped.frames = w.frames /\ noted.frames = w.frames
  BY <1>2 DEF IsWindow
<1> HIDE DEF stamped, noted
<1>6. /\ IsWindow(tails) /\ Held(tails) = Held(w)
      /\ tails.nextId = w.nextId
      /\ tails.needKeyframe = w.needKeyframe
      /\ tails.highestSeen = h.frame
      /\ tails.frames = w.frames
  BY <1>4, <1>5, TailsMissingSound DEF Held
<1> HIDE DEF tails
<1>7. Sound(stamped, r, t)
  BY <1>4, <1>5, SlotsRewritten DEF Held, Sound
<1>8. w.highestSeen <= h.frame => Sound(noted, r, t) /\ Sound(tails, r, t)
  <2> SUFFICES ASSUME w.highestSeen <= h.frame
               PROVE  Sound(noted, r, t) /\ Sound(tails, r, t)
    OBVIOUS
  <2>1. \A id \in Held(w) : w.nextId <= id /\ id <= h.frame
    BY <1>1, <1>2 DEF Sound, FrameId
  <2> QED BY <1>4, <1>5, <1>6, <2>1, SlotsRewritten DEF Held
<1>9. CASE w.highestSeen = 0
  <2>1. NoteNewFrame(w, h) = noted
    BY <1>9 DEF NoteNewFrame, noted, stamped, a
  <2> QED BY <1>1, <1>5, <1>8, <1>9, <2>1
<1>10. CASE w.highestSeen # 0 /\ gap < 0
  <2>1. NoteNewFrame(w, h) = stamped
    BY <1>1, <1>2, <1>10, ConfigAssumption DEF NoteNewFrame, stamped, a
  <2> QED BY <1>1, <1>2, <1>5, <1>7, <1>10, <2>1
<1>11. CASE w.highestSeen # 0 /\ gap = 0
  <2>1. NoteNewFrame(w, h) = tails
    BY <1>1, <1>2, <1>11, ConfigAssumption
    DEF NoteNewFrame, tails, noted, stamped, a
  <2> QED BY <1>1, <1>2, <1>6, <1>8, <1>11, <2>1
<1>12. CASE w.highestSeen # 0 /\ gap >= 0 /\ gap > MaxGap /\ h.key
  <2>1. NoteNewFrame(w, h) = DropBelow(tails, h.frame)
    BY <1>1, <1>2, <1>12, ConfigAssumption
    DEF NoteNewFrame, tails, noted, stamped, a
  <2>2. Sound(tails, r, t)
    BY <1>1, <1>2, <1>8, <1>12
  <2> DEFINE d == DropBelow(tails, h.frame)
  <2>3. /\ IsWindow(d)
        /\ Held(d) = {i \in Held(tails) : i >= h.frame}
        /\ d.nextId = tails.nextId /\ d.needKeyframe = tails.needKeyframe
        /\ d.highestSeen = tails.highestSeen /\ d.frames = tails.frames
    BY <1>1, <1>6, DropBelowSound
  <2> HIDE DEF d
  <2>4. \A id \in Held(d) : tails.nextId <= id /\ id <= d.highestSeen
    BY <2>2, <2>3 DEF Sound
  <2>5. Sound(d, r, t)
    BY <2>2, <2>3, <2>4, SlotsRewritten
  <2> QED BY <1>1, <1>2, <1>6, <2>1, <2>3, <2>5 DEF d
<1>13. CASE w.highestSeen # 0 /\ gap >= 0 /\ gap > MaxGap /\ ~h.key
  <2>1. NoteNewFrame(w, h) = BreakChain(Lose(tails, h.frame), h.frame)
    BY <1>1, <1>2, <1>13, ConfigAssumption
    DEF NoteNewFrame, tails, noted, stamped, a
  <2>2. Sound(tails, r, t)
    BY <1>1, <1>2, <1>8, <1>13
  <2> DEFINE b == BreakChain(Lose(tails, h.frame), h.frame)
  <2>3. /\ Sound(b, r, t)
        /\ b.nextId = IF h.frame > tails.nextId THEN h.frame ELSE tails.nextId
        /\ b.highestSeen = tails.highestSeen
    BY <1>1, <2>2, LoseAndBreakSound
  <2> HIDE DEF b
  <2> QED BY <1>1, <1>2, <1>6, <2>1, <2>3 DEF b
<1>14. CASE w.highestSeen # 0 /\ gap > 0 /\ ~(gap > MaxGap)
  <2>1. NoteNewFrame(w, h) = FillGap(tails, w.highestSeen, h.frame)
    BY <1>1, <1>2, <1>14, ConfigAssumption
    DEF NoteNewFrame, tails, noted, stamped, a
  <2>2. Sound(tails, r, t)
    BY <1>1, <1>2, <1>8, <1>14
  <2> DEFINE f == FillGap(tails, w.highestSeen, h.frame)
  <2>3. /\ IsWindow(f)
        /\ \A id \in Held(f) :
             \/ id \in Held(tails)
             \/ id > w.highestSeen /\ id < h.frame /\ id >= tails.nextId
        /\ f.nextId = tails.nextId /\ f.needKeyframe = tails.needKeyframe
        /\ f.highestSeen = tails.highestSeen /\ f.frames = tails.frames
    BY <1>1, <1>2, <1>6, FillGapSound
  <2> HIDE DEF f
  <2>4. \A id \in Held(f) : tails.nextId <= id /\ id <= f.highestSeen
    <3>1. Held(f) \subseteq Nat
      BY <2>3 DEF IsWindow, FrameId
    <3> QED BY <1>1, <1>2, <1>6, <2>2, <2>3, <3>1 DEF Sound
  <2>5. Sound(f, r, t)
    BY <2>2, <2>3, <2>4, SlotsRewritten
  <2> QED BY <1>1, <1>2, <1>6, <2>1, <2>3, <2>5 DEF f
<1> QED
  BY <1>1, <1>2, <1>9, <1>10, <1>11, <1>12, <1>13, <1>14, ConfigAssumption
  DEF Header

LEMMA StoreSound ==
  ASSUME NEW w, NEW r, NEW t, Sound(w, r, t), NEW h \in Headers, Valid(h),
         w.nextId <= h.frame, h.frame <= w.highestSeen, ~Redundant(w, h)
  PROVE  Sound(Store(w, h), r, t)
<1> DEFINE o == IF h.frame \in Held(w) THEN w.slots[h.frame] ELSE UnknownSlot
           s == SlotFor(w, h)
           got == s.got \cup {h.frag}
           since == IF got = 0 .. (s.total - 1) THEN None ELSE s.since
           new == [s EXCEPT !.got = got, !.key = @ \/ h.key, !.since = since]
           m == [id \in Held(w) \cup {h.frame} |->
                   IF id = h.frame THEN new ELSE w.slots[id]]
<1>1. /\ h.frame \in FrameId /\ h.frag \in Nat /\ h.total \in Nat
      /\ h.key \in BOOLEAN
  BY ConfigAssumption DEF Header
<1>2. IsWindow(w)
  BY DEF Sound
<1>3. IsSlot(o)
  BY <1>2, UnknownIsSlot DEF IsWindow
<1>4. IsSlot(s) /\ s.total = h.total /\ h.frag \in 0 .. (s.total - 1)
  <2>1. s = IF Sized(o) THEN o ELSE [o EXCEPT !.total = h.total]
    BY DEF SlotFor
  <2> HIDE DEF o
  <2>2. s.total = h.total
    BY DEF Redundant
  <2>3. h.frag \in 0 .. (h.total - 1)
    BY <1>1 DEF Valid
  <2>4. CASE Sized(o)
    BY <1>3, <2>1, <2>2, <2>3, <2>4
  <2>5. CASE ~Sized(o)
    <3>1. o.got = {}
      BY <1>3, <2>5 DEF IsSlot, Slot, Sized
    <3> QED BY <1>1, <1>3, <2>1, <2>2, <2>3, <2>5, <3>1 DEF IsSlot, Slot
  <2> QED BY <2>4, <2>5
<1> HIDE DEF s
<1>5. since \in Age /\ got \subseteq 0 .. (s.total - 1) /\ got \subseteq Nat
  BY <1>1, <1>4, AgeAssumption DEF IsSlot, Slot, Age, None
<1> HIDE DEF since, got
<1>6. (s.key \/ h.key) \in BOOLEAN
  OBVIOUS
<1>7. IsSlot(new)
  BY <1>4, <1>5, <1>6 DEF IsSlot, Slot
<1> HIDE DEF new
<1>8. \A id \in Held(w) \cup {h.frame} : IsSlot(m[id])
  BY <1>2, <1>7 DEF IsWindow
<1>9. DOMAIN m = Held(w) \cup {h.frame} /\ m = [id \in DOMAIN m |-> m[id]]
  OBVIOUS
<1>10. Store(w, h) = [w EXCEPT !.slots = m]
  BY DEF Store, m, new, since, got, s
<1> HIDE DEF m
<1>11. /\ IsWindow(Store(w, h)) /\ Held(Store(w, h)) = Held(w) \cup {h.frame}
       /\ Store(w, h).frames = w.frames
       /\ Store(w, h).nextId = w.nextId
       /\ Store(w, h).needKeyframe = w.needKeyframe
       /\ Store(w, h).highestSeen = w.highestSeen
  BY <1>1, <1>2, <1>8, <1>9, <1>10 DEF IsWindow, Held
<1>12. \A id \in Held(Store(w, h)) : w.nextId <= id /\ id <= w.highestSeen
  BY <1>11 DEF Sound
<1> QED BY <1>11, <1>12, SlotsRewritten

\* The run handed out ends at the first frame that is not complete.
LEMMA RunEndIs ==
  ASSUME NEW w, IsWindow(w), w.nextId \in CompleteIds(w),
         \A id \in Held(w) : w.nextId <= id /\ id <= w.highestSeen
  PROVE  /\ RunEnd(w) \in Nat /\ RunEnd(w) > w.nextId
         /\ RunEnd(w) \notin CompleteIds(w)
         /\ \A id \in w.nextId .. (RunEnd(w) - 1) : id \in CompleteIds(w)
<1> DEFINE S == {id \in w.nextId .. (w.highestSeen + 1) : id \notin CompleteIds(w)}
<1>1. /\ w.nextId \in Nat /\ w.highestSeen \in Nat
      /\ w.nextId \in Held(w) /\ CompleteIds(w) \subseteq Held(w)
  BY DEF IsWindow, CompleteIds
<1>2. w.highestSeen + 1 \in S
  BY <1>1
<1>3. S \in SUBSET Nat /\ S # {}
  BY <1>1, <1>2
<1> HIDE DEF S
<1>4. Min(S) \in S /\ \A n \in S : Min(S) <= n
  BY <1>3, MinNat
<1>5. RunEnd(w) = Min(S)
  BY DEF RunEnd, S
<1>6. RunEnd(w) \in w.nextId .. (w.highestSeen + 1)
      /\ RunEnd(w) \notin CompleteIds(w)
  BY <1>4, <1>5 DEF S
<1>7. \A id \in w.nextId .. (w.highestSeen + 1) : id < RunEnd(w) => id \in CompleteIds(w)
  BY <1>1, <1>4, <1>5, <1>6 DEF S
<1> QED BY <1>1, <1>6, <1>7

LEMMA ReleaseRunSound ==
  ASSUME NEW w, NEW r, NEW t, IsPosition(r, t), Sound(w, r, t)
  PROVE  Sound(ReleaseRun(w), r, t)
<1>1. CASE w.needKeyframe \/ w.nextId \notin CompleteIds(w)
  BY <1>1 DEF ReleaseRun
<1>2. CASE ~w.needKeyframe /\ w.nextId \in CompleteIds(w)
  <2> DEFINE n == w.nextId
             end == RunEnd(w)
             gs == [i \in 1 .. (end - n) |-> FrameOf(w, n + i - 1)]
             fs == w.frames \o gs
             m == Restrict(w.slots, Held(w) \ (n .. (end - 1)))
             v == ReleaseRun(w)
  <2>1. /\ IsWindow(w) /\ n \in Nat /\ n > 1
        /\ LastId(r, w.frames) = n - 1
        /\ \A id \in Held(w) : n <= id /\ id <= w.highestSeen
        /\ LastId(t, w.frames) < n
    <3>1. IsWindow(w) /\ n \in Nat
      BY DEF Sound, IsWindow
    <3>2. LastId(t, w.frames) \in Int
      BY <3>1, Concatenated DEF IsWindow, IsPosition
    <3> QED BY <1>2, <3>1, <3>2 DEF Sound
  <2>2. /\ end \in Nat /\ end > n
        /\ \A id \in n .. (end - 1) : id \in CompleteIds(w)
    BY <1>2, <2>1, RunEndIs
  <2> HIDE DEF end
  <2>3. \A i \in 1 .. (end - n) : gs[i].id = n + i - 1 /\ gs[i] \in Frame
    <3> SUFFICES ASSUME NEW i \in 1 .. (end - n)
                 PROVE  FrameOf(w, n + i - 1).id = n + i - 1
                        /\ FrameOf(w, n + i - 1) \in Frame
      OBVIOUS
    <3>1. n + i - 1 \in Held(w)
      BY <2>1, <2>2 DEF CompleteIds
    <3>2. n + i - 1 \in FrameId /\ w.slots[n + i - 1].key \in BOOLEAN
      BY <2>1, <3>1 DEF IsWindow, IsSlot, Slot
    <3> QED BY <3>2 DEF FrameOf, Frame
  <2>4. gs \in Seq(Frame) /\ Len(gs) = end - n /\ DOMAIN gs = 1 .. (end - n)
    <3>1. end - n \in Nat
      BY <2>1, <2>2
    <3>2. gs \in [1 .. (end - n) -> Frame]
      BY <2>3
    <3> QED BY <3>1, <3>2, Enumerated
  <2> HIDE DEF gs
  <2>5. /\ Decodable(n - 1, gs)
        /\ LastId(r, fs) = end - 1 /\ LastId(t, fs) = end - 1
        /\ Ascending(LastId(t, w.frames), gs)
    <3>1. gs # << >> /\ gs[Len(gs)].id = end - 1
      BY <2>1, <2>2, <2>3, <2>4
    <3>2. r \in Int /\ t \in Int /\ w.frames \in Seq(Frame)
      BY <2>1 DEF IsPosition, IsWindow, FrameId, NoFrame
    <3>3. /\ LastId(r, fs) = LastId(LastId(r, w.frames), gs)
          /\ LastId(t, fs) = LastId(LastId(t, w.frames), gs)
      BY <2>4, <3>2, Concatenated
    <3>4. \A d : LastId(d, gs) = end - 1
      BY <3>1 DEF LastId
    <3>5. LastId(r, fs) = end - 1 /\ LastId(t, fs) = end - 1
      BY <3>3, <3>4
    <3>6. Decodable(n - 1, gs)
      <4>1. \A i \in DOMAIN gs : gs[i].id = Before(n - 1, gs, i) + 1
        BY <2>1, <2>2, <2>3, <2>4 DEF Before
      <4> QED BY <4>1 DEF Decodable
    <3>7. Ascending(LastId(t, w.frames), gs)
      BY <2>1, <2>2, <2>3, <2>4 DEF Ascending, Before
    <3> QED BY <3>6, <3>7, <3>5
  <2>6. fs \in Seq(Frame) /\ Decodable(r, fs) /\ Ascending(t, fs)
    <3>1. r \in Int /\ t \in Int /\ w.frames \in Seq(Frame)
      BY <2>1 DEF IsPosition, IsWindow, FrameId, NoFrame
    <3>2. Decodable(r, w.frames) /\ Ascending(t, w.frames)
      BY DEF Sound
    <3> QED BY <2>1, <2>4, <2>5, <3>1, <3>2, Concatenated
  <2> HIDE DEF fs
  <2>7. v = [w EXCEPT !.frames = fs, !.slots = m, !.nextId = end]
    BY <1>2 DEF ReleaseRun, end, fs, gs
  <2>8. /\ DOMAIN m = Held(w) \ (n .. (end - 1)) /\ m = [id \in DOMAIN m |-> m[id]]
        /\ \A id \in DOMAIN m : m[id] = w.slots[id]
    BY DEF Restrict
  <2> HIDE DEF v, m
  <2>9. /\ IsWindow(v) /\ Held(v) = Held(w) \ (n .. (end - 1))
        /\ v.frames = fs /\ v.nextId = end
        /\ v.highestSeen = w.highestSeen
    BY <2>1, <2>2, <2>6, <2>7, <2>8 DEF IsWindow, Held
  <2>10. \A id \in Held(v) : end <= id /\ id <= v.highestSeen
    BY <2>1, <2>2, <2>9 DEF IsWindow, FrameId
  <2>11. Sound(v, r, t)
    BY <2>1, <2>2, <2>5, <2>6, <2>9, <2>10 DEF Sound
  <2> QED BY <2>11 DEF v
<1> QED BY <1>1, <1>2

LEMMA ReleaseKeyframeSound ==
  ASSUME NEW w, NEW r, NEW t, IsPosition(r, t), Sound(w, r, t)
  PROVE  Sound(ReleaseKeyframe(w), r, t)
<1>1. CASE CompleteKeyframes(w) = {}
  BY <1>1 DEF ReleaseKeyframe
<1>2. CASE CompleteKeyframes(w) # {}
  <2> DEFINE id == Min(CompleteKeyframes(w))
             d == DropBelow(w, id + 1)
             f == FrameOf(w, id)
             fs == w.frames \o <<f>>
             v == ReleaseKeyframe(w)
  <2>1. IsWindow(w) /\ w.nextId \in Nat
    BY DEF Sound, IsWindow
  <2>2. CompleteKeyframes(w) \subseteq Held(w) /\ Held(w) \subseteq FrameId
    BY <2>1 DEF CompleteKeyframes, CompleteIds, IsWindow
  <2>3. id \in CompleteKeyframes(w) /\ id \in Held(w) /\ id \in FrameId
    BY <1>2, <2>2, MinNat DEF FrameId
  <2> HIDE DEF id
  <2>4. f \in Frame /\ f.id = id /\ f.key
    <3>1. w.slots[id].key = TRUE
      BY <2>1, <2>3 DEF CompleteKeyframes, IsWindow, IsSlot, Slot
    <3> QED BY <2>3, <3>1 DEF FrameOf, Frame
  <2>5. r \in Int /\ t \in Int /\ w.frames \in Seq(Frame)
    BY <2>1 DEF IsPosition, IsWindow, FrameId, NoFrame
  <2>6. LastId(t, w.frames) \in Int /\ LastId(t, w.frames) < id
    <3>1. LastId(t, w.frames) \in Int
      BY <2>5, Concatenated
    <3> QED BY <2>1, <2>3, <3>1 DEF Sound, FrameId
  <2> HIDE DEF f
  <2>7. /\ <<f>> \in Seq(Frame)
        /\ Decodable(LastId(r, w.frames), <<f>>)
        /\ Ascending(LastId(t, w.frames), <<f>>)
        /\ \A e : LastId(e, <<f>>) = id
    BY <2>4, <2>6 DEF Decodable, Ascending, Before, LastId
  <2>8. /\ fs \in Seq(Frame) /\ Decodable(r, fs) /\ Ascending(t, fs)
        /\ LastId(r, fs) = id /\ LastId(t, fs) = id
    <3>1. Decodable(r, w.frames) /\ Ascending(t, w.frames)
      BY DEF Sound
    <3>2. /\ LastId(r, fs) = LastId(LastId(r, w.frames), <<f>>)
          /\ LastId(t, fs) = LastId(LastId(t, w.frames), <<f>>)
      BY <2>5, <2>7, Concatenated
    <3>3. fs \in Seq(Frame) /\ Decodable(r, fs)
      BY <2>5, <2>7, <3>1, Concatenated
    <3>4. Ascending(t, fs)
      BY <2>5, <2>7, <3>1, Concatenated
    <3> QED BY <2>7, <3>2, <3>3, <3>4
  <2>9. fs = Append(w.frames, f)
    BY <2>4, <2>5
  <2> HIDE DEF fs
  <2>10. /\ IsWindow(d) /\ Held(d) = {i \in Held(w) : i >= id + 1}
         /\ d.highestSeen = w.highestSeen /\ d.frames = w.frames
    BY <2>1, <2>3, DropBelowSound DEF FrameId
  <2>11. v = [d EXCEPT !.frames = fs, !.nextId = id + 1,
                       !.needKeyframe = FALSE, !.keyframeAsked = None]
    BY <1>2, <2>9, <2>10 DEF ReleaseKeyframe, id, f
  <2> HIDE DEF v, d
  <2>12. None \in Age /\ id + 1 \in Nat
    BY <2>3, AgeAssumption DEF None, Age, FrameId
  <2>13. /\ IsWindow(v) /\ Held(v) = Held(d) /\ v.frames = fs
         /\ v.nextId = id + 1 /\ v.needKeyframe = FALSE
         /\ v.highestSeen = d.highestSeen
    BY <2>8, <2>10, <2>11, <2>12 DEF IsWindow, Held
  <2>14. \A i \in Held(v) : v.nextId <= i /\ i <= v.highestSeen
    BY <2>10, <2>13 DEF Sound
  <2>15. Sound(v, r, t)
    BY <2>3, <2>8, <2>13, <2>14 DEF Sound, FrameId
  <2> QED BY <2>15 DEF v
<1> QED BY <1>1, <1>2

LEMMA ReleaseSound ==
  ASSUME NEW w, NEW r, NEW t, IsPosition(r, t), Sound(w, r, t)
  PROVE  Sound(Release(w), r, t)
<1>1. Sound(ReleaseRun(w), r, t)
  BY ReleaseRunSound
<1>2. Sound(ReleaseKeyframe(ReleaseRun(w)), r, t)
  BY <1>1, ReleaseKeyframeSound
<1>3. Sound(ReleaseRun(ReleaseKeyframe(ReleaseRun(w))), r, t)
  BY <1>2, ReleaseRunSound
<1> QED BY <1>3 DEF Release

LEMMA GiveUpThroughSound ==
  ASSUME NEW w, NEW r, NEW t, IsPosition(r, t), Sound(w, r, t), NEW id \in Nat
  PROVE  Sound(GiveUpThrough(w, id), r, t)
<1>1. Sound(BreakChain(Lose(w, id + 1), id + 1), r, t)
  BY LoseAndBreakSound
<1> QED BY <1>1, ReleaseSound DEF GiveUpThrough

LEMMA GiveUpExpiredSound ==
  ASSUME NEW w, NEW r, NEW t, IsPosition(r, t), Sound(w, r, t)
  PROVE  Sound(GiveUpExpired(w), r, t)
<1>1. CASE Expired(w) = {}
  BY <1>1 DEF GiveUpExpired
<1>2. CASE Expired(w) # {}
  <2>1. Expired(w) \subseteq 0 .. w.highestSeen /\ w.highestSeen \in Nat
    BY DEF Expired, Sound, IsWindow, FrameId
  <2>2. Max(Expired(w)) \in Nat
    BY <1>2, <2>1, MaxNat
  <2> QED BY <1>2, <2>2, GiveUpThroughSound DEF GiveUpExpired
<1> QED BY <1>1, <1>2

LEMMA EnforceCapacitySound ==
  ASSUME NEW w, NEW r, NEW t, IsPosition(r, t), Sound(w, r, t)
  PROVE  Sound(EnforceCapacity(w), r, t)
<1> DEFINE S == {id \in 0 .. w.highestSeen :
                   Cardinality({i \in Held(w) : i > id}) <= MaxHeldFrames}
<1>1. w.highestSeen \in Nat /\ Held(w) \subseteq Nat
  BY DEF Sound, IsWindow, FrameId
<1>2. {i \in Held(w) : i > w.highestSeen} = {}
  BY <1>1 DEF Sound
<1>3. w.highestSeen \in S
  <2>1. Cardinality({i \in Held(w) : i > w.highestSeen}) = 0
    BY <1>2, FS_EmptySet
  <2> QED BY <1>1, <2>1, ConfigAssumption
<1>4. Min(S) \in Nat
  <2>1. S \subseteq 0 .. w.highestSeen /\ S # {}
    BY <1>3
  <2> HIDE DEF S
  <2>2. S \in SUBSET Nat
    BY <1>1, <2>1
  <2> QED BY <2>1, <2>2, MinNat
<1>5. EnforceCapacity(w) = IF Cardinality(Held(w)) <= MaxHeldFrames THEN w
                           ELSE GiveUpThrough(w, Min(S))
  BY DEF EnforceCapacity
<1> QED BY <1>4, <1>5, GiveUpThroughSound

LEMMA AskedIsSlot ==
  ASSUME NEW w, IsWindow(w), NEW id \in Held(w)
  PROVE  IsSlot(Ask(w, id).slot) /\ Ask(w, id).frags \in SUBSET Nat
<1> DEFINE s == w.slots[id]
           missing == Missing(s, TailKnown(w, id))
           retry == RetryAllowed(w, s)
           whole == (~s.askedWhole \/ retry) /\ s.rounds < MaxNackRounds
           frags == IF retry THEN missing ELSE missing \ s.asked
           marked == MarkMissing(s)
           n == IF retry \/ marked.rounds = 0 THEN marked.rounds + 1
                ELSE marked.rounds
<1>1. IsSlot(s) /\ IsSlot(marked) /\ marked.rounds = s.rounds
  BY MarkedIsSlot DEF IsWindow, MarkMissing, IsSlot, Slot
<1>2. missing \in SUBSET Nat /\ frags \in SUBSET Nat
  BY <1>1 DEF Missing, IsSlot, Slot
<1>3. 0 \in Age /\ None \in Age /\ MaxNackRounds \in Nat /\ MaxNackRounds >= 1
  BY ConfigAssumption, AgeAssumption DEF Age, None
<1>4. CASE ~Sized(s)
  <2>1. Ask(w, id).frags = {}
    BY <1>4 DEF Ask
  <2>2. Ask(w, id).slot =
          IF whole THEN [marked EXCEPT !.askedWhole = TRUE, !.rounds = @ + 1,
                                       !.lastNack = 0]
          ELSE s
    BY <1>4 DEF Ask
  <2>3. whole => s.rounds < MaxNackRounds
    OBVIOUS
  <2> HIDE DEF whole, marked, s
  <2>4. ASSUME whole
        PROVE  IsSlot([marked EXCEPT !.askedWhole = TRUE, !.rounds = @ + 1,
                                     !.lastNack = 0])
    <3>1. marked.rounds + 1 \in 0 .. MaxNackRounds
      BY <1>1, <1>3, <2>3, <2>4 DEF IsSlot, Slot
    <3>2. marked \in Slot /\ marked.got \subseteq 0 .. (marked.total - 1)
      BY <1>1 DEF IsSlot
    <3> QED BY <1>3, <3>1, <3>2 DEF IsSlot, Slot
  <2> QED BY <1>1, <2>1, <2>2, <2>4
<1>5. CASE Sized(s) /\ missing = {}
  <2>1. /\ Ask(w, id).frags = {}
        /\ Ask(w, id).slot = [s EXCEPT !.since = None]
    BY <1>5 DEF Ask
  <2> HIDE DEF s
  <2> QED BY <1>1, <1>3, <2>1 DEF IsSlot, Slot
<1>6. CASE Sized(s) /\ missing # {}
  <2>1. /\ Ask(w, id).frags = frags
        /\ Ask(w, id).slot =
             IF frags = {} THEN marked
             ELSE [marked EXCEPT !.rounds = n, !.asked = @ \cup frags,
                                 !.lastNack = 0]
    BY <1>6 DEF Ask
  <2>2. n \in 0 .. MaxNackRounds
    <3>1. marked.rounds \in 0 .. MaxNackRounds
      BY <1>1 DEF IsSlot, Slot
    <3>2. retry => marked.rounds < MaxNackRounds
      BY <1>1 DEF RetryAllowed
    <3> HIDE DEF retry, marked
    <3> QED BY <1>3, <3>1, <3>2
  <2> HIDE DEF n, frags, marked
  <2>3. IsSlot([marked EXCEPT !.rounds = n, !.asked = @ \cup frags, !.lastNack = 0])
    BY <1>1, <1>2, <1>3, <2>2 DEF IsSlot, Slot
  <2> QED BY <1>1, <1>2, <2>1, <2>3
<1> QED BY <1>4, <1>5, <1>6

LEMMA RequestMissingSound ==
  ASSUME NEW w, NEW r, NEW t, Sound(w, r, t)
  PROVE  Sound(RequestMissing(w), r, t)
<1> DEFINE eligible == {id \in Held(w) : /\ Recoverable(w, id)
                                         /\ WorthAsking(w, w.slots[id])}
           asking == {id \in eligible : Ask(w, id).send}
           m == [id \in Held(w) |-> IF id \in eligible THEN Ask(w, id).slot
                                    ELSE w.slots[id]]
           sent == {[frame |-> id, frags |-> Ask(w, id).frags] : id \in asking}
           v == RequestMissing(w)
<1>1. IsWindow(w) /\ Held(w) \subseteq FrameId
  BY DEF Sound, IsWindow
<1>2. \A id \in Held(w) : IsSlot(m[id])
  BY <1>1, AskedIsSlot DEF IsWindow
<1>3. DOMAIN m = Held(w) /\ m = [id \in DOMAIN m |-> m[id]]
  OBVIOUS
<1>4. sent \subseteq [frame : FrameId, frags : SUBSET Nat]
  BY <1>1, AskedIsSlot
<1>5. v = [w EXCEPT !.slots = m, !.nacks = @ \cup sent]
  BY DEF RequestMissing
<1> HIDE DEF m, sent, v
<1>6. /\ IsWindow(v) /\ Held(v) = Held(w) /\ v.frames = w.frames
      /\ v.nextId = w.nextId /\ v.needKeyframe = w.needKeyframe
      /\ v.highestSeen = w.highestSeen
  BY <1>1, <1>2, <1>3, <1>4, <1>5 DEF IsWindow, Held
<1>7. Sound(v, r, t)
  BY <1>6, SlotsRewritten DEF Sound
<1> QED BY <1>7 DEF v

LEMMA TimerSet ==
  ASSUME NEW w, IsWindow(w), NEW k \in Age, NEW a \in BOOLEAN,
         NEW v, v = [w EXCEPT !.keyframeAsked = k, !.askKeyframe = a]
  PROVE  /\ IsWindow(v) /\ v.slots = w.slots /\ v.frames = w.frames
         /\ v.nextId = w.nextId /\ v.needKeyframe = w.needKeyframe
         /\ v.highestSeen = w.highestSeen
BY DEF IsWindow, Held

LEMMA RepeatKeyframeRequestSound ==
  ASSUME NEW w, NEW r, NEW t, Sound(w, r, t)
  PROVE  Sound(RepeatKeyframeRequest(w), r, t)
<1> DEFINE v == [w EXCEPT !.keyframeAsked = 0, !.askKeyframe = TRUE]
<1>1. IsWindow(w) /\ 0 \in Age /\ TRUE \in BOOLEAN
  BY AgeAssumption DEF Sound, Age, None
<1>2. /\ IsWindow(v) /\ v.slots = w.slots /\ v.frames = w.frames
      /\ v.nextId = w.nextId /\ v.needKeyframe = w.needKeyframe
      /\ v.highestSeen = w.highestSeen
  BY <1>1, TimerSet, Zenon
<1> HIDE DEF v
<1>3. Sound(v, r, t)
  BY <1>2, SlotsRewritten DEF Sound, Held
<1> QED BY <1>3 DEF RepeatKeyframeRequest, v

-----------------------------------------------------------------------------
(* The calls.                                                              *)

LEMMA InsertedSound ==
  ASSUME NEW w, NEW r, NEW t, IsPosition(r, t), Sound(w, r, t),
         NEW h \in Headers, Accepted(w, h), ~Redundant(NoteNewFrame(w, h), h)
  PROVE  Sound(Inserted(w, h), r, t)
<1>1. Valid(h) /\ h.frame >= w.nextId
  BY DEF Accepted
<1>2. /\ Sound(NoteNewFrame(w, h), r, t)
      /\ NoteNewFrame(w, h).nextId <= h.frame
      /\ h.frame <= NoteNewFrame(w, h).highestSeen
  BY <1>1, NoteNewFrameSound
<1>3. Sound(Store(NoteNewFrame(w, h), h), r, t)
  BY <1>1, <1>2, StoreSound
<1>4. Sound(Release(Store(NoteNewFrame(w, h), h)), r, t)
  BY <1>3, ReleaseSound
<1>5. Sound(RequestMissing(Release(Store(NoteNewFrame(w, h), h))), r, t)
  BY <1>4, RequestMissingSound
<1> QED BY <1>5, EnforceCapacitySound DEF Inserted

LEMMA PolledSound ==
  ASSUME NEW w, NEW r, NEW t, IsPosition(r, t), Sound(w, r, t)
  PROVE  Sound(Polled(w), r, t)
<1>1. Sound(GiveUpExpired(w), r, t)
  BY GiveUpExpiredSound
<1>2. Sound(RequestMissing(GiveUpExpired(w)), r, t)
  BY <1>1, RequestMissingSound
<1> QED BY <1>2, RepeatKeyframeRequestSound DEF Polled

-----------------------------------------------------------------------------
(* The specification.                                                      *)

\* The inductive invariant.  ChainWhole alone is not inductive: that a frame
\* handed out extends the chain needs next_id to be where the chain ends, and
\* that a keyframe is new needs every slot to be past everything handed out.
Inv == TypeOK /\ HeldWithinWindow /\ ChainWhole

LEMMA InitInv == Init => Inv
<1> SUFFICES ASSUME Init PROVE Inv
  OBVIOUS
<1> DEFINE e == [id \in {} |-> UnknownSlot]
<1>1. DOMAIN e = {} /\ e = [id \in {} |-> e[id]]
  OBVIOUS
<1> HIDE DEF e
<1>2. rx = [slots |-> e, nextId |-> 0,
            needKeyframe |-> TRUE, highestSeen |-> 0, keyframeAsked |-> None,
            rtt |-> InitialRtt,
            frames |-> << >>, nacks |-> {}, lost |-> {}, askKeyframe |-> FALSE]
  BY DEF Init, e
<1>3. None \in Age /\ InitialRtt \in 0 .. MaxRtt /\ << >> \in Seq(Frame)
  BY ConfigAssumption, AgeAssumption DEF None, Age
<1>4. IsWindow(rx) /\ Held(rx) = {}
  BY <1>1, <1>2, <1>3 DEF IsWindow, Held
<1>5. TypeOK
  BY <1>3, <1>4 DEF Init, FeedInit, TypeOK
<1>6. HeldWithinWindow
  BY <1>4 DEF HeldWithinWindow, Init, FeedInit
<1>7. ChainWhole
  BY <1>2 DEF ChainWhole
<1> QED BY <1>5, <1>6, <1>7 DEF Inv

\* Between calls the invariant is Sound, at the decoder's position.
LEMMA CallStarts ==
  ASSUME Inv
  PROVE  /\ Sound(Cleared(rx), ref, top) /\ IsPosition(ref, top)
         /\ Cleared(rx).nextId = rx.nextId
<1> DEFINE v == Cleared(rx)
<1>1. IsWindow(rx)
  BY DEF Inv, TypeOK
<1>2. /\ IsWindow(v) /\ v.slots = rx.slots /\ v.frames = << >>
      /\ v.nextId = rx.nextId /\ v.needKeyframe = rx.needKeyframe
      /\ v.highestSeen = rx.highestSeen
  <2>1. PICK no \in BOOLEAN : no = FALSE
    OBVIOUS
  <2>2. PICK nothing \in Seq(Frame) : nothing = << >>
    BY EmptySeq
  <2>3. v = [rx EXCEPT !.frames = nothing, !.nacks = {}, !.lost = {},
                       !.askKeyframe = no]
    BY <2>1, <2>2 DEF Cleared
  <2> HIDE DEF v
  <2>4. /\ IsWindow(v) /\ v.slots = rx.slots /\ v.frames = nothing
        /\ v.nextId = rx.nextId /\ v.needKeyframe = rx.needKeyframe
        /\ v.highestSeen = rx.highestSeen
    BY <1>1, <2>3 DEF IsWindow, Held
  <2> QED BY <2>2, <2>4
<1> HIDE DEF v
<1>3. /\ Decodable(ref, << >>) /\ Ascending(top, << >>)
      /\ LastId(ref, << >>) = ref /\ LastId(top, << >>) = top
  BY DEF Decodable, Ascending, LastId
<1>4. Sound(v, ref, top)
  BY <1>2, <1>3 DEF Sound, Inv, HeldWithinWindow, ChainWhole, Held
<1>5. IsPosition(ref, top)
  BY DEF Inv, TypeOK, IsPosition
<1> QED BY <1>2, <1>4, <1>5 DEF v

\* A call that ends sound re-establishes the invariant and is a step of
\* DecodeFeed.
LEMMA CallEnds ==
  ASSUME NEW w, Sound(w, ref, top), IsPosition(ref, top), HandOut(w)
  PROVE  Inv' /\ Feed
<1>1. /\ rx' = w /\ handed' = w.frames
      /\ ref' = LastId(ref, w.frames) /\ top' = LastId(top, w.frames)
  BY DEF HandOut
<1>2. w.frames \in Seq(Frame) /\ IsWindow(w)
  BY DEF Sound, IsWindow
<1>3. ref' \in FrameId \cup {NoFrame} /\ top' \in Nat
  <2>1. CASE w.frames = << >>
    BY <1>1, <2>1 DEF LastId, IsPosition
  <2>2. CASE w.frames # << >>
    <3>1. w.frames[Len(w.frames)] \in Frame
      BY <1>2, <2>2
    <3> QED BY <1>1, <2>2, <3>1 DEF LastId, Frame, FrameId
  <2> QED BY <2>1, <2>2
<1>4. TypeOK'
  BY <1>1, <1>2, <1>3 DEF TypeOK
<1>5. HeldWithinWindow' /\ ChainWhole'
  BY <1>1 DEF HeldWithinWindow, ChainWhole, Sound, Held
<1>6. Feed
  BY <1>1, <1>2 DEF Feed, Sound
<1> QED BY <1>4, <1>5, <1>6 DEF Inv

LEMMA InsertStep == Inv /\ (InsertFresh \/ InsertRedundant) => Inv' /\ Feed
<1> SUFFICES ASSUME Inv, InsertFresh \/ InsertRedundant PROVE Inv' /\ Feed
  OBVIOUS
<1>1. PICK h \in Headers :
        /\ Accepted(rx, h)
        /\ \/ /\ ~Redundant(NoteNewFrame(Cleared(rx), h), h)
              /\ HandOut(Inserted(Cleared(rx), h))
           \/ HandOut(NoteNewFrame(Cleared(rx), h))
  BY DEF InsertFresh, InsertRedundant
<1>2. /\ Sound(Cleared(rx), ref, top) /\ IsPosition(ref, top)
      /\ Cleared(rx).nextId = rx.nextId
  BY CallStarts
<1>3. Accepted(Cleared(rx), h) /\ h.frame >= Cleared(rx).nextId
  BY <1>1, <1>2 DEF Accepted
<1>4. CASE /\ ~Redundant(NoteNewFrame(Cleared(rx), h), h)
           /\ HandOut(Inserted(Cleared(rx), h))
  <2>1. Sound(Inserted(Cleared(rx), h), ref, top)
    BY <1>2, <1>3, <1>4, InsertedSound
  <2> QED BY <1>2, <1>4, <2>1, CallEnds
<1>5. CASE HandOut(NoteNewFrame(Cleared(rx), h))
  <2>1. Sound(NoteNewFrame(Cleared(rx), h), ref, top)
    BY <1>2, <1>3, NoteNewFrameSound
  <2> QED BY <1>2, <1>5, <2>1, CallEnds
<1> QED BY <1>1, <1>4, <1>5

LEMMA PollStep == Inv /\ Poll => Inv' /\ Feed
<1> SUFFICES ASSUME Inv, Poll PROVE Inv' /\ Feed
  OBVIOUS
<1>1. Sound(Cleared(rx), ref, top) /\ IsPosition(ref, top)
  BY CallStarts
<1>2. Sound(Polled(Cleared(rx)), ref, top)
  BY <1>1, PolledSound
<1> QED BY <1>1, <1>2, CallEnds DEF Poll

\* A step that changes neither what is handed out nor where the window is.
LEMMA TimerStep ==
  ASSUME Inv, IsWindow(rx'), UNCHANGED feedVars,
         DOMAIN rx'.slots = DOMAIN rx.slots, rx'.nextId = rx.nextId,
         rx'.needKeyframe = rx.needKeyframe, rx'.highestSeen = rx.highestSeen
  PROVE  Inv'
<1>1. TypeOK'
  BY DEF Inv, TypeOK, feedVars
<1>2. HeldWithinWindow' /\ ChainWhole'
  BY DEF Inv, HeldWithinWindow, ChainWhole, Held, feedVars
<1> QED BY <1>1, <1>2 DEF Inv

LEMMA SetRttStep == Inv /\ SetRtt => Inv'
<1> SUFFICES ASSUME Inv, SetRtt PROVE Inv'
  OBVIOUS
<1>1. PICK r \in Rtts : rx' = [rx EXCEPT !.rtt = IF r < MaxRtt THEN r ELSE MaxRtt]
  BY DEF SetRtt
<1> DEFINE n == IF r < MaxRtt THEN r ELSE MaxRtt
<1>2. n \in 0 .. MaxRtt
  BY ConfigAssumption
<1> HIDE DEF n
<1>3. rx' = [rx EXCEPT !.rtt = n] /\ IsWindow(rx)
  BY <1>1 DEF n, Inv, TypeOK
<1>4. /\ IsWindow(rx') /\ rx'.slots = rx.slots /\ rx'.nextId = rx.nextId
      /\ rx'.needKeyframe = rx.needKeyframe /\ rx'.highestSeen = rx.highestSeen
  BY <1>2, <1>3 DEF IsWindow, Held
<1> QED BY <1>4, TimerStep DEF SetRtt

LEMMA TickStep == Inv /\ Tick => Inv'
<1> SUFFICES ASSUME Inv, Tick PROVE Inv'
  OBVIOUS
<1> DEFINE m == [id \in Held(rx) |-> Aged(rx.slots[id])]
           k == Older(rx.keyframeAsked)
<1>1. IsWindow(rx)
  BY DEF Inv, TypeOK
<1>2. \A a \in Age : Older(a) \in Age
  BY AgeAssumption DEF Older, Age, None
<1>3. ASSUME NEW s, IsSlot(s) PROVE IsSlot(Aged(s))
  BY <1>2, <1>3 DEF IsSlot, Slot, Aged
<1>4. k \in Age
  BY <1>1, <1>2 DEF IsWindow
<1> HIDE DEF k
<1>5. /\ DOMAIN m = Held(rx) /\ m = [id \in DOMAIN m |-> m[id]]
      /\ \A id \in Held(rx) : IsSlot(m[id])
  BY <1>1, <1>3 DEF IsWindow
<1>6. rx' = [rx EXCEPT !.keyframeAsked = k, !.slots = m]
  BY DEF Tick, k
<1> HIDE DEF m
<1>7. /\ IsWindow(rx') /\ DOMAIN rx'.slots = DOMAIN rx.slots
      /\ rx'.nextId = rx.nextId
      /\ rx'.needKeyframe = rx.needKeyframe /\ rx'.highestSeen = rx.highestSeen
  BY <1>1, <1>4, <1>5, <1>6 DEF IsWindow, Held
<1> QED BY <1>7, TimerStep DEF Tick

LEMMA RequireKeyframeStep == Inv /\ RequireKeyframe => Inv'
<1> SUFFICES ASSUME Inv, RequireKeyframe PROVE Inv'
  OBVIOUS
<1> DEFINE w == Cleared(rx)
           kept == {id \in Held(w) : id > w.highestSeen \/ w.slots[id].key}
           floor == IF kept = {} THEN w.highestSeen + 1 ELSE Min(kept)
           next == IF floor > w.nextId THEN floor ELSE w.nextId
           m == Restrict(w.slots, kept)
<1>1. Sound(w, ref, top)
  BY CallStarts
<1>2. rx' = Requiring(w) /\ ref' = NoFrame /\ top' = top /\ handed' = << >>
  BY DEF RequireKeyframe, Restart
<1>3. /\ handed' \in Seq(Frame) /\ ref' \in FrameId \cup {NoFrame}
      /\ top' \in Nat
  BY <1>2, EmptySeq DEF Inv, TypeOK
<1>4. top < rx.nextId \/ top = 0
  BY DEF Inv, HeldWithinWindow
<1>5. w.nextId = rx.nextId
  BY CallStarts
<1> HIDE DEF w
<1>6. /\ IsWindow(w) /\ w.nextId \in Nat /\ w.highestSeen \in Nat
      /\ Held(w) \subseteq FrameId /\ top \in Nat
      /\ \A id \in Held(w) : w.nextId <= id /\ id <= w.highestSeen
  BY <1>1 DEF Sound, IsWindow, Inv, TypeOK
<1>7. 0 \in Age
  BY AgeAssumption DEF Age, None
<1>8. PICK yes \in BOOLEAN : yes = TRUE
  OBVIOUS
<1>9. CASE w.highestSeen = 0
  <2>1. rx' = [w EXCEPT !.needKeyframe = yes, !.keyframeAsked = 0]
    BY <1>2, <1>8, <1>9 DEF Requiring
  <2>2. /\ IsWindow(rx') /\ rx'.slots = w.slots /\ rx'.nextId = w.nextId
        /\ rx'.needKeyframe = yes /\ rx'.highestSeen = w.highestSeen
    BY <1>6, <1>7, <2>1 DEF IsWindow, Held
  <2>3. TypeOK'
    BY <1>3, <2>2 DEF TypeOK
  <2>4. HeldWithinWindow'
    BY <1>2, <1>4, <1>5, <1>6, <2>2 DEF HeldWithinWindow, Held
  <2>5. ChainWhole'
    BY <1>8, <2>2 DEF ChainWhole
  <2> QED BY <2>3, <2>4, <2>5 DEF Inv
<1>10. CASE w.highestSeen # 0
  <2>1. kept \subseteq Held(w) /\ floor \in Nat /\ \A id \in kept : floor <= id
    <3>1. kept \in SUBSET Nat
      BY <1>6 DEF FrameId
    <3>2. kept # {} => Min(kept) \in kept /\ \A n \in kept : Min(kept) <= n
      BY <3>1, MinNat
    <3>3. kept \subseteq Held(w)
      OBVIOUS
    <3> HIDE DEF kept
    <3>4. CASE kept = {}
      BY <1>6, <3>3, <3>4
    <3>5. CASE kept # {}
      BY <3>1, <3>2, <3>3, <3>5
    <3> QED BY <3>4, <3>5
  <2>2. rx' = [w EXCEPT !.slots = m, !.needKeyframe = yes, !.keyframeAsked = 0,
                        !.nextId = next]
    BY <1>2, <1>8, <1>10 DEF Requiring
  <2>3. next \in Nat /\ next >= w.nextId /\ \A id \in kept : next <= id
    BY <1>6, <2>1 DEF FrameId
  <2>4. /\ DOMAIN m = kept /\ m = [id \in DOMAIN m |-> m[id]]
        /\ \A id \in kept : m[id] = w.slots[id]
    BY DEF Restrict
  <2> HIDE DEF kept, floor, next, m
  <2>5. /\ IsWindow(rx') /\ DOMAIN rx'.slots = kept /\ rx'.nextId = next
        /\ rx'.needKeyframe = yes /\ rx'.highestSeen = w.highestSeen
    BY <1>6, <1>7, <2>1, <2>2, <2>3, <2>4 DEF IsWindow, Held
  <2>6. TypeOK'
    BY <1>3, <2>5 DEF TypeOK
  <2>7. HeldWithinWindow'
    BY <1>2, <1>4, <1>5, <1>6, <2>1, <2>3, <2>5 DEF HeldWithinWindow, Held
  <2>8. ChainWhole'
    BY <1>8, <2>5 DEF ChainWhole
  <2> QED BY <2>6, <2>7, <2>8 DEF Inv
<1> QED BY <1>9, <1>10

\* Every step of the window preserves the invariant and is a step of DecodeFeed.
LEMMA StepInv == Inv /\ [Next]_vars => Inv' /\ [FeedNext]_feedVars
<1> SUFFICES ASSUME Inv, [Next]_vars PROVE Inv' /\ [FeedNext]_feedVars
  OBVIOUS
<1>1. CASE InsertFresh \/ InsertRedundant
  BY <1>1, InsertStep DEF FeedNext
<1>2. CASE Poll
  BY <1>2, PollStep DEF FeedNext
<1>3. CASE SetRtt
  BY <1>3, SetRttStep DEF SetRtt
<1>4. CASE RequireKeyframe
  BY <1>4, RequireKeyframeStep DEF RequireKeyframe, FeedNext
<1>5. CASE Tick
  BY <1>5, TickStep DEF Tick
<1>6. CASE UNCHANGED vars
  <2>1. UNCHANGED <<rx, handed, ref, top>>
    BY <1>6 DEF vars
  <2>2. Inv'
    BY <2>1 DEF Inv, TypeOK, HeldWithinWindow, ChainWhole
  <2> QED BY <2>1, <2>2 DEF feedVars
<1> QED BY <1>1, <1>2, <1>3, <1>4, <1>5, <1>6 DEF Next

LEMMA Invariance == Spec => []Inv
<1>1. Inv /\ [Next]_vars => Inv'
  BY StepInv
<1> QED BY <1>1, InitInv, PTL DEF Spec

\* The window, its output and every slot keep their types in every call; in
\* particular request_missing never counts a round past max_nack_rounds, and
\* insert never stores a fragment outside its frame.
THEOREM TypeCorrect == Spec => []TypeOK
<1>1. Inv => TypeOK
  BY DEF Inv
<1> QED BY <1>1, Invariance, PTL

\* At every point between calls the window holds only frames that are still to
\* come, and when it believes the reference chain whole the decoder's last
\* frame really is the one before next_id.
THEOREM ChainAlwaysWhole == Spec => [](HeldWithinWindow /\ ChainWhole)
<1>1. Inv => HeldWithinWindow /\ ChainWhole
  BY DEF Inv
<1> QED BY <1>1, Invariance, PTL

\* The receive window implements DecodeFeed: insert and poll never hand the
\* decoder a frame whose reference it does not hold, nor one twice or late.
THEOREM DecodesInOrder == Spec => FeedsDecodably
<1>1. Init => FeedInit
  BY DEF Init
<1>2. Inv /\ [Next]_vars => [FeedNext]_feedVars
  BY StepInv
<1> QED BY <1>1, <1>2, Invariance, PTL DEF Spec, FeedsDecodably, FeedSpec

-----------------------------------------------------------------------------
(* What a call leaves behind: a window within its capacity, every hole of  *)
(* it asked for, and frames lost for good.  Each private step again has    *)
(* one lemma, which says what becomes of the slots.                        *)

\* A frame of unknown size has a deadline, and is asked for whole if at all.
Waits(s) == ~Sized(s) => s.since # None /\ (s.rounds > 0 => s.askedWhole)

\* Between calls: no complete keyframe is left, as release hands it out.
Tidy(w) ==
  /\ \A id \in Held(w) : Waits(w.slots[id])
  /\ CompleteKeyframes(w) = {}

\* Slots that differ at most in that the frame is now known to be incomplete.
Like(s, o) ==
  /\ s.total = o.total /\ s.got = o.got /\ s.key = o.key
  /\ s.rounds = o.rounds /\ s.askedWhole = o.askedWhole
  /\ o.since # None => s.since # None

\* Every slot of v is one of w or that of a frame just found missing.
Carried(v, w) ==
  \A id \in Held(v) : \/ id \in Held(w) /\ Like(v.slots[id], w.slots[id])
                      \/ ~Sized(v.slots[id]) /\ Waits(v.slots[id])

\* v is w without some of its slots.
Within(v, w) ==
  /\ Held(v) \subseteq Held(w)
  /\ \A id \in Held(v) : v.slots[id] = w.slots[id]
  /\ v.highestSeen = w.highestSeen

\* KnownHolesAsked, of any window.
HolesAsked(w) ==
  \A id \in Held(w) :
    (Recoverable(w, id) /\ WorthAsking(w, w.slots[id])
       /\ IsMissing(w.slots[id], TailKnown(w, id)))
    => /\ w.slots[id].since # None
       /\ IF Sized(w.slots[id])
          THEN Missing(w.slots[id], TailKnown(w, id)) \subseteq w.slots[id].asked
          ELSE w.slots[id].askedWhole

-----------------------------------------------------------------------------
(* A fragment arrives.                                                     *)

LEMMA CarriedTidy ==
  ASSUME NEW v, NEW w, Carried(v, w), Tidy(w)
  PROVE  Tidy(v)
<1>1. \A id \in Held(v) : Waits(v.slots[id])
  BY DEF Carried, Tidy, Waits, Like, Sized
<1>2. ASSUME NEW id \in CompleteKeyframes(v) PROVE FALSE
  <2>1. id \in Held(v) /\ Complete(v.slots[id]) /\ v.slots[id].key
    BY <1>2 DEF CompleteKeyframes, CompleteIds
  <2>2. id \in Held(w) /\ Like(v.slots[id], w.slots[id])
    BY <2>1 DEF Carried, Complete
  <2>3. Complete(w.slots[id]) /\ w.slots[id].key
    BY <2>1, <2>2 DEF Complete, Sized, Like
  <2> QED BY <2>2, <2>3 DEF Tidy, CompleteKeyframes, CompleteIds
<1> QED BY <1>1, <1>2 DEF Tidy

LEMMA MarkedLike ==
  ASSUME NEW s, IsSlot(s)
  PROVE  Like(MarkMissing(s), s) /\ MarkMissing(s).since # None
BY DEF IsSlot, Slot, MarkMissing, Like, None

LEMMA UnknownWaits == ~Sized(MarkMissing(UnknownSlot)) /\ Waits(MarkMissing(UnknownSlot))
BY DEF Sized, Waits, MarkMissing, UnknownSlot, None

\* What note_new_frame makes of a window is one of these.
LEMMA NotedIs ==
  ASSUME NEW w, IsWindow(w), NEW h \in Headers
  PROVE  \E v :
           /\ IsWindow(v) /\ v.slots = w.slots /\ v.nextId = w.nextId
           /\ v.needKeyframe = w.needKeyframe /\ v.frames = w.frames /\ v.lost = w.lost
           /\ \/ /\ h.frame <= w.highestSeen /\ v.highestSeen = w.highestSeen
                 /\ NoteNewFrame(w, h) = v
              \/ /\ h.frame > w.highestSeen /\ v.highestSeen = h.frame
                 /\ \/ NoteNewFrame(w, h) = v
                    \/ NoteNewFrame(w, h) = TailsMissing(v)
                    \/ NoteNewFrame(w, h) = DropBelow(TailsMissing(v), h.frame)
                    \/ NoteNewFrame(w, h) =
                         BreakChain(Lose(TailsMissing(v), h.frame), h.frame)
                    \/ NoteNewFrame(w, h) = FillGap(TailsMissing(v), w.highestSeen, h.frame)
<1> DEFINE a == IF w.keyframeAsked = None THEN 0 ELSE w.keyframeAsked
           stamped == [w EXCEPT !.keyframeAsked = a]
           noted == [stamped EXCEPT !.highestSeen = h.frame]
           gap == h.frame - w.highestSeen - 1
           v == NoteNewFrame(w, h)
<1>1. h.frame \in Nat /\ h.frame >= 1 /\ w.highestSeen \in Nat
  BY ConfigAssumption DEF Header, FrameId, IsWindow
<1>2. a \in Age
  BY AgeAssumption DEF IsWindow, Age, None
<1>3. v = CASE w.highestSeen = 0                  -> noted
            [] w.highestSeen # 0 /\ gap < 0       -> stamped
            [] w.highestSeen # 0 /\ gap = 0       -> TailsMissing(noted)
            [] w.highestSeen # 0 /\ gap > MaxGap  ->
                 IF h.key THEN DropBelow(TailsMissing(noted), h.frame)
                 ELSE BreakChain(Lose(TailsMissing(noted), h.frame), h.frame)
            [] OTHER -> FillGap(TailsMissing(noted), w.highestSeen, h.frame)
  BY DEF NoteNewFrame
<1> HIDE DEF a, v
<1>4. /\ IsWindow(stamped) /\ stamped.slots = w.slots /\ stamped.nextId = w.nextId
      /\ stamped.needKeyframe = w.needKeyframe /\ stamped.frames = w.frames
      /\ stamped.lost = w.lost /\ stamped.highestSeen = w.highestSeen
  BY <1>2 DEF IsWindow, Held
<1> HIDE DEF stamped
<1>5. /\ IsWindow(noted) /\ noted.slots = w.slots /\ noted.nextId = w.nextId
      /\ noted.needKeyframe = w.needKeyframe /\ noted.frames = w.frames
      /\ noted.lost = w.lost /\ noted.highestSeen = h.frame
  BY <1>1, <1>4 DEF IsWindow, Held
<1> HIDE DEF noted
<1>6. w.highestSeen # 0 /\ gap < 0 => v = stamped /\ h.frame <= w.highestSeen
  BY <1>1, <1>3, ConfigAssumption
<1>7. w.highestSeen = 0 => v = noted /\ h.frame > w.highestSeen
  BY <1>1, <1>3
<1>8. w.highestSeen # 0 /\ ~(gap < 0) =>
        /\ h.frame > w.highestSeen
        /\ \/ v = TailsMissing(noted)
           \/ v = DropBelow(TailsMissing(noted), h.frame)
           \/ v = BreakChain(Lose(TailsMissing(noted), h.frame), h.frame)
           \/ v = FillGap(TailsMissing(noted), w.highestSeen, h.frame)
  BY <1>1, <1>3, ConfigAssumption
<1> HIDE DEF gap
<1> QED BY <1>4, <1>5, <1>6, <1>7, <1>8 DEF v

LEMMA TailsCarried ==
  ASSUME NEW w, IsWindow(w)
  PROVE  Carried(TailsMissing(w), w) /\ TailsMissing(w).lost = w.lost
<1> DEFINE m == [id \in Held(w) |-> IF IsMissing(w.slots[id], TRUE)
                                    THEN MarkMissing(w.slots[id])
                                    ELSE w.slots[id]]
<1>1. TailsMissing(w) = [w EXCEPT !.slots = m]
  BY DEF TailsMissing
<1>2. \A id \in Held(w) : Like(m[id], w.slots[id])
  BY MarkedLike DEF IsWindow, Like
<1>3. DOMAIN m = Held(w)
  OBVIOUS
<1> HIDE DEF m
<1>4. TailsMissing(w).slots = m /\ TailsMissing(w).lost = w.lost
  BY <1>1 DEF IsWindow
<1> QED BY <1>2, <1>3, <1>4 DEF Carried, Held

LEMMA LoseAndBreakIs ==
  ASSUME NEW w, IsWindow(w), NEW id \in Nat
  PROVE  /\ Within(BreakChain(Lose(w, id), id), w)
         /\ Held(BreakChain(Lose(w, id), id)) = {i \in Held(w) : i >= id}
         /\ BreakChain(Lose(w, id), id).needKeyframe
         /\ BreakChain(Lose(w, id), id).nextId = IF id > w.nextId THEN id ELSE w.nextId
         /\ BreakChain(Lose(w, id), id).frames = w.frames
         /\ BreakChain(Lose(w, id), id).lost =
              w.lost \cup {i \in Held(w) \ CompleteIds(w) : i < id}
<1> DEFINE d == DropBelow(w, id)
           gone == {i \in Held(w) \ CompleteIds(w) : i < id}
           l == Lose(w, id)
           b == BreakChain(l, id)
<1>1. /\ IsWindow(d) /\ Held(d) = {i \in Held(w) : i >= id}
      /\ \A i \in Held(d) : d.slots[i] = w.slots[i]
      /\ d.highestSeen = w.highestSeen
  BY DropBelowSound
<1>2. d.lost = w.lost
  BY DEF DropBelow, IsWindow
<1>3. l = [d EXCEPT !.lost = @ \cup gone]
  BY DEF Lose
<1> HIDE DEF d, gone
<1>4. /\ l.slots = d.slots /\ l.highestSeen = d.highestSeen /\ l.lost = w.lost \cup gone
  BY <1>1, <1>2, <1>3 DEF IsWindow
<1>5. IsWindow(l) /\ l.nextId = w.nextId /\ l.frames = w.frames
  BY LoseSound
<1> HIDE DEF l
<1>6. b.lost = l.lost
  BY <1>5 DEF BreakChain, IsWindow
<1>7. /\ b.slots = l.slots /\ b.highestSeen = l.highestSeen /\ b.needKeyframe = TRUE
      /\ b.nextId = IF id > l.nextId THEN id ELSE l.nextId
      /\ b.frames = l.frames
  BY <1>5, BreakChainSound
<1> HIDE DEF b
<1>8. Within(b, w) /\ Held(b) = {i \in Held(w) : i >= id}
  BY <1>1, <1>4, <1>7 DEF Within, Held
<1> QED BY <1>4, <1>5, <1>6, <1>7, <1>8 DEF b, l, gone

LEMMA WithinCarried ==
  ASSUME NEW v, NEW w, Within(v, w)
  PROVE  Carried(v, w)
BY DEF Within, Carried, Like

LEMMA CarriedTwice ==
  ASSUME NEW u, NEW v, NEW w, Carried(u, v), Carried(v, w)
  PROVE  Carried(u, w)
BY DEF Carried, Like, Sized, Waits

LEMMA FillGapCarried ==
  ASSUME NEW w, IsWindow(w), NEW highest \in Nat, NEW frame \in Nat,
         \A id \in Held(w) : id <= highest
  PROVE  Carried(FillGap(w, highest, frame), w) /\ FillGap(w, highest, frame).lost = w.lost
<1> DEFINE new == {id \in (highest + 1) .. (frame - 1) : id >= w.nextId}
           old(id) == IF id \in Held(w) THEN w.slots[id] ELSE UnknownSlot
           m == [id \in Held(w) \cup new |->
                   IF id \notin new THEN w.slots[id] ELSE MarkMissing(old(id))]
           v == FillGap(w, highest, frame)
<1>1. v = [w EXCEPT !.slots = m]
  BY DEF FillGap
<1>2. \A id \in new : id \notin Held(w)
  BY DEF IsWindow, FrameId
<1>3. \A id \in new : m[id] = MarkMissing(UnknownSlot)
  BY <1>2
<1>4. \A id \in Held(w) : m[id] = w.slots[id]
  BY <1>2
<1>5. DOMAIN m = Held(w) \cup new
  OBVIOUS
<1> HIDE DEF m, new, v
<1>6. v.slots = m /\ v.lost = w.lost
  BY <1>1 DEF IsWindow
<1>7. Carried(v, w)
  BY <1>3, <1>4, <1>5, <1>6, UnknownWaits DEF Carried, Held, Like
<1> QED BY <1>6, <1>7 DEF v

\* A fragment of a frame already held, or of one before the newest seen, brings
\* no new slot.
LEMMA NoteNewFrameCarried ==
  ASSUME NEW w, IsWindow(w), NEW h \in Headers,
         \A id \in Held(w) : id <= w.highestSeen
  PROVE  /\ Carried(NoteNewFrame(w, h), w)
         /\ h.frame \in Held(w) =>
              LET v == NoteNewFrame(w, h)
              IN  /\ v.slots = w.slots /\ v.highestSeen = w.highestSeen
                  /\ v.needKeyframe = w.needKeyframe /\ v.lost = w.lost
<1> DEFINE n == NoteNewFrame(w, h)
<1> HIDE DEF n
<1>1. PICK v :
        /\ IsWindow(v) /\ v.slots = w.slots /\ v.nextId = w.nextId
        /\ v.needKeyframe = w.needKeyframe /\ v.frames = w.frames /\ v.lost = w.lost
        /\ \/ /\ h.frame <= w.highestSeen /\ v.highestSeen = w.highestSeen
              /\ n = v
           \/ /\ h.frame > w.highestSeen /\ v.highestSeen = h.frame
              /\ \/ n = v
                 \/ n = TailsMissing(v)
                 \/ n = DropBelow(TailsMissing(v), h.frame)
                 \/ n = BreakChain(Lose(TailsMissing(v), h.frame), h.frame)
                 \/ n = FillGap(TailsMissing(v), w.highestSeen, h.frame)
  BY NotedIs DEF n
<1>2. h.frame \in Nat /\ w.highestSeen \in Nat /\ Held(w) \subseteq Nat
  BY ConfigAssumption DEF Header, FrameId, IsWindow
<1>3. h.frame \in Held(w) => h.frame <= w.highestSeen
  OBVIOUS
<1>4. h.frame <= w.highestSeen =>
        /\ n.slots = w.slots /\ n.highestSeen = w.highestSeen
        /\ n.needKeyframe = w.needKeyframe /\ n.lost = w.lost
  BY <1>1, <1>2
<1>5. Carried(n, w)
  <2> DEFINE t == TailsMissing(v)
  <2>1. Carried(v, w)
    BY <1>1 DEF Carried, Held, Like
  <2>2. IsWindow(t) /\ Held(t) = Held(w) /\ Carried(t, v)
    BY <1>1, TailsMissingSound, TailsCarried DEF Held
  <2> HIDE DEF t
  <2>3. Carried(t, w)
    BY <2>1, <2>2, CarriedTwice
  <2>4. CASE n = v
    BY <2>1, <2>4
  <2>5. CASE n = t
    BY <2>3, <2>5
  <2>6. CASE n = DropBelow(t, h.frame)
    <3>1. Within(n, t)
      BY <1>2, <2>2, <2>6, DropBelowSound DEF Within
    <3> QED BY <2>3, <3>1, WithinCarried, CarriedTwice
  <2>7. CASE n = BreakChain(Lose(t, h.frame), h.frame)
    <3>1. Within(n, t)
      BY <1>2, <2>2, <2>7, LoseAndBreakIs
    <3> QED BY <2>3, <3>1, WithinCarried, CarriedTwice
  <2>8. CASE n = FillGap(t, w.highestSeen, h.frame)
    <3>1. Carried(n, t)
      BY <1>2, <2>2, <2>8, FillGapCarried
    <3> QED BY <2>3, <3>1, CarriedTwice
  <2> QED BY <1>1, <2>4, <2>5, <2>6, <2>7, <2>8 DEF t
<1> QED BY <1>3, <1>4, <1>5 DEF n

LEMMA StoreIs ==
  ASSUME NEW w, IsWindow(w), NEW h \in Headers, Valid(h), ~Redundant(w, h), Tidy(w)
  PROVE  /\ \A id \in Held(Store(w, h)) : Waits(Store(w, h).slots[id])
         /\ CompleteKeyframes(Store(w, h)) \subseteq {h.frame}
         /\ Store(w, h).lost = w.lost
<1> DEFINE s == SlotFor(w, h)
           got == s.got \cup {h.frag}
           new == [s EXCEPT !.got = got, !.key = @ \/ h.key,
                            !.since = IF got = 0 .. (s.total - 1) THEN None ELSE @]
           m == [id \in Held(w) \cup {h.frame} |->
                   IF id = h.frame THEN new ELSE w.slots[id]]
           v == Store(w, h)
<1>1. h.total \in Nat /\ h.total > 0
  BY ConfigAssumption DEF Header, Valid
<1>2. s.total = h.total
  BY DEF Redundant
<1>3. "total" \in DOMAIN s
  BY UnknownIsSlot DEF SlotFor, IsWindow, IsSlot, Slot
<1> HIDE DEF s
<1>4. new.total = s.total
  BY <1>3
<1> HIDE DEF new, got
<1>5. Sized(new)
  BY <1>1, <1>2, <1>4 DEF Sized
<1>6. v = [w EXCEPT !.slots = m]
  BY DEF Store, m, new, got, s
<1>7. DOMAIN m = Held(w) \cup {h.frame} /\ m[h.frame] = new
      /\ \A id \in Held(w) : id # h.frame => m[id] = w.slots[id]
  OBVIOUS
<1> HIDE DEF m, v
<1>8. v.slots = m /\ v.lost = w.lost
  BY <1>6 DEF IsWindow
<1>9. \A id \in Held(v) : Waits(v.slots[id])
  BY <1>5, <1>7, <1>8 DEF Held, Tidy, Waits
<1>10. CompleteKeyframes(v) \subseteq {h.frame}
  BY <1>7, <1>8 DEF Held, Tidy, CompleteKeyframes, CompleteIds
<1> QED BY <1>8, <1>9, <1>10 DEF v

-----------------------------------------------------------------------------
(* Frames are handed out or given up.                                      *)

\* v is w after some frames were handed out: nothing but those is new in it.
Released(v, w) ==
  /\ Within(v, w)
  /\ v.lost = w.lost
  /\ v.nextId >= w.nextId
  /\ \A i \in DOMAIN v.frames :
       \/ i \in DOMAIN w.frames /\ v.frames[i] = w.frames[i]
       \/ w.nextId <= v.frames[i].id /\ v.frames[i].id < v.nextId

LEMMA NothingReleased ==
  ASSUME NEW w, IsWindow(w)
  PROVE  Released(w, w)
<1>1. w.nextId \in Nat
  BY DEF IsWindow
<1> QED BY <1>1 DEF Released, Within

LEMMA ReleaseRunIs ==
  ASSUME NEW w, NEW r, NEW t, IsPosition(r, t), Sound(w, r, t)
  PROVE  Released(ReleaseRun(w), w)
<1>1. IsWindow(w) /\ w.nextId \in Nat
  BY DEF Sound, IsWindow
<1>2. CASE w.needKeyframe \/ w.nextId \notin CompleteIds(w)
  <2>1. ReleaseRun(w) = w
    BY <1>2 DEF ReleaseRun
  <2> QED BY <1>1, <2>1, NothingReleased
<1>3. CASE ~w.needKeyframe /\ w.nextId \in CompleteIds(w)
  <2> DEFINE n == w.nextId
             end == RunEnd(w)
             gs == [i \in 1 .. (end - n) |-> FrameOf(w, n + i - 1)]
             fs == w.frames \o gs
             m == Restrict(w.slots, Held(w) \ (n .. (end - 1)))
             v == ReleaseRun(w)
  <2>1. end \in Nat /\ end > n
    BY <1>1, <1>3, RunEndIs DEF Sound
  <2> HIDE DEF end
  <2>2. \A i \in 1 .. (end - n) : gs[i].id = n + i - 1
    BY DEF FrameOf
  <2>3. Len(gs) = end - n /\ DOMAIN gs = 1 .. (end - n)
    <3>1. end - n \in Nat
      BY <1>1, <2>1
    <3> QED BY <3>1
  <2> HIDE DEF gs
  <2>4. \A i \in DOMAIN fs :
          \/ i \in DOMAIN w.frames /\ fs[i] = w.frames[i]
          \/ \E j \in DOMAIN gs : fs[i] = gs[j]
    <3>1. w.frames \in Seq(Frame) /\ Len(w.frames) \in Nat
      BY <1>1 DEF IsWindow
    <3> SUFFICES ASSUME NEW i \in 1 .. (Len(w.frames) + Len(gs))
                 PROVE  \/ i \in DOMAIN w.frames /\ fs[i] = w.frames[i]
                        \/ \E j \in DOMAIN gs : fs[i] = gs[j]
      BY <3>1, <2>3
    <3>2. CASE i <= Len(w.frames)
      BY <3>1, <3>2
    <3>3. CASE i > Len(w.frames)
      <4>1. i - Len(w.frames) \in DOMAIN gs
        BY <2>1, <2>3, <1>1, <3>1, <3>3
      <4>2. fs[i] = gs[i - Len(w.frames)]
        BY <2>3, <3>1, <3>3
      <4> QED BY <4>1, <4>2
    <3> QED BY <3>1, <3>2, <3>3
  <2> HIDE DEF fs
  <2>5. v = [w EXCEPT !.frames = fs, !.slots = m, !.nextId = end]
    BY <1>3 DEF ReleaseRun, end, fs, gs
  <2>6. /\ DOMAIN m \subseteq Held(w)
        /\ \A id \in DOMAIN m : m[id] = w.slots[id]
    BY DEF Restrict
  <2> HIDE DEF v, m
  <2>7. /\ v.slots = m /\ v.frames = fs /\ v.nextId = end
        /\ v.highestSeen = w.highestSeen /\ v.lost = w.lost
    BY <1>1, <2>5 DEF IsWindow
  <2>8. Within(v, w)
    BY <2>6, <2>7 DEF Within, Held
  <2>9. \A i \in DOMAIN fs : \/ i \in DOMAIN w.frames /\ fs[i] = w.frames[i]
                             \/ n <= fs[i].id /\ fs[i].id < end
    <3>1. \A j \in DOMAIN gs : n <= gs[j].id /\ gs[j].id < end
      BY <1>1, <2>1, <2>2, <2>3
    <3> QED BY <2>4, <3>1
  <2>10. Released(v, w)
    BY <1>1, <2>1, <2>7, <2>8, <2>9 DEF Released
  <2> QED BY <2>10 DEF v
<1> QED BY <1>2, <1>3

LEMMA ReleaseKeyframeIs ==
  ASSUME NEW w, NEW r, NEW t, IsPosition(r, t), Sound(w, r, t)
  PROVE  /\ Released(ReleaseKeyframe(w), w)
         /\ \A k : CompleteKeyframes(w) \subseteq {k}
                     => CompleteKeyframes(ReleaseKeyframe(w)) = {}
<1>1. IsWindow(w) /\ w.nextId \in Nat /\ w.frames \in Seq(Frame)
  BY DEF Sound, IsWindow
<1>2. CASE CompleteKeyframes(w) = {}
  <2>1. ReleaseKeyframe(w) = w
    BY <1>2 DEF ReleaseKeyframe
  <2> QED BY <1>1, <1>2, <2>1, NothingReleased
<1>3. CASE CompleteKeyframes(w) # {}
  <2> DEFINE id == Min(CompleteKeyframes(w))
             d == DropBelow(w, id + 1)
             f == FrameOf(w, id)
             fs == Append(w.frames, f)
             v == ReleaseKeyframe(w)
  <2>1. CompleteKeyframes(w) \subseteq Held(w) /\ Held(w) \subseteq FrameId
    BY <1>1 DEF CompleteKeyframes, CompleteIds, IsWindow
  <2>2. /\ id \in CompleteKeyframes(w) /\ id \in Held(w) /\ id \in Nat
        /\ id >= w.nextId
    <3>1. id \in CompleteKeyframes(w)
      BY <1>3, <2>1, MinNat DEF FrameId
    <3> HIDE DEF id
    <3> QED BY <2>1, <3>1 DEF FrameId, Sound
  <2> HIDE DEF id
  <2>3. /\ IsWindow(d) /\ Held(d) = {i \in Held(w) : i >= id + 1}
        /\ \A i \in Held(d) : d.slots[i] = w.slots[i]
        /\ d.highestSeen = w.highestSeen /\ d.frames = w.frames
    <3>1. id + 1 \in Nat
      BY <2>2
    <3> QED BY <1>1, <3>1, DropBelowSound
  <2>4. d.lost = w.lost
    BY <1>1 DEF DropBelow, IsWindow
  <2>5. f.id = id
    BY DEF FrameOf
  <2> HIDE DEF f, d
  <2>6. \A i \in DOMAIN fs : \/ i \in DOMAIN w.frames /\ fs[i] = w.frames[i]
                             \/ fs[i].id = id
    <3>1. Len(fs) = Len(w.frames) + 1 /\ DOMAIN fs = 1 .. (Len(w.frames) + 1)
          /\ DOMAIN w.frames = 1 .. Len(w.frames) /\ Len(w.frames) \in Nat
      BY <1>1
    <3> SUFFICES ASSUME NEW i \in 1 .. (Len(w.frames) + 1)
                 PROVE  \/ i \in 1 .. Len(w.frames) /\ fs[i] = w.frames[i]
                        \/ fs[i].id = id
      BY <3>1
    <3>2. CASE i = Len(w.frames) + 1
      BY <1>1, <2>5, <3>2
    <3>3. CASE i # Len(w.frames) + 1
      BY <1>1, <3>1, <3>3
    <3> QED BY <3>2, <3>3
  <2> HIDE DEF fs
  <2>7. v = [d EXCEPT !.frames = fs, !.nextId = id + 1,
                      !.needKeyframe = FALSE, !.keyframeAsked = None]
    BY <1>3, <2>3 DEF ReleaseKeyframe, id, f, fs, d
  <2> HIDE DEF v
  <2>8. /\ v.slots = d.slots /\ v.frames = fs /\ v.nextId = id + 1
        /\ v.highestSeen = w.highestSeen /\ v.lost = w.lost
    BY <2>3, <2>4, <2>7 DEF IsWindow
  <2>9. Within(v, w)
    BY <2>3, <2>8 DEF Within, Held
  <2>10. Released(v, w)
    BY <1>1, <2>2, <2>6, <2>8, <2>9 DEF Released
  <2>11. ASSUME NEW k, CompleteKeyframes(w) \subseteq {k}
         PROVE  CompleteKeyframes(v) = {}
    <3>1. CompleteKeyframes(v) \subseteq CompleteKeyframes(w)
      BY <2>9 DEF Within, CompleteKeyframes, CompleteIds
    <3>2. k = id /\ k \notin Held(v)
      BY <2>2, <2>3, <2>8, <2>11 DEF Held
    <3> QED BY <2>11, <3>1, <3>2 DEF CompleteKeyframes, CompleteIds
  <2> QED BY <2>10, <2>11 DEF v
<1> QED BY <1>2, <1>3

LEMMA ReleasedTwice ==
  ASSUME NEW u, NEW v, NEW w, NEW r, NEW t, Sound(u, r, t), Sound(v, r, t),
         Sound(w, r, t), Released(u, v), Released(v, w)
  PROVE  Released(u, w)
<1>1. /\ u.nextId \in Nat /\ v.nextId \in Nat /\ w.nextId \in Nat
      /\ \A i \in DOMAIN u.frames : u.frames[i].id \in Nat
      /\ \A i \in DOMAIN v.frames : v.frames[i].id \in Nat
  <2>1. ASSUME NEW x, Sound(x, r, t)
        PROVE  x.nextId \in Nat /\ \A i \in DOMAIN x.frames : x.frames[i].id \in Nat
    <3>1. x.nextId \in Nat /\ x.frames \in Seq(Frame)
      BY <2>1 DEF Sound, IsWindow
    <3>2. \A i \in DOMAIN x.frames : x.frames[i] \in Frame
      BY <3>1
    <3> QED BY <3>1, <3>2 DEF Frame, FrameId
  <2> QED BY <2>1
<1>2. Within(u, w)
  BY DEF Released, Within
<1>3. \A i \in DOMAIN u.frames :
        \/ i \in DOMAIN w.frames /\ u.frames[i] = w.frames[i]
        \/ w.nextId <= u.frames[i].id /\ u.frames[i].id < u.nextId
  <2> SUFFICES ASSUME NEW i \in DOMAIN u.frames
               PROVE  \/ i \in DOMAIN w.frames /\ u.frames[i] = w.frames[i]
                      \/ w.nextId <= u.frames[i].id /\ u.frames[i].id < u.nextId
    OBVIOUS
  <2>1. CASE v.nextId <= u.frames[i].id /\ u.frames[i].id < u.nextId
    BY <1>1, <2>1 DEF Released
  <2>2. CASE i \in DOMAIN v.frames /\ u.frames[i] = v.frames[i]
    BY <1>1, <2>2 DEF Released
  <2> QED BY <2>1, <2>2 DEF Released
<1> QED BY <1>1, <1>2, <1>3 DEF Released

\* Whatever one frame completed, no complete keyframe is left.
LEMMA ReleaseIs ==
  ASSUME NEW w, NEW r, NEW t, IsPosition(r, t), Sound(w, r, t)
  PROVE  /\ Released(Release(w), w)
         /\ \A k : CompleteKeyframes(w) \subseteq {k}
                     => CompleteKeyframes(Release(w)) = {}
<1> DEFINE a == ReleaseRun(w)
           b == ReleaseKeyframe(a)
           c == ReleaseRun(b)
<1>1. Sound(a, r, t) /\ Released(a, w)
  BY ReleaseRunSound, ReleaseRunIs
<1> HIDE DEF a
<1>2. /\ Sound(b, r, t) /\ Released(b, a)
      /\ \A k : CompleteKeyframes(a) \subseteq {k} => CompleteKeyframes(b) = {}
  BY <1>1, ReleaseKeyframeSound, ReleaseKeyframeIs
<1> HIDE DEF b
<1>3. Sound(c, r, t) /\ Released(c, b)
  BY <1>2, ReleaseRunSound, ReleaseRunIs
<1> HIDE DEF c
<1>4. Released(b, w)
  BY <1>1, <1>2, ReleasedTwice
<1>5. Released(c, w)
  BY <1>2, <1>3, <1>4, ReleasedTwice
<1>6. /\ CompleteKeyframes(a) \subseteq CompleteKeyframes(w)
      /\ CompleteKeyframes(c) \subseteq CompleteKeyframes(b)
  BY <1>1, <1>3 DEF Released, Within, CompleteKeyframes, CompleteIds
<1>7. Release(w) = c
  BY DEF Release, a, b, c
<1> QED BY <1>2, <1>5, <1>6, <1>7

\* With the chain broken and no complete keyframe held there is nothing to
\* release: giving frames up only drops them.
LEMMA GiveUpThroughIs ==
  ASSUME NEW w, NEW r, NEW t, IsPosition(r, t), Sound(w, r, t),
         CompleteKeyframes(w) = {}, NEW id \in Nat
  PROVE  GiveUpThrough(w, id) = BreakChain(Lose(w, id + 1), id + 1)
<1> DEFINE b == BreakChain(Lose(w, id + 1), id + 1)
<1>1. Within(b, w) /\ b.needKeyframe
  BY LoseAndBreakIs DEF Sound
<1> HIDE DEF b
<1>2. CompleteKeyframes(b) = {}
  BY <1>1 DEF Within, CompleteKeyframes, CompleteIds
<1>3. ReleaseRun(b) = b /\ ReleaseKeyframe(b) = b
  BY <1>1, <1>2 DEF ReleaseRun, ReleaseKeyframe
<1>4. Release(b) = b
  BY <1>3 DEF Release
<1> QED BY <1>4 DEF GiveUpThrough, b

-----------------------------------------------------------------------------
(* What is missing is asked for.                                           *)

\* The slot Ask leaves: the same frame, asked for in full.
LEMMA AskIs ==
  ASSUME NEW w, IsWindow(w), NEW id \in Held(w), Waits(w.slots[id])
  PROVE  LET s == w.slots[id]
             n == Ask(w, id).slot
         IN  /\ n.total = s.total /\ n.got = s.got /\ n.key = s.key
             /\ Waits(n)
             /\ IsMissing(s, TailKnown(w, id)) =>
                  /\ n.since # None
                  /\ IF Sized(s) THEN Missing(s, TailKnown(w, id)) \subseteq n.asked
                                 ELSE n.askedWhole
<1> DEFINE s == w.slots[id]
           missing == Missing(s, TailKnown(w, id))
           retry == RetryAllowed(w, s)
           whole == (~s.askedWhole \/ retry) /\ s.rounds < MaxNackRounds
           frags == IF retry THEN missing ELSE missing \ s.asked
           marked == MarkMissing(s)
           rounds == IF retry \/ marked.rounds = 0 THEN marked.rounds + 1
                     ELSE marked.rounds
           n == Ask(w, id).slot
<1>1. IsSlot(s) /\ IsSlot(marked) /\ Waits(s)
  BY MarkedIsSlot DEF IsWindow
<1>2. /\ marked.total = s.total /\ marked.got = s.got /\ marked.key = s.key
      /\ marked.rounds = s.rounds /\ marked.askedWhole = s.askedWhole
      /\ marked.asked = s.asked /\ marked.since # None
  BY <1>1 DEF MarkMissing, IsSlot, Slot, None
<1>3. MaxNackRounds \in Nat /\ MaxNackRounds >= 1 /\ 0 # None
  BY ConfigAssumption DEF None
<1>4. ASSUME NEW x, x.total = s.total PROVE Sized(x) <=> Sized(s)
  BY <1>4 DEF Sized
<1>5. CASE ~Sized(s)
  <2>1. n = IF whole THEN [marked EXCEPT !.askedWhole = TRUE, !.rounds = @ + 1,
                                         !.lastNack = 0]
            ELSE s
    BY <1>5 DEF Ask
  <2>2. CASE whole
    <3>1. /\ n.total = s.total /\ n.got = s.got /\ n.key = s.key
          /\ n.since = marked.since /\ n.askedWhole
      <4> HIDE DEF whole, marked, n, s
      <4> QED BY <1>1, <1>2, <2>1, <2>2 DEF IsSlot, Slot
    <3> HIDE DEF whole, marked, n, s
    <3> QED BY <1>2, <1>5, <3>1 DEF Waits, s, n
  <2>3. CASE ~whole
    <3>1. n = s
      BY <2>1, <2>3
    <3>2. s.rounds \in Nat
      BY <1>1 DEF IsSlot, Slot
    <3>3. s.askedWhole \/ s.rounds > 0
      BY <1>3, <2>3, <3>2
    <3>4. s.since # None /\ s.askedWhole
      BY <1>1, <1>5, <3>3 DEF Waits
    <3> HIDE DEF n, s, whole
    <3> QED BY <1>1, <1>5, <3>1, <3>4 DEF n, s
  <2> QED BY <2>2, <2>3
<1>6. CASE Sized(s) /\ missing = {}
  <2>1. n = [s EXCEPT !.since = None]
    BY <1>6 DEF Ask
  <2>2. ~IsMissing(s, TailKnown(w, id))
    BY <1>6 DEF IsMissing
  <2> HIDE DEF n, s
  <2>3. n.total = s.total /\ n.got = s.got /\ n.key = s.key
    BY <1>1, <2>1 DEF IsSlot, Slot
  <2>4. Waits(n)
    BY <1>4, <1>6, <2>3 DEF Waits
  <2> QED BY <2>2, <2>3, <2>4 DEF n, s
<1>7. CASE Sized(s) /\ missing # {}
  <2>1. n = IF frags = {} THEN marked
            ELSE [marked EXCEPT !.rounds = rounds, !.asked = @ \cup frags,
                                !.lastNack = 0]
    BY <1>7 DEF Ask
  <2>2. frags = {} => missing \subseteq s.asked
    BY <1>7
  <2>3. missing \subseteq s.asked \cup frags
    OBVIOUS
  <2> HIDE DEF n, marked, frags, rounds, missing
  <2>4. /\ n.total = s.total /\ n.got = s.got /\ n.key = s.key
        /\ n.since # None /\ missing \subseteq n.asked
    <3> HIDE DEF s
    <3>1. CASE frags = {}
      BY <1>2, <2>1, <2>2, <3>1
    <3>2. CASE frags # {}
      BY <1>1, <1>2, <2>1, <2>3, <3>2 DEF IsSlot, Slot
    <3> QED BY <3>1, <3>2
  <2>5. Waits(n)
    BY <1>4, <1>7, <2>4 DEF Waits
  <2> QED BY <1>7, <2>4, <2>5 DEF n, missing
<1> QED BY <1>5, <1>6, <1>7

\* Windows whose frames have the same fragments wait for the same ones.
LEMMA SameFragments ==
  ASSUME NEW v, NEW w, Held(v) = Held(w), v.highestSeen = w.highestSeen,
         \A id \in Held(w) : /\ v.slots[id].total = w.slots[id].total
                             /\ v.slots[id].got = w.slots[id].got
                             /\ v.slots[id].key = w.slots[id].key
  PROVE  /\ CompleteIds(v) = CompleteIds(w)
         /\ CompleteKeyframes(v) = CompleteKeyframes(w)
         /\ \A id \in Held(w) :
              /\ Recoverable(v, id) <=> Recoverable(w, id)
              /\ Sized(v.slots[id]) <=> Sized(w.slots[id])
              /\ TailKnown(v, id) <=> TailKnown(w, id)
              /\ Missing(v.slots[id], TailKnown(v, id)) =
                   Missing(w.slots[id], TailKnown(w, id))
              /\ IsMissing(v.slots[id], TailKnown(v, id)) <=>
                   IsMissing(w.slots[id], TailKnown(w, id))
<1>1. \A id \in Held(w) : /\ Complete(v.slots[id]) <=> Complete(w.slots[id])
                          /\ Sized(v.slots[id]) <=> Sized(w.slots[id])
  BY DEF Complete, Sized
<1>2. CompleteIds(v) = CompleteIds(w)
  BY <1>1 DEF CompleteIds
<1>3. CompleteKeyframes(v) = CompleteKeyframes(w)
  BY <1>2 DEF CompleteKeyframes, CompleteIds
<1>4. ASSUME NEW id \in Held(w)
      PROVE  /\ Recoverable(v, id) <=> Recoverable(w, id)
             /\ TailKnown(v, id) <=> TailKnown(w, id)
             /\ Missing(v.slots[id], TailKnown(v, id)) =
                  Missing(w.slots[id], TailKnown(w, id))
             /\ IsMissing(v.slots[id], TailKnown(v, id)) <=>
                  IsMissing(w.slots[id], TailKnown(w, id))
  <2>1. Recoverable(v, id) <=> Recoverable(w, id)
    BY <1>2 DEF Recoverable
  <2>2. TailKnown(v, id) <=> TailKnown(w, id)
    BY DEF TailKnown
  <2>3. Missing(v.slots[id], TailKnown(v, id)) = Missing(w.slots[id], TailKnown(w, id))
    BY DEF Missing, TailKnown
  <2>4. IsMissing(v.slots[id], TailKnown(v, id)) <=>
          IsMissing(w.slots[id], TailKnown(w, id))
    BY <1>1, <2>3 DEF IsMissing
  <2> QED BY <2>1, <2>2, <2>3, <2>4
<1> QED BY <1>1, <1>2, <1>3, <1>4

LEMMA RequestMissingIs ==
  ASSUME NEW w, IsWindow(w), \A id \in Held(w) : Waits(w.slots[id])
  PROVE  /\ Held(RequestMissing(w)) = Held(w)
         /\ CompleteKeyframes(RequestMissing(w)) = CompleteKeyframes(w)
         /\ \A id \in Held(w) : Waits(RequestMissing(w).slots[id])
         /\ HolesAsked(RequestMissing(w))
         /\ RequestMissing(w).lost = w.lost
         /\ RequestMissing(w).nextId = w.nextId
         /\ RequestMissing(w).frames = w.frames
<1> DEFINE eligible == {id \in Held(w) : /\ Recoverable(w, id)
                                         /\ WorthAsking(w, w.slots[id])}
           asking == {id \in eligible : Ask(w, id).send}
           m == [id \in Held(w) |-> IF id \in eligible THEN Ask(w, id).slot
                                    ELSE w.slots[id]]
           sent == {[frame |-> id, frags |-> Ask(w, id).frags] : id \in asking}
           v == RequestMissing(w)
<1>1. v = [w EXCEPT !.slots = m, !.nacks = @ \cup sent]
  BY DEF RequestMissing
<1>2. \A id \in eligible : m[id] = Ask(w, id).slot
  OBVIOUS
<1>3. \A id \in Held(w) : id \notin eligible => m[id] = w.slots[id]
  OBVIOUS
<1>4. DOMAIN m = Held(w)
  OBVIOUS
<1>5. \A id \in Held(w) :
        id \in eligible <=> Recoverable(w, id) /\ WorthAsking(w, w.slots[id])
  OBVIOUS
<1> HIDE DEF m, sent, v, eligible
<1>6. /\ v.slots = m /\ v.lost = w.lost /\ v.nextId = w.nextId
      /\ v.frames = w.frames /\ v.highestSeen = w.highestSeen
      /\ v.needKeyframe = w.needKeyframe
  BY <1>1 DEF IsWindow
<1>7. Held(v) = Held(w)
  BY <1>4, <1>6 DEF Held
<1>8. \A id \in Held(w) :
        /\ v.slots[id].total = w.slots[id].total
        /\ v.slots[id].got = w.slots[id].got
        /\ v.slots[id].key = w.slots[id].key
        /\ Waits(v.slots[id])
  BY <1>2, <1>3, <1>6, AskIs
<1>9. /\ CompleteKeyframes(v) = CompleteKeyframes(w)
      /\ \A id \in Held(w) :
           /\ Recoverable(v, id) <=> Recoverable(w, id)
           /\ Sized(v.slots[id]) <=> Sized(w.slots[id])
           /\ Missing(v.slots[id], TailKnown(v, id)) =
                Missing(w.slots[id], TailKnown(w, id))
           /\ IsMissing(v.slots[id], TailKnown(v, id)) <=>
                IsMissing(w.slots[id], TailKnown(w, id))
  BY <1>6, <1>7, <1>8, SameFragments, Zenon
<1>10. HolesAsked(v)
  <2> SUFFICES ASSUME NEW id \in Held(w), Recoverable(v, id),
                      WorthAsking(v, v.slots[id]),
                      IsMissing(v.slots[id], TailKnown(v, id))
               PROVE  /\ v.slots[id].since # None
                      /\ IF Sized(v.slots[id])
                         THEN Missing(v.slots[id], TailKnown(v, id))
                                \subseteq v.slots[id].asked
                         ELSE v.slots[id].askedWhole
    BY <1>7, Zenon DEF HolesAsked
  <2>1. WorthAsking(w, w.slots[id])
    BY <1>6, <1>8, <1>9 DEF WorthAsking
  <2>2. v.slots[id] = Ask(w, id).slot
    BY <1>2, <1>5, <1>6, <1>9, <2>1
  <2>3. IsMissing(w.slots[id], TailKnown(w, id))
    BY <1>9
  <2> QED BY <1>9, <2>2, <2>3, AskIs
<1> QED BY <1>6, <1>7, <1>8, <1>9, <1>10 DEF v

-----------------------------------------------------------------------------
(* The window is kept within its capacity.                                 *)

LEMMA HeldFinite ==
  ASSUME NEW w, NEW r, NEW t, Sound(w, r, t)
  PROVE  /\ IsFiniteSet(Held(w))
         /\ Held(w) \subseteq 0 .. w.highestSeen
<1>1. w.highestSeen \in Nat /\ Held(w) \subseteq 0 .. w.highestSeen
  BY DEF Sound, IsWindow, FrameId
<1>2. IsFiniteSet(0 .. w.highestSeen)
  BY <1>1, FS_Interval
<1> QED BY <1>1, <1>2, FS_Subset

\* A window that lost frames, but none that a frame it kept waits behind.
LEMMA FewerAsked ==
  ASSUME NEW v, NEW w, Within(v, w), HolesAsked(w),
         \A id \in Held(v) : \A k \in Held(w) :
           k > id /\ w.slots[k].key => k \in Held(v),
         \A id \in Held(v) : WorthAsking(v, v.slots[id])
                               => WorthAsking(w, w.slots[id])
  PROVE  HolesAsked(v)
<1>1. ASSUME NEW id \in Held(v), Recoverable(v, id) PROVE Recoverable(w, id)
  BY <1>1 DEF Within, Recoverable, CompleteIds
<1>2. \A id \in Held(v) :
        /\ id \in Held(w) /\ v.slots[id] = w.slots[id]
        /\ TailKnown(v, id) = TailKnown(w, id)
  BY DEF Within, TailKnown
<1> QED BY <1>1, <1>2 DEF HolesAsked

LEMMA SoundTypes ==
  ASSUME NEW w, NEW r, NEW t, Sound(w, r, t)
  PROVE  /\ IsWindow(w) /\ w.nextId \in Nat /\ w.lost \subseteq Nat
         /\ Held(w) \subseteq Nat /\ \A id \in Held(w) : w.nextId <= id
         /\ \A i \in DOMAIN w.frames : w.frames[i].id \in Nat
<1>1. IsWindow(w) /\ w.frames \in Seq(Frame)
  BY DEF Sound, IsWindow
<1>2. \A i \in DOMAIN w.frames : w.frames[i] \in Frame
  BY <1>1
<1>3. \A i \in DOMAIN w.frames : w.frames[i].id \in Nat
  BY <1>2 DEF Frame, FrameId
<1>4. w.nextId \in Nat /\ w.lost \subseteq Nat /\ Held(w) \subseteq Nat
  BY <1>1 DEF IsWindow, FrameId
<1>5. \A id \in Held(w) : w.nextId <= id
  BY DEF Sound
<1> QED BY <1>1, <1>3, <1>4, <1>5

\* The cut of enforce_capacity exists: above the newest frame nothing is held.
LEMMA CutIs ==
  ASSUME NEW w, NEW r, NEW t, Sound(w, r, t)
  PROVE  LET cut == Min({id \in 0 .. w.highestSeen :
                     Cardinality({i \in Held(w) : i > id}) <= MaxHeldFrames})
         IN  /\ cut \in Nat
             /\ Cardinality({i \in Held(w) : i > cut}) <= MaxHeldFrames
<1> DEFINE S == {id \in 0 .. w.highestSeen :
                   Cardinality({i \in Held(w) : i > id}) <= MaxHeldFrames}
<1>1. w.highestSeen \in Nat /\ Held(w) \subseteq Nat
  BY DEF Sound, IsWindow, FrameId
<1>2. {i \in Held(w) : i > w.highestSeen} = {}
  BY <1>1 DEF Sound
<1>3. Cardinality({i \in Held(w) : i > w.highestSeen}) <= MaxHeldFrames
  BY <1>2, FS_EmptySet, ConfigAssumption
<1>4. w.highestSeen \in S /\ S \in SUBSET Nat
  BY <1>1, <1>3
<1>5. Min(S) \in S
  <2> HIDE DEF S
  <2> QED BY <1>4, MinNat
<1> QED BY <1>1, <1>5

LEMMA EnforceCapacityIs ==
  ASSUME NEW w, NEW r, NEW t, IsPosition(r, t), Sound(w, r, t),
         CompleteKeyframes(w) = {}, HolesAsked(w)
  PROVE  /\ Within(EnforceCapacity(w), w)
         /\ HolesAsked(EnforceCapacity(w))
         /\ Cardinality(Held(EnforceCapacity(w))) <= MaxHeldFrames
<1> DEFINE cut == Min({id \in 0 .. w.highestSeen :
                     Cardinality({i \in Held(w) : i > id}) <= MaxHeldFrames})
           v == BreakChain(Lose(w, cut + 1), cut + 1)
<1>1. CASE Cardinality(Held(w)) <= MaxHeldFrames
  <2>1. EnforceCapacity(w) = w
    BY <1>1 DEF EnforceCapacity
  <2> QED BY <1>1, <2>1 DEF Within
<1>2. CASE ~(Cardinality(Held(w)) <= MaxHeldFrames)
  <2>1. EnforceCapacity(w) = GiveUpThrough(w, cut)
    BY <1>2 DEF EnforceCapacity
  <2>2. cut \in Nat /\ Cardinality({i \in Held(w) : i > cut}) <= MaxHeldFrames
    BY CutIs
  <2> HIDE DEF cut
  <2>3. EnforceCapacity(w) = v /\ cut + 1 \in Nat
    BY <2>1, <2>2, GiveUpThroughIs
  <2>4. /\ Within(v, w) /\ Held(v) = {i \in Held(w) : i >= cut + 1}
        /\ v.needKeyframe
    BY <2>3, LoseAndBreakIs DEF Sound
  <2> HIDE DEF v
  <2>5. Held(w) \subseteq Nat
    BY SoundTypes
  <2>6. Held(v) = {i \in Held(w) : i > cut}
    BY <2>2, <2>4, <2>5
  <2>7. HolesAsked(v)
    <3>1. \A id \in Held(v) : \A k \in Held(w) : k > id => k \in Held(v)
      BY <2>2, <2>5, <2>6
    <3>2. \A id \in Held(v) : WorthAsking(v, v.slots[id])
                                => WorthAsking(w, w.slots[id])
      BY <2>4 DEF WorthAsking, Within
    <3> QED BY <2>4, <3>1, <3>2, FewerAsked
  <2> QED BY <2>2, <2>3, <2>4, <2>6, <2>7
<1> QED BY <1>1, <1>2

LEMMA GiveUpExpiredIs ==
  ASSUME NEW w, NEW r, NEW t, IsPosition(r, t), Sound(w, r, t),
         CompleteKeyframes(w) = {}
  PROVE  Within(GiveUpExpired(w), w)
<1>1. CASE Expired(w) = {}
  BY <1>1 DEF GiveUpExpired, Within
<1>2. CASE Expired(w) # {}
  <2>1. Expired(w) \subseteq 0 .. w.highestSeen /\ w.highestSeen \in Nat
    BY DEF Expired, Sound, IsWindow, FrameId
  <2>2. Max(Expired(w)) \in Nat
    BY <1>2, <2>1, MaxNat
  <2> DEFINE cut == Max(Expired(w))
  <2>3. cut + 1 \in Nat
    BY <2>2
  <2>4. GiveUpExpired(w) = GiveUpThrough(w, cut)
    BY <1>2 DEF GiveUpExpired
  <2> HIDE DEF cut
  <2>5. GiveUpThrough(w, cut) = BreakChain(Lose(w, cut + 1), cut + 1)
    BY <2>2, GiveUpThroughIs DEF cut
  <2>6. Within(BreakChain(Lose(w, cut + 1), cut + 1), w)
    BY <2>3, LoseAndBreakIs DEF Sound
  <2> QED BY <2>4, <2>5, <2>6
<1> QED BY <1>1, <1>2

LEMMA WithinTidy ==
  ASSUME NEW v, NEW w, Within(v, w), Tidy(w)
  PROVE  Tidy(v)
BY WithinCarried, CarriedTidy

LEMMA WithinFewer ==
  ASSUME NEW v, NEW w, NEW r, NEW t, Within(v, w), Sound(w, r, t),
         Cardinality(Held(w)) <= MaxHeldFrames
  PROVE  Cardinality(Held(v)) <= MaxHeldFrames
<1>1. IsFiniteSet(Held(w)) /\ Held(v) \subseteq Held(w)
  BY HeldFinite DEF Within
<1>2. /\ Cardinality(Held(v)) <= Cardinality(Held(w))
      /\ Cardinality(Held(v)) \in Nat /\ Cardinality(Held(w)) \in Nat
  BY <1>1, FS_Subset, FS_CardinalityType
<1> QED BY <1>2, ConfigAssumption

-----------------------------------------------------------------------------
(* Frames handed out and frames counted as lost.                           *)

\* In a call that began with next_id n.
Counted(w, n) ==
  /\ n <= w.nextId
  /\ \A id \in w.lost : /\ n <= id /\ id < w.nextId
                        /\ \A i \in DOMAIN w.frames : w.frames[i].id # id
  /\ \A i \in DOMAIN w.frames : w.frames[i].id < w.nextId

LEMMA ReleasedCounted ==
  ASSUME NEW v, NEW w, NEW r, NEW t, NEW n \in Nat, Sound(v, r, t),
         Sound(w, r, t), Released(v, w), Counted(w, n)
  PROVE  Counted(v, n)
<1>1. /\ v.nextId \in Nat /\ w.nextId \in Nat /\ v.nextId >= w.nextId
      /\ v.lost = w.lost /\ w.lost \subseteq Nat
      /\ \A i \in DOMAIN v.frames : v.frames[i].id \in Nat
  BY SoundTypes DEF Released
<1>2. n <= v.nextId
  BY <1>1 DEF Counted
<1>3. \A id \in v.lost : n <= id /\ id < w.nextId /\ id < v.nextId
  BY <1>1 DEF Counted
<1>4. \A i \in DOMAIN v.frames :
        \/ i \in DOMAIN w.frames /\ v.frames[i] = w.frames[i]
        \/ w.nextId <= v.frames[i].id /\ v.frames[i].id < v.nextId
  BY DEF Released
<1>5. \A i \in DOMAIN v.frames : v.frames[i].id < v.nextId
  BY <1>1, <1>4 DEF Counted
<1>6. \A id \in v.lost : \A i \in DOMAIN v.frames : v.frames[i].id # id
  BY <1>1, <1>3, <1>4 DEF Counted
<1> QED BY <1>2, <1>3, <1>5, <1>6 DEF Counted

LEMMA GivenUpCounted ==
  ASSUME NEW w, NEW r, NEW t, NEW n \in Nat, NEW id \in Nat, Sound(w, r, t),
         Counted(w, n)
  PROVE  Counted(BreakChain(Lose(w, id), id), n)
<1> DEFINE v == BreakChain(Lose(w, id), id)
           gone == {i \in Held(w) \ CompleteIds(w) : i < id}
<1>1. /\ IsWindow(w) /\ w.nextId \in Nat /\ w.lost \subseteq Nat
      /\ Held(w) \subseteq Nat /\ \A i \in Held(w) : w.nextId <= i
      /\ \A i \in DOMAIN w.frames : w.frames[i].id \in Nat
  BY SoundTypes
<1>2. /\ v.nextId = IF id > w.nextId THEN id ELSE w.nextId
      /\ v.frames = w.frames /\ v.lost = w.lost \cup gone
  BY <1>1, LoseAndBreakIs
<1>3. \A i \in gone : i \in Nat /\ w.nextId <= i /\ i < id
  BY <1>1
<1> HIDE DEF v, gone
<1>4. v.nextId \in Nat /\ v.nextId >= w.nextId /\ v.nextId >= id
  BY <1>1, <1>2
<1>5. /\ n <= w.nextId
      /\ \A i \in w.lost : /\ n <= i /\ i < w.nextId
                           /\ \A j \in DOMAIN w.frames : w.frames[j].id # i
      /\ \A j \in DOMAIN w.frames : w.frames[j].id < w.nextId
  BY DEF Counted
<1>6. n <= v.nextId /\ \A j \in DOMAIN v.frames : v.frames[j].id < v.nextId
  BY <1>1, <1>2, <1>4, <1>5
<1>7. \A i \in w.lost : n <= i /\ i < v.nextId
  BY <1>1, <1>4, <1>5
<1>8. \A i \in gone : n <= i /\ i < v.nextId
  BY <1>1, <1>3, <1>4, <1>5
<1>9. \A i \in gone : \A j \in DOMAIN v.frames : v.frames[j].id # i
  BY <1>1, <1>2, <1>3, <1>5
<1>10. Counted(v, n)
  BY <1>2, <1>5, <1>6, <1>7, <1>8, <1>9 DEF Counted
<1> QED BY <1>10 DEF v

LEMMA GiveUpThroughCounted ==
  ASSUME NEW w, NEW r, NEW t, NEW n \in Nat, NEW id \in Nat, IsPosition(r, t),
         Sound(w, r, t), Counted(w, n)
  PROVE  Counted(GiveUpThrough(w, id), n)
<1> DEFINE b == BreakChain(Lose(w, id + 1), id + 1)
<1>1. id + 1 \in Nat
  OBVIOUS
<1>2. Sound(b, r, t) /\ Counted(b, n)
  BY <1>1, LoseAndBreakSound, GivenUpCounted
<1> HIDE DEF b
<1>3. Sound(Release(b), r, t) /\ Released(Release(b), b)
  BY <1>2, ReleaseSound, ReleaseIs
<1>4. Counted(Release(b), n)
  BY <1>2, <1>3, ReleasedCounted
<1> QED BY <1>4 DEF GiveUpThrough, b

LEMMA NoteNewFrameCounted ==
  ASSUME NEW w, NEW r, NEW t, NEW n \in Nat, IsPosition(r, t), Sound(w, r, t),
         Counted(w, n), NEW h \in Headers
  PROVE  Counted(NoteNewFrame(w, h), n)
<1> DEFINE m == NoteNewFrame(w, h)
<1> SUFFICES Counted(m, n)
  OBVIOUS
<1> HIDE DEF m
<1>1. IsWindow(w) /\ \A id \in Held(w) : w.nextId <= id /\ id <= w.highestSeen
  BY DEF Sound
<1>2. PICK v :
        /\ IsWindow(v) /\ v.slots = w.slots /\ v.nextId = w.nextId
        /\ v.needKeyframe = w.needKeyframe /\ v.frames = w.frames /\ v.lost = w.lost
        /\ \/ /\ h.frame <= w.highestSeen /\ v.highestSeen = w.highestSeen
              /\ m = v
           \/ /\ h.frame > w.highestSeen /\ v.highestSeen = h.frame
              /\ \/ m = v
                 \/ m = TailsMissing(v)
                 \/ m = DropBelow(TailsMissing(v), h.frame)
                 \/ m = BreakChain(Lose(TailsMissing(v), h.frame), h.frame)
                 \/ m = FillGap(TailsMissing(v), w.highestSeen, h.frame)
  BY <1>1, NotedIs DEF m
<1>3. h.frame \in Nat /\ w.highestSeen \in Nat /\ Held(w) \subseteq Nat
  BY <1>1, ConfigAssumption DEF Header, FrameId, IsWindow
<1> DEFINE u == TailsMissing(v)
<1>4. /\ IsWindow(u) /\ Held(u) = Held(w) /\ u.nextId = w.nextId
      /\ u.needKeyframe = w.needKeyframe /\ u.highestSeen = v.highestSeen
      /\ u.frames = w.frames /\ u.lost = w.lost
  BY <1>2, TailsMissingSound, TailsCarried DEF Held
<1> HIDE DEF u
<1>5. h.frame > w.highestSeen => Sound(u, r, t)
  <2> SUFFICES ASSUME h.frame > w.highestSeen PROVE Sound(u, r, t)
    OBVIOUS
  <2>1. v.highestSeen = h.frame
    BY <1>2, <1>3
  <2>2. \A id \in Held(u) : w.nextId <= id /\ id <= u.highestSeen
    BY <1>1, <1>3, <1>4, <2>1
  <2> QED BY <1>4, <2>2, SlotsRewritten
<1>6. Counted(v, n) /\ Counted(u, n)
  BY <1>2, <1>4 DEF Counted
<1>7. CASE m = v
  BY <1>6, <1>7
<1>8. CASE m = u
  BY <1>6, <1>8
<1>9. CASE m = DropBelow(u, h.frame)
  <2>1. m.nextId = u.nextId /\ m.frames = u.frames /\ m.lost = u.lost
    BY <1>4, <1>9 DEF DropBelow, IsWindow
  <2> QED BY <1>6, <2>1 DEF Counted
<1>10. CASE h.frame > w.highestSeen /\ m = BreakChain(Lose(u, h.frame), h.frame)
  BY <1>3, <1>5, <1>6, <1>10, GivenUpCounted
<1>11. CASE m = FillGap(u, w.highestSeen, h.frame)
  <2>1. m.nextId = u.nextId /\ m.frames = u.frames /\ m.lost = u.lost
    BY <1>4, <1>11 DEF FillGap, IsWindow
  <2> QED BY <1>6, <2>1 DEF Counted
<1> QED BY <1>2, <1>7, <1>8, <1>9, <1>10, <1>11 DEF u

-----------------------------------------------------------------------------
(* The calls.                                                              *)

LEMMA InsertedIs ==
  ASSUME NEW w, NEW r, NEW t, NEW n \in Nat, IsPosition(r, t), Sound(w, r, t),
         Tidy(w), Counted(w, n), NEW h \in Headers, Accepted(w, h),
         ~Redundant(NoteNewFrame(w, h), h)
  PROVE  /\ Tidy(Inserted(w, h)) /\ HolesAsked(Inserted(w, h))
         /\ Cardinality(Held(Inserted(w, h))) <= MaxHeldFrames
         /\ Counted(Inserted(w, h), n)
<1> DEFINE a == NoteNewFrame(w, h)
           b == Store(a, h)
           c == Release(b)
           d == RequestMissing(c)
           e == EnforceCapacity(d)
<1>1. Valid(h) /\ h.frame >= w.nextId
  BY DEF Accepted
<1>2. /\ Sound(a, r, t) /\ Carried(a, w) /\ Counted(a, n)
      /\ a.nextId <= h.frame /\ h.frame <= a.highestSeen
  BY <1>1, NoteNewFrameSound, NoteNewFrameCarried, NoteNewFrameCounted DEF Sound
<1>3. Tidy(a) /\ ~Redundant(a, h)
  BY <1>2, CarriedTidy
<1> HIDE DEF a
<1>4. /\ Sound(b, r, t)
      /\ \A id \in Held(b) : Waits(b.slots[id])
      /\ CompleteKeyframes(b) \subseteq {h.frame}
      /\ b.lost = a.lost
  BY <1>1, <1>2, <1>3, StoreSound, StoreIs DEF Sound
<1>5. b.nextId = a.nextId /\ b.frames = a.frames
  BY <1>2 DEF Store, Sound, IsWindow
<1> HIDE DEF b
<1>6. Counted(b, n)
  BY <1>2, <1>4, <1>5 DEF Counted
<1>7. Sound(c, r, t) /\ Released(c, b) /\ CompleteKeyframes(c) = {}
  BY <1>4, ReleaseSound, ReleaseIs
<1> HIDE DEF c
<1>8. Counted(c, n)
  BY <1>4, <1>6, <1>7, ReleasedCounted
<1>9. IsWindow(c) /\ \A id \in Held(c) : Waits(c.slots[id])
  BY <1>4, <1>7 DEF Released, Within, Sound
<1>10. Sound(d, r, t)
  BY <1>7, RequestMissingSound
<1>11. /\ Held(d) = Held(c) /\ CompleteKeyframes(d) = {} /\ HolesAsked(d)
       /\ \A id \in Held(c) : Waits(d.slots[id])
       /\ d.lost = c.lost /\ d.nextId = c.nextId /\ d.frames = c.frames
  BY <1>7, <1>9, RequestMissingIs
<1> HIDE DEF d
<1>12. Tidy(d) /\ Counted(d, n)
  BY <1>8, <1>11 DEF Tidy, Counted
<1>13. /\ Within(e, d) /\ HolesAsked(e)
       /\ Cardinality(Held(e)) <= MaxHeldFrames
  BY <1>10, <1>11, EnforceCapacityIs
<1>14. Tidy(e)
  BY <1>12, <1>13, WithinTidy
<1>15. Counted(e, n)
  <2>1. CASE Cardinality(Held(d)) <= MaxHeldFrames
    BY <1>12, <2>1 DEF EnforceCapacity
  <2>2. CASE ~(Cardinality(Held(d)) <= MaxHeldFrames)
    <3> DEFINE cut == Min({id \in 0 .. d.highestSeen :
                         Cardinality({i \in Held(d) : i > id}) <= MaxHeldFrames})
    <3>1. e = GiveUpThrough(d, cut)
      BY <2>2 DEF EnforceCapacity
    <3>2. cut \in Nat
      BY <1>10, CutIs
    <3> HIDE DEF cut, e
    <3> QED BY <1>10, <1>12, <3>1, <3>2, GiveUpThroughCounted
  <2> QED BY <2>1, <2>2
<1>16. Inserted(w, h) = e
  BY DEF Inserted, a, b, c, d
<1> HIDE DEF e
<1> QED BY <1>13, <1>14, <1>15, <1>16

\* A fragment that adds nothing belongs to a frame that was held already, so
\* only the keyframe timer is touched.
LEMMA RedundantIs ==
  ASSUME NEW w, NEW r, NEW t, Sound(w, r, t), NEW h \in Headers, Accepted(w, h),
         IsPosition(r, t), Redundant(NoteNewFrame(w, h), h)
  PROVE  LET v == NoteNewFrame(w, h)
         IN  /\ v.slots = w.slots /\ v.highestSeen = w.highestSeen
             /\ v.needKeyframe = w.needKeyframe /\ v.lost = w.lost
<1> DEFINE v == NoteNewFrame(w, h)
           s == SlotFor(v, h)
<1>1. IsWindow(w) /\ \A id \in Held(w) : id <= w.highestSeen
  BY DEF Sound
<1>2. IsWindow(v) /\ Carried(v, w)
  BY <1>1, NoteNewFrameSound, NoteNewFrameCarried DEF Accepted, Sound
<1>3. h.frame \in Held(w)
  <2> SUFFICES ASSUME h.frame \notin Held(w) PROVE FALSE
    OBVIOUS
  <2> HIDE DEF v
  <2> DEFINE o == IF h.frame \in Held(v) THEN v.slots[h.frame] ELSE UnknownSlot
  <2>1. IsSlot(o) /\ ~Sized(o)
    <3>1. CASE h.frame \in Held(v)
      BY <1>2, <3>1 DEF IsWindow, Carried
    <3>2. CASE h.frame \notin Held(v)
      BY <3>2, UnknownIsSlot DEF Sized, UnknownSlot
    <3> QED BY <3>1, <3>2
  <2>2. s = [o EXCEPT !.total = h.total]
    BY <2>1 DEF SlotFor
  <2>3. o.got = {}
    BY <2>1 DEF IsSlot, Slot, Sized
  <2> HIDE DEF o
  <2>4. s.total = h.total /\ s.got = {}
    BY <2>1, <2>2, <2>3 DEF IsSlot, Slot
  <2> QED BY <2>4 DEF Redundant, v
<1> QED BY <1>1, <1>3, NoteNewFrameCarried

LEMMA PolledIs ==
  ASSUME NEW w, NEW r, NEW t, NEW n \in Nat, IsPosition(r, t), Sound(w, r, t),
         Tidy(w), Counted(w, n), Cardinality(Held(w)) <= MaxHeldFrames
  PROVE  /\ Tidy(Polled(w)) /\ HolesAsked(Polled(w))
         /\ Cardinality(Held(Polled(w))) <= MaxHeldFrames
         /\ Counted(Polled(w), n)
<1> DEFINE a == GiveUpExpired(w)
           b == RequestMissing(a)
           c == RepeatKeyframeRequest(b)
<1>1. Sound(a, r, t) /\ Within(a, w)
  BY GiveUpExpiredSound, GiveUpExpiredIs DEF Tidy
<1>2. Counted(a, n)
  <2>1. CASE Expired(w) = {}
    BY <2>1 DEF GiveUpExpired
  <2>2. CASE Expired(w) # {}
    <3>1. Expired(w) \subseteq 0 .. w.highestSeen /\ w.highestSeen \in Nat
      BY DEF Expired, Sound, IsWindow, FrameId
    <3>2. Max(Expired(w)) \in Nat
      BY <2>2, <3>1, MaxNat
    <3> QED BY <2>2, <3>2, GiveUpThroughCounted DEF GiveUpExpired
  <2> QED BY <2>1, <2>2
<1> HIDE DEF a
<1>3. Tidy(a) /\ Cardinality(Held(a)) <= MaxHeldFrames
  BY <1>1, WithinTidy, WithinFewer
<1>4. Sound(b, r, t)
  BY <1>1, RequestMissingSound
<1>5. /\ Held(b) = Held(a) /\ CompleteKeyframes(b) = {} /\ HolesAsked(b)
      /\ \A id \in Held(a) : Waits(b.slots[id])
      /\ b.lost = a.lost /\ b.nextId = a.nextId /\ b.frames = a.frames
  BY <1>1, <1>3, RequestMissingIs DEF Tidy, Sound
<1> HIDE DEF b
<1>6. Tidy(b) /\ Counted(b, n)
  BY <1>2, <1>5 DEF Tidy, Counted
<1>7. /\ c.slots = b.slots /\ c.highestSeen = b.highestSeen
      /\ c.needKeyframe = b.needKeyframe /\ c.lost = b.lost
      /\ c.nextId = b.nextId /\ c.frames = b.frames
  BY <1>4 DEF RepeatKeyframeRequest, Sound, IsWindow
<1> HIDE DEF c
<1>8. Tidy(c) /\ Counted(c, n) /\ HolesAsked(c) /\ Held(c) = Held(b)
  BY <1>5, <1>6, <1>7 DEF Tidy, Counted, HolesAsked, Held, CompleteKeyframes,
    CompleteIds, Recoverable, WorthAsking, TailKnown
<1>9. Polled(w) = c
  BY DEF Polled, a, b, c
<1> QED BY <1>3, <1>5, <1>8, <1>9

-----------------------------------------------------------------------------
(* The specification.                                                      *)

\* The inductive invariant.  That every hole is asked for needs Tidy: a frame
\* of unknown size must have its deadline already when its rounds run out, and
\* the frames enforce_capacity drops must leave nothing to hand out.
CallInv == Inv /\ Tidy(rx) /\ KnownHolesAsked /\ WithinCapacity

LEMMA KnownIsAsked == KnownHolesAsked <=> HolesAsked(rx)
BY DEF KnownHolesAsked, HolesAsked

LEMMA InitCalls == Init => CallInv
<1> SUFFICES ASSUME Init PROVE CallInv
  OBVIOUS
<1>1. Inv
  BY InitInv
<1>2. Held(rx) = {}
  BY DEF Init, Held
<1>3. Tidy(rx)
  BY <1>2 DEF Tidy, CompleteKeyframes, CompleteIds
<1>4. KnownHolesAsked
  BY <1>2 DEF KnownHolesAsked
<1>5. WithinCapacity
  BY <1>2, FS_EmptySet, ConfigAssumption DEF WithinCapacity
<1> QED BY <1>1, <1>3, <1>4, <1>5 DEF CallInv

\* A call starts with nothing lost and nothing handed out.
LEMMA CallBegins ==
  ASSUME CallInv
  PROVE  LET w == Cleared(rx)
         IN  /\ Sound(w, ref, top) /\ IsPosition(ref, top)
             /\ rx.nextId \in Nat /\ w.nextId = rx.nextId
             /\ Tidy(w) /\ HolesAsked(w) /\ Counted(w, rx.nextId)
             /\ Cardinality(Held(w)) <= MaxHeldFrames
             /\ w.slots = rx.slots /\ w.highestSeen = rx.highestSeen
             /\ w.needKeyframe = rx.needKeyframe /\ w.lost = {}
             /\ \A h : Accepted(rx, h) <=> Accepted(w, h)
<1> DEFINE w == Cleared(rx)
<1>1. /\ Inv /\ Tidy(rx) /\ HolesAsked(rx)
      /\ Cardinality(Held(rx)) <= MaxHeldFrames
  BY KnownIsAsked DEF CallInv, WithinCapacity
<1>2. Sound(w, ref, top) /\ IsPosition(ref, top) /\ w.nextId = rx.nextId
  BY <1>1, CallStarts
<1>3. IsWindow(rx) /\ rx.nextId \in Nat
  BY <1>1 DEF Inv, TypeOK, IsWindow
<1>4. /\ w.slots = rx.slots /\ w.highestSeen = rx.highestSeen
      /\ w.needKeyframe = rx.needKeyframe /\ w.lost = {} /\ w.frames = << >>
  BY <1>3 DEF Cleared, IsWindow
<1> HIDE DEF w
<1>5. Held(w) = Held(rx)
  BY <1>4 DEF Held
<1>6. Tidy(w) /\ HolesAsked(w)
  BY <1>1, <1>4, <1>5 DEF Tidy, HolesAsked, CompleteKeyframes, CompleteIds,
    Recoverable, WorthAsking, TailKnown
<1>7. Counted(w, rx.nextId)
  BY <1>2, <1>3, <1>4 DEF Counted
<1>8. \A h : Accepted(rx, h) <=> Accepted(w, h)
  BY <1>2 DEF Accepted
<1> QED BY <1>1, <1>2, <1>3, <1>4, <1>5, <1>6, <1>7, <1>8 DEF w

\* LostForGood, of one step.
LostOnce ==
  /\ rx'.nextId >= rx.nextId
  /\ rx'.lost # rx.lost =>
       \A id \in rx'.lost : /\ rx.nextId <= id /\ id < rx'.nextId
                            /\ \A i \in DOMAIN handed' : handed'[i].id # id

LEMMA CallCloses ==
  ASSUME CallInv, NEW w, HandOut(w), Inv', Tidy(w), HolesAsked(w),
         Cardinality(Held(w)) <= MaxHeldFrames, Counted(w, rx.nextId)
  PROVE  CallInv' /\ LostOnce
<1>1. rx' = w /\ handed' = w.frames
  BY DEF HandOut
<1>2. rx'.nextId \in Nat /\ rx.nextId \in Nat
  BY DEF CallInv, Inv, TypeOK, IsWindow
<1>3. LostOnce
  BY <1>1, <1>2 DEF LostOnce, Counted
<1>4. KnownHolesAsked' <=> HolesAsked(rx')
  BY DEF KnownHolesAsked, HolesAsked
<1>5. Tidy(rx)' /\ KnownHolesAsked' /\ WithinCapacity'
  <2>1. Tidy(rx)'
    BY <1>1 DEF Tidy, CompleteKeyframes, CompleteIds, Held
  <2>2. KnownHolesAsked' /\ WithinCapacity'
    BY <1>1, <1>4 DEF WithinCapacity, Held
  <2> QED BY <2>1, <2>2
<1> QED BY <1>3, <1>5 DEF CallInv

LEMMA InsertCall == CallInv /\ (InsertFresh \/ InsertRedundant) => CallInv' /\ LostOnce
<1> SUFFICES ASSUME CallInv, InsertFresh \/ InsertRedundant
             PROVE  CallInv' /\ LostOnce
  OBVIOUS
<1> DEFINE w == Cleared(rx)
<1>1. PICK h \in Headers :
        /\ Accepted(rx, h)
        /\ \/ ~Redundant(NoteNewFrame(w, h), h) /\ HandOut(Inserted(w, h))
           \/ Redundant(NoteNewFrame(w, h), h) /\ HandOut(NoteNewFrame(w, h))
  BY DEF InsertFresh, InsertRedundant
<1>2. /\ Sound(w, ref, top) /\ IsPosition(ref, top)
      /\ rx.nextId \in Nat /\ Tidy(w) /\ HolesAsked(w) /\ Counted(w, rx.nextId)
      /\ Cardinality(Held(w)) <= MaxHeldFrames /\ Accepted(w, h)
  BY <1>1, CallBegins
<1>3. Inv'
  BY InsertStep DEF CallInv
<1> HIDE DEF w
<1>4. CASE ~Redundant(NoteNewFrame(w, h), h) /\ HandOut(Inserted(w, h))
  <2>1. /\ Tidy(Inserted(w, h)) /\ HolesAsked(Inserted(w, h))
        /\ Cardinality(Held(Inserted(w, h))) <= MaxHeldFrames
        /\ Counted(Inserted(w, h), rx.nextId)
    BY <1>2, <1>4, InsertedIs
  <2> QED BY <1>3, <1>4, <2>1, CallCloses
<1>5. CASE Redundant(NoteNewFrame(w, h), h) /\ HandOut(NoteNewFrame(w, h))
  <2> DEFINE v == NoteNewFrame(w, h)
  <2>1. /\ v.slots = w.slots /\ v.highestSeen = w.highestSeen
        /\ v.needKeyframe = w.needKeyframe
    BY <1>2, <1>5, RedundantIs
  <2>2. Counted(v, rx.nextId)
    BY <1>2, NoteNewFrameCounted
  <2> HIDE DEF v
  <2>3. Held(v) = Held(w)
    BY <2>1 DEF Held
  <2>4. Tidy(v) /\ HolesAsked(v) /\ Cardinality(Held(v)) <= MaxHeldFrames
    BY <1>2, <2>1, <2>3 DEF Tidy, HolesAsked, CompleteKeyframes, CompleteIds,
      Recoverable, WorthAsking, TailKnown
  <2> QED BY <1>3, <1>5, <2>2, <2>4, CallCloses DEF v
<1> QED BY <1>1, <1>4, <1>5

LEMMA PollCall == CallInv /\ Poll => CallInv' /\ LostOnce
<1> SUFFICES ASSUME CallInv, Poll PROVE CallInv' /\ LostOnce
  OBVIOUS
<1> DEFINE w == Cleared(rx)
<1>1. /\ Sound(w, ref, top) /\ IsPosition(ref, top)
      /\ rx.nextId \in Nat /\ Tidy(w) /\ Counted(w, rx.nextId)
      /\ Cardinality(Held(w)) <= MaxHeldFrames
  BY CallBegins
<1>2. Inv' /\ HandOut(Polled(w))
  BY PollStep DEF CallInv, Poll
<1> HIDE DEF w
<1>3. /\ Tidy(Polled(w)) /\ HolesAsked(Polled(w))
      /\ Cardinality(Held(Polled(w))) <= MaxHeldFrames
      /\ Counted(Polled(w), rx.nextId)
  BY <1>1, PolledIs
<1> QED BY <1>2, <1>3, CallCloses

\* A timer step changes neither which frames are held nor what is asked for.
LEMMA TimerCall ==
  ASSUME CallInv, Inv', Held(rx') = Held(rx), rx'.nextId = rx.nextId,
         rx'.lost = rx.lost, rx'.needKeyframe = rx.needKeyframe,
         rx'.highestSeen = rx.highestSeen,
         \A id \in Held(rx) :
           LET s == rx.slots[id]
               n == rx'.slots[id]
           IN  /\ n.total = s.total /\ n.got = s.got /\ n.key = s.key
               /\ n.asked = s.asked /\ n.askedWhole = s.askedWhole
               /\ n.rounds = s.rounds
               /\ s.since # None => n.since # None
  PROVE  CallInv' /\ LostOnce
<1> DEFINE v == rx'
<1>1. /\ CompleteKeyframes(v) = CompleteKeyframes(rx)
      /\ \A id \in Held(rx) :
           /\ Recoverable(v, id) <=> Recoverable(rx, id)
           /\ Sized(v.slots[id]) <=> Sized(rx.slots[id])
           /\ Missing(v.slots[id], TailKnown(v, id)) =
                Missing(rx.slots[id], TailKnown(rx, id))
           /\ IsMissing(v.slots[id], TailKnown(v, id)) <=>
                IsMissing(rx.slots[id], TailKnown(rx, id))
  BY SameFragments
<1>2. Tidy(v)
  <2>1. \A id \in Held(v) : Waits(v.slots[id])
    BY <1>1 DEF CallInv, Tidy, Waits
  <2> QED BY <1>1, <2>1 DEF CallInv, Tidy
<1>3. HolesAsked(rx)
  BY KnownIsAsked DEF CallInv
<1>4. \A id \in Held(rx) : WorthAsking(v, v.slots[id]) => WorthAsking(rx, rx.slots[id])
  BY <1>1 DEF WorthAsking
<1>5. HolesAsked(v)
  BY <1>1, <1>3, <1>4 DEF HolesAsked
<1>6. Cardinality(Held(v)) <= MaxHeldFrames
  BY DEF CallInv, WithinCapacity
<1>7. Tidy(rx)' /\ KnownHolesAsked' /\ WithinCapacity'
  <2>1. KnownHolesAsked' <=> HolesAsked(v)
    BY DEF KnownHolesAsked, HolesAsked
  <2>2. Tidy(rx)' <=> Tidy(v)
    BY DEF Tidy, CompleteKeyframes, CompleteIds, Held
  <2> QED BY <1>2, <1>5, <1>6, <2>1, <2>2 DEF WithinCapacity, Held
<1>8. rx.nextId \in Nat
  BY DEF CallInv, Inv, TypeOK, IsWindow
<1>9. LostOnce
  BY <1>8 DEF LostOnce
<1> QED BY <1>7, <1>9 DEF CallInv

LEMMA SetRttCall == CallInv /\ SetRtt => CallInv' /\ LostOnce
<1> SUFFICES ASSUME CallInv, SetRtt PROVE CallInv' /\ LostOnce
  OBVIOUS
<1>1. Inv' /\ IsWindow(rx)
  BY SetRttStep DEF CallInv, Inv, TypeOK
<1>2. PICK n : rx' = [rx EXCEPT !.rtt = n]
  BY DEF SetRtt
<1>3. /\ rx'.slots = rx.slots /\ rx'.nextId = rx.nextId /\ rx'.lost = rx.lost
      /\ rx'.needKeyframe = rx.needKeyframe /\ rx'.highestSeen = rx.highestSeen
  BY <1>1, <1>2 DEF IsWindow
<1>4. Held(rx') = Held(rx)
  BY <1>3 DEF Held
<1> QED BY <1>1, <1>3, <1>4, TimerCall

LEMMA TickCall == CallInv /\ Tick => CallInv' /\ LostOnce
<1> SUFFICES ASSUME CallInv, Tick PROVE CallInv' /\ LostOnce
  OBVIOUS
<1> DEFINE m == [id \in Held(rx) |-> Aged(rx.slots[id])]
           k == Older(rx.keyframeAsked)
<1>1. Inv' /\ IsWindow(rx)
  BY TickStep DEF CallInv, Inv, TypeOK
<1>2. rx' = [rx EXCEPT !.keyframeAsked = k, !.slots = m]
  BY DEF Tick
<1>3. DOMAIN m = Held(rx) /\ \A id \in Held(rx) : m[id] = Aged(rx.slots[id])
  OBVIOUS
<1> HIDE DEF m, k
<1>4. /\ rx'.slots = m /\ rx'.nextId = rx.nextId /\ rx'.lost = rx.lost
      /\ rx'.needKeyframe = rx.needKeyframe /\ rx'.highestSeen = rx.highestSeen
  BY <1>1, <1>2 DEF IsWindow
<1>5. Held(rx') = Held(rx)
  BY <1>3, <1>4 DEF Held
<1>6. ASSUME NEW s, IsSlot(s)
      PROVE  LET n == Aged(s)
             IN  /\ n.total = s.total /\ n.got = s.got /\ n.key = s.key
                 /\ n.asked = s.asked /\ n.askedWhole = s.askedWhole
                 /\ n.rounds = s.rounds
                 /\ s.since # None => n.since # None
  <2> DEFINE since == Older(s.since)
             lastNack == Older(s.lastNack)
  <2>1. Aged(s) = [s EXCEPT !.since = since, !.lastNack = lastNack]
    BY DEF Aged
  <2>2. s.since # None => since # None
    BY <1>6, AgeAssumption DEF Older, IsSlot, Slot, Age, None
  <2> HIDE DEF since, lastNack
  <2> QED BY <1>6, <2>1, <2>2 DEF IsSlot, Slot
<1>7. \A id \in Held(rx) : IsSlot(rx.slots[id])
  BY <1>1 DEF IsWindow
<1> QED BY <1>1, <1>3, <1>4, <1>5, <1>6, <1>7, TimerCall

LEMMA RequireKeyframeCall == CallInv /\ RequireKeyframe => CallInv' /\ LostOnce
<1> SUFFICES ASSUME CallInv, RequireKeyframe PROVE CallInv' /\ LostOnce
  OBVIOUS
<1> DEFINE w == Cleared(rx)
           kept == {id \in Held(w) : id > w.highestSeen \/ w.slots[id].key}
           floor == IF kept = {} THEN w.highestSeen + 1 ELSE Min(kept)
           next == IF floor > w.nextId THEN floor ELSE w.nextId
           m == Restrict(w.slots, kept)
           v == Requiring(w)
<1>1. /\ Sound(w, ref, top) /\ Tidy(w) /\ HolesAsked(w) /\ w.lost = {}
      /\ Cardinality(Held(w)) <= MaxHeldFrames /\ w.nextId = rx.nextId
  BY CallBegins
<1>2. Inv' /\ rx' = v
  BY RequireKeyframeStep DEF CallInv, RequireKeyframe
<1> HIDE DEF w
<1>3. /\ IsWindow(w) /\ w.nextId \in Nat /\ w.highestSeen \in Nat
      /\ Held(w) \subseteq FrameId
      /\ \A id \in Held(w) : id <= w.highestSeen
  BY <1>1 DEF Sound, IsWindow
<1>4. /\ Within(v, w) /\ v.needKeyframe /\ v.lost = {} /\ v.nextId >= w.nextId
      /\ \A id \in Held(v) : v.slots[id].key
      /\ \A id \in Held(w) : w.slots[id].key => id \in Held(v)
  <2>1. CASE w.highestSeen = 0
    <3>1. v = [w EXCEPT !.needKeyframe = TRUE, !.keyframeAsked = 0]
      BY <2>1 DEF Requiring
    <3> HIDE DEF v
    <3>2. /\ v.slots = w.slots /\ v.nextId = w.nextId /\ v.needKeyframe = TRUE
          /\ v.highestSeen = w.highestSeen /\ v.lost = w.lost
      BY <1>3, <3>1 DEF IsWindow
    <3>3. Held(w) = {} /\ Held(v) = {}
      BY <1>3, <2>1, <3>2 DEF Held, FrameId
    <3> QED BY <1>1, <1>3, <3>2, <3>3 DEF Within
  <2>2. CASE w.highestSeen # 0
    <3>1. v = [w EXCEPT !.slots = m, !.needKeyframe = TRUE, !.keyframeAsked = 0,
                        !.nextId = next]
      BY <2>2 DEF Requiring
    <3>2. /\ DOMAIN m = kept /\ kept \subseteq Held(w)
          /\ \A id \in kept : m[id] = w.slots[id]
      BY DEF Restrict
    <3>3. \A id \in kept : w.slots[id].key
      BY <1>3 DEF FrameId
    <3>4. \A id \in Held(w) : w.slots[id].key => id \in kept
      OBVIOUS
    <3>5. floor \in Nat
      <4>1. kept \in SUBSET Nat
        BY <1>3 DEF FrameId
      <4>2. CASE kept = {}
        BY <1>3, <4>2
      <4>3. CASE kept # {}
        <5> HIDE DEF kept
        <5> QED BY <4>1, <4>3, MinNat
      <4> QED BY <4>2, <4>3
    <3> HIDE DEF floor
    <3>6. next >= w.nextId
      BY <1>3, <3>5
    <3> HIDE DEF v, m, kept, next
    <3>7. /\ v.slots = m /\ v.nextId = next /\ v.needKeyframe = TRUE
          /\ v.highestSeen = w.highestSeen /\ v.lost = w.lost
      BY <1>3, <3>1 DEF IsWindow
    <3>8. Held(v) = kept
      BY <3>2, <3>7 DEF Held
    <3> QED BY <1>1, <3>2, <3>3, <3>4, <3>6, <3>7, <3>8 DEF Within
  <2> QED BY <2>1, <2>2
<1> HIDE DEF v
<1>5. HolesAsked(v)
  <2>1. \A id \in Held(v) : WorthAsking(v, v.slots[id]) => WorthAsking(w, w.slots[id])
    BY <1>4 DEF WorthAsking, Within
  <2> QED BY <1>1, <1>4, <2>1, FewerAsked
<1>6. Tidy(v) /\ Cardinality(Held(v)) <= MaxHeldFrames
  BY <1>1, <1>4, WithinTidy, WithinFewer
<1>7. CallInv'
  <2>1. KnownHolesAsked' <=> HolesAsked(rx')
    BY DEF KnownHolesAsked, HolesAsked
  <2>2. Tidy(rx)' <=> Tidy(rx')
    BY DEF Tidy, CompleteKeyframes, CompleteIds, Held
  <2> QED BY <1>2, <1>5, <1>6, <2>1, <2>2 DEF CallInv, WithinCapacity, Held
<1>8. LostOnce
  BY <1>1, <1>2, <1>4 DEF LostOnce
<1> QED BY <1>7, <1>8

LEMMA CallStep == CallInv /\ [Next]_vars => CallInv' /\ [LostOnce]_vars
<1> SUFFICES ASSUME CallInv, [Next]_vars PROVE CallInv' /\ [LostOnce]_vars
  OBVIOUS
<1>1. CASE InsertFresh \/ InsertRedundant
  BY <1>1, InsertCall
<1>2. CASE Poll
  BY <1>2, PollCall
<1>3. CASE SetRtt
  BY <1>3, SetRttCall
<1>4. CASE RequireKeyframe
  BY <1>4, RequireKeyframeCall
<1>5. CASE Tick
  BY <1>5, TickCall
<1>6. CASE UNCHANGED vars
  <2>1. Inv'
    BY <1>6, StepInv DEF CallInv
  <2>2. rx' = rx
    BY <1>6 DEF vars
  <2>3. Tidy(rx)' /\ KnownHolesAsked' /\ WithinCapacity'
    BY <2>2 DEF CallInv, Tidy, CompleteKeyframes, CompleteIds, KnownHolesAsked,
      WithinCapacity, Held
  <2> QED BY <1>6, <2>1, <2>3 DEF CallInv
<1> QED BY <1>1, <1>2, <1>3, <1>4, <1>5, <1>6 DEF Next

LEMMA CallsInvariant == Spec => []CallInv
<1>1. CallInv /\ [Next]_vars => CallInv'
  BY CallStep
<1> QED BY <1>1, InitCalls, PTL DEF Spec

\* However many slots one jump in frame_id adds, enforce_capacity leaves at most
\* max_held_frames of them when insert returns.
THEOREM WindowWithinCapacity == Spec => []WithinCapacity
<1>1. CallInv => WithinCapacity
  BY DEF CallInv
<1> QED BY <1>1, CallsInvariant, PTL

\* After insert, poll and require_keyframe, whatever arrived before, every hole
\* still worth filling has been listed for a resend and its give-up deadline
\* runs: the window never waits for a fragment it has not asked for.
THEOREM EveryHoleAsked == Spec => []KnownHolesAsked
<1>1. CallInv => KnownHolesAsked
  BY DEF CallInv
<1> QED BY <1>1, CallsInvariant, PTL

\* next_id never moves back, and a frame counted as lost by a call is behind it
\* and not among the frames the same call handed out.
THEOREM LossIsFinal == Spec => LostForGood
<1>1. CallInv /\ [Next]_vars => [LostOnce]_vars
  BY CallStep
<1>2. [][LostOnce]_vars => LostForGood
  <2>1. LostOnce => /\ rx'.nextId >= rx.nextId
                    /\ rx'.lost # rx.lost =>
                         \A id \in rx'.lost :
                           /\ rx.nextId <= id /\ id < rx'.nextId
                           /\ \A i \in DOMAIN handed' : handed'[i].id # id
    BY DEF LostOnce
  <2> QED BY <2>1, PTL DEF LostForGood
<1> QED BY <1>1, <1>2, CallsInvariant, PTL DEF Spec
=============================================================================
