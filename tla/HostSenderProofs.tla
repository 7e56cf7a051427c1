-------------------------- MODULE HostSenderProofs --------------------------
(***************************************************************************)
(* Proofs about HostSender, for any number of submitters and every size of *)
(* the ring, of the backlog that is skipped and of the encoder.            *)
(***************************************************************************)
EXTENDS HostSender, DataLemmas, SequenceTheorems, TLAPS

\* A frame may go out without its reference now: a keyframe just went, or none
\* but a keyframe goes.
Excused == awaiting \/ wire.key

\* Frames still to be received before the i-th of the ring would be in the
\* sender's hand with a full backlog behind it.
Beyond(i) == i > Backlog \/ (i = Backlog /\ sender = "holding")

\* Frames behind a ring that overflowed are too far back to be reached other
\* than by a skip, and after a skip nothing is sent that is not excused.
Gaps ==
  /\ overflow => Beyond(Len(ring)) \/ (ring = <<>> /\ sender = "waiting" /\ Excused)
  /\ \A i \in 1 .. Len(ring) :
       ring[i].gap => Beyond(i) \/ (i = 1 /\ sender = "waiting" /\ Excused)
  /\ hand.gap => Excused /\ ~hand.key

\* The frame before the next one is missing only if that is excused or it is
\* the first of a session, which is a keyframe.
Holes ==
  hole /\ ~Excused =>
    /\ sender = "waiting"
    /\ IF ring = <<>> THEN ~started ELSE ring[1].key

Chain == Gaps /\ Holes /\ BreaksOnlyAfterKeyframe

Inv == TypeOK /\ KeyframeOwed /\ Chain

LEMMA KeptIsFrame ==
  ASSUME hand \in Frame, ring \in Seq(Frame)
  PROVE  Kept \in Frame
<1> DEFINE n == Len(ring)
           step == [i \in 1 .. n |-> [f \in Frame |-> PreferDecodable(f, ring[i])]]
<1>1. n \in Nat /\ hand \in Frame /\ \A i \in 1 .. n : ring[i] \in Frame
  BY DEF n
<1>2. step \in Steps(n, Frame)
  BY <1>1 DEF PreferDecodable, Steps
<1> HIDE DEF step, n
<1>3. PICK f \in [0 .. n -> Frame] : Unfolds(f, n, hand, step)
  BY <1>1, <1>2, FoldExists
<1>4. f = [i \in 0 .. n |-> IF i = 0 THEN hand ELSE PreferDecodable(f[i - 1], ring[i])]
  <2>1. \A i \in 1 .. n : f[i - 1] \in Frame
    BY <1>1, <1>3
  <2>2. \A i \in 1 .. n : f[i] = PreferDecodable(f[i - 1], ring[i])
    BY <1>3, <2>1 DEF step, Unfolds
  <2>3. f = [i \in 0 .. n |-> f[i]] /\ f[0] = hand
    BY <1>3 DEF Unfolds
  <2>4. \A i \in 0 .. n : f[i] = IF i = 0 THEN hand ELSE PreferDecodable(f[i - 1], ring[i])
    BY <1>1, <2>2, <2>3, \A i \in 0 .. n : i = 0 \/ i \in 1 .. n
  <2> QED BY <2>3, <2>4
<1>5. Drained = [i \in 0 .. n |-> IF i = 0 THEN hand ELSE PreferDecodable(Drained[i - 1], ring[i])]
  BY <1>4 DEF Drained, n
<1> DEFINE P == {i \in 0 .. n : Drained[i] \in Frame}
<1>6. 0 \in P
  BY <1>1, <1>5
<1>7. \A i \in 1 .. n : i - 1 \in P => i \in P
  BY <1>1, <1>5 DEF PreferDecodable
<1> HIDE DEF P
<1>8. \A i \in 0 .. n : i \in P
  BY <1>1, <1>6, <1>7, UpTo
<1> QED BY <1>1, <1>8 DEF P, Kept, n

\* What the sequences of TypeOK are, without their library's definition.
Typed ==
  /\ pending \in BOOLEAN /\ cooling \in BOOLEAN
  /\ submit \in [Submitters -> {"idle", "passing", "forced", "plain"}]
  /\ coding \in Seq(BOOLEAN) /\ Len(coding) <= MaxCoding
  /\ started \in BOOLEAN
  /\ resize \in {"no", "armed", "swapping"}
  /\ ring \in Seq(Frame) /\ Len(ring) <= RingCapacity
  /\ overflow \in BOOLEAN
  /\ sender \in {"waiting", "holding"}
  /\ hand \in Frame
  /\ awaiting \in BOOLEAN /\ hole \in BOOLEAN
  /\ wire \in Sent
  /\ forcedLost \in BOOLEAN

LEMMA TypedIsTypeOK == Typed <=> TypeOK
BY SizeAssumption, Bounded DEF Typed, TypeOK

LEMMA InitInv == Init => Typed /\ KeyframeOwed /\ Chain
<1> SUFFICES ASSUME Init PROVE Typed /\ KeyframeOwed /\ Chain
  OBVIOUS
<1>1. /\ {pending, cooling, started, overflow, awaiting, hole, forcedLost} \subseteq BOOLEAN
      /\ hand \in Frame /\ wire \in Sent
  BY Zenon DEF Init, Frame, NoFrame, Sent, Nothing
<1>2. Typed
  BY <1>1, SizeAssumption DEF Init, Typed
<1>3. Chain
  BY DEF Init, Chain, Gaps, Holes, Excused, BreaksOnlyAfterKeyframe, NoFrame, Nothing
<1> QED BY <1>2, <1>3 DEF Init, KeyframeOwed

\* The gate and the submitters' steps.
LEMMA GateStep ==
  ASSUME Typed, KeyframeOwed, Chain,
         \/ Request \/ CoolDown
         \/ \E s \in Submitters : TakeCheck(s) \/ TakeSwap(s) \/ EncodeFails(s)
         \/ ResizeArm \/ ResizeCreate
  PROVE  Typed' /\ KeyframeOwed' /\ Chain'
<1>1. UNCHANGED <<coding, started, channel, transmit, forcedLost>>
  BY DEF Request, CoolDown, TakeCheck, TakeSwap, EncodeFails, AtEncoder, ResizeArm,
         ResizeCreate, gate, encode
<1>2. Typed'
  <2>1. pending' \in BOOLEAN /\ cooling' \in BOOLEAN
    BY Zenon DEF Typed, Request, CoolDown, TakeCheck, TakeSwap, EncodeFails, ResizeArm,
           ResizeCreate, gate, encode
  <2>2. submit' \in [Submitters -> {"idle", "passing", "forced", "plain"}]
    BY DEF Typed, Request, CoolDown, TakeCheck, TakeSwap, EncodeFails, ResizeArm,
           ResizeCreate, gate, encode
  <2>3. resize' \in {"no", "armed", "swapping"}
    BY DEF Typed, Request, CoolDown, TakeCheck, TakeSwap, EncodeFails, ResizeArm,
           ResizeCreate, gate, encode
  <2> QED BY <1>1, <2>1, <2>2, <2>3 DEF Typed, channel, transmit
<1>3. Chain'
  BY <1>1 DEF Chain, Gaps, Holes, Excused, Beyond, BreaksOnlyAfterKeyframe, channel, transmit
<1>4. KeyframeOwed'
  <2>1. pending' \/ (pending = FALSE /\ \A s \in Submitters : submit[s] = "forced" => submit'[s] = "forced")
              \/ \E s \in Submitters : submit'[s] = "forced"
    BY DEF Typed, Request, CoolDown, TakeCheck, TakeSwap, EncodeFails, ResizeArm,
           ResizeCreate, gate, encode
  <2> QED BY <1>1, <2>1 DEF KeyframeOwed, channel, transmit
<1> QED BY <1>2, <1>3, <1>4

\* The encoder's steps: a forced frame is known to come out as a keyframe.
LEMMA EncoderStep ==
  ASSUME Typed, KeyframeOwed, Chain,
         (\E s \in Submitters : Encode(s)) \/ Lose \/ ResizeSwap
  PROVE  Typed' /\ KeyframeOwed' /\ Chain'
<1>1. ASSUME NEW s \in Submitters, Encode(s)
      PROVE  Typed' /\ KeyframeOwed' /\ Chain'
  <2>1. /\ submit' = [submit EXCEPT ![s] = "idle"]
        /\ coding' = Append(coding, submit[s] = "forced")
        /\ Len(coding) < MaxCoding
        /\ UNCHANGED <<pending, cooling, started, resize, ring, overflow, sender, hand,
                       awaiting, hole, wire, forcedLost>>
    BY <1>1 DEF Encode, AtEncoder, gate, channel, transmit
  <2>2. (submit[s] = "forced") \in BOOLEAN
    OBVIOUS
  <2> DEFINE e == submit[s] = "forced"
  <2>3. coding' = Append(coding, e) /\ e \in BOOLEAN
    BY <2>1
  <2>4. Typed'
    <3> HIDE DEF e
    <3> QED BY <2>1, <2>3, SizeAssumption DEF Typed
  <2>5. Chain'
    BY <2>1 DEF Chain, Gaps, Holes, Excused, Beyond, BreaksOnlyAfterKeyframe
  <2>6. ToSet(coding') = ToSet(coding) \cup {e}
    <3> HIDE DEF e
    <3> QED BY <2>3, Elements DEF Typed
  <2>7. KeyframeOwed'
    <3>1. TRUE \in ToSet(coding') <=> TRUE \in ToSet(coding) \/ submit[s] = "forced"
      <4>1. TRUE \in {e} <=> submit[s] = "forced"
        OBVIOUS
      <4> HIDE DEF e
      <4> QED BY <2>6, <4>1
    <3>2. \A q \in Submitters : submit[q] = "forced" /\ q # s => submit'[q] = "forced"
      BY <2>1 DEF Typed
    <3> QED BY <2>1, <3>1, <3>2, Zenon DEF KeyframeOwed
  <2> QED BY <2>4, <2>5, <2>7
<1>2. CASE Lose
  <2>1. /\ coding # <<>> /\ coding' = Tail(coding)
        /\ forcedLost' = (forcedLost \/ Head(coding))
        /\ UNCHANGED <<pending, cooling, submit, started, resize, ring, overflow, sender, hand,
                       awaiting, hole, wire>>
    BY <1>2 DEF Lose, gate, channel, transmit
  <2>2. /\ Head(coding) \in BOOLEAN /\ Tail(coding) \in Seq(BOOLEAN)
        /\ Len(Tail(coding)) = Len(coding) - 1
        /\ ToSet(coding) = {Head(coding)} \cup ToSet(Tail(coding))
    BY <2>1, Elements DEF Typed
  <2>3. Typed'
    <3>1. forcedLost' \in BOOLEAN
      BY <2>1, Zenon
    <3>2. coding' = Tail(coding)
      BY <2>1
    <3>3. coding' \in Seq(BOOLEAN) /\ Len(coding') <= MaxCoding
      BY <2>2, <3>2, SizeAssumption DEF Typed
    <3> QED BY <2>1, <3>1, <3>3, Zenon DEF Typed
  <2>4. Chain'
    BY <2>1 DEF Chain, Gaps, Holes, Excused, Beyond, BreaksOnlyAfterKeyframe
  <2>5. KeyframeOwed'
    BY <2>1, <2>2, Zenon DEF KeyframeOwed
  <2> QED BY <2>3, <2>4, <2>5
<1>3. CASE ResizeSwap
  <2>1. /\ started' = FALSE /\ resize' = "no"
        /\ UNCHANGED <<pending, cooling, submit, coding, ring, overflow, sender, hand,
                       awaiting, hole, wire, forcedLost>>
    BY <1>3 DEF ResizeSwap, gate, channel, transmit
  <2>2. Typed' /\ KeyframeOwed'
    BY <2>1 DEF Typed, KeyframeOwed
  <2>3. Chain'
    BY <2>1 DEF Chain, Gaps, Holes, Excused, Beyond, BreaksOnlyAfterKeyframe
  <2> QED BY <2>2, <2>3
<1> QED BY <1>1, <1>2, <1>3

\* The output callback: a frame behind one that was dropped is far back.
LEMMA OutputStep ==
  ASSUME Typed, KeyframeOwed, Chain, NEW periodic \in BOOLEAN, Output(periodic)
  PROVE  Typed' /\ KeyframeOwed' /\ Chain'
<1> DEFINE key == Head(coding) \/ ~started \/ periodic
           gap == ~key /\ overflow
           full == Len(ring) >= RingCapacity
           frame == [key |-> key, gap |-> gap]
<1>1. /\ coding # <<>> /\ coding' = Tail(coding) /\ started'
      /\ UNCHANGED <<submit, resize, sender, hand, awaiting, hole, wire, forcedLost>>
  BY DEF Output, transmit
<1>2. /\ started' \in BOOLEAN /\ cooling' \in BOOLEAN /\ pending' \in BOOLEAN
      /\ overflow' \in BOOLEAN /\ (overflow' <=> full) /\ (pending' <=> full \/ pending)
  <2>1. /\ started' = TRUE /\ cooling' = (key \/ cooling)
        /\ overflow' = full /\ pending' = (full \/ pending)
    BY Zenon DEF Output
  <2> HIDE DEF key
  <2>2. full \in BOOLEAN
    OBVIOUS
  <2> HIDE DEF full
  <2> QED BY <2>1, <2>2, Zenon
<1>3. IF full THEN ring' = ring ELSE ring' = Append(ring, frame)
  BY DEF Output
<1>4. /\ Head(coding) \in BOOLEAN /\ Tail(coding) \in Seq(BOOLEAN)
      /\ Len(Tail(coding)) = Len(coding) - 1
      /\ ToSet(coding) = {Head(coding)} \cup ToSet(Tail(coding))
  BY <1>1, Elements DEF Typed
<1>5. key \in BOOLEAN /\ gap \in BOOLEAN
  BY Zenon
<1>6. frame \in Frame /\ frame.key = key /\ frame.gap = gap
  <2> HIDE DEF key, gap
  <2> QED BY <1>5 DEF Frame
<1>7. (gap => ~key /\ overflow) /\ (Head(coding) \/ ~started => key)
  BY Zenon
<1>8. ring \in Seq(Frame) /\ Len(ring) \in Nat /\ (ring = <<>> <=> Len(ring) = 0)
  BY DEF Typed
<1>9. ~full => /\ Len(ring) < RingCapacity /\ ring' \in Seq(Frame)
               /\ Len(ring') = Len(ring) + 1
               /\ ring'[Len(ring) + 1] = frame
               /\ \A i \in 1 .. Len(ring) : ring'[i] = ring[i]
               /\ ToSet(ring') = ToSet(ring) \cup {frame}
  <2>1. ~full => Len(ring) < RingCapacity
    BY <1>8, SizeAssumption
  <2> HIDE DEF frame, full
  <2>2. frame \in Frame
    BY <1>6
  <2>3. ToSet(Append(ring, frame)) = ToSet(ring) \cup {frame}
    BY <2>2, <1>8, Elements
  <2>4. /\ Append(ring, frame) \in Seq(Frame) /\ Len(Append(ring, frame)) = Len(ring) + 1
        /\ Append(ring, frame)[Len(ring) + 1] = frame
        /\ \A i \in 1 .. Len(ring) : Append(ring, frame)[i] = ring[i]
    BY <2>2, <1>8
  <2>5. ~full => ring' = Append(ring, frame)
    BY <1>3
  <2> QED BY <2>1, <2>3, <2>4, <2>5
<1>10. full => Len(ring) > Backlog
  BY <1>8, SizeAssumption
<1> HIDE DEF key, gap, frame, full
<1>11. Typed'
  <2>1. ring' \in Seq(Frame) /\ Len(ring') <= RingCapacity
    BY <1>3, <1>8, <1>9, SizeAssumption DEF Typed
  <2>2. coding' \in Seq(BOOLEAN) /\ Len(coding') <= MaxCoding
    BY <1>1, <1>4, SizeAssumption DEF Typed
  <2> QED BY <1>1, <1>2, <2>1, <2>2, Zenon DEF Typed
<1>12. KeyframeOwed'
  <2>1. CASE full
    BY <1>1, <1>2, <2>1, Zenon DEF KeyframeOwed
  <2>2. CASE ~full
    <3>1. Head(coding) => \E f \in ToSet(ring') : f.key
      BY <1>6, <1>7, <1>9, <2>2
    <3>2. \A f \in ToSet(ring) : f \in ToSet(ring')
      BY <1>9, <2>2
    <3>3. TRUE \in ToSet(coding) => Head(coding) \/ TRUE \in ToSet(coding')
      BY <1>1, <1>4
    <3> QED BY <1>1, <1>2, <3>1, <3>2, <3>3, Zenon DEF KeyframeOwed
  <2> QED BY <2>1, <2>2
<1>13. Gaps'
  <2>1. (overflow => Beyond(Len(ring)) \/ (ring = <<>> /\ sender = "waiting" /\ Excused))'
    BY <1>1, <1>2, <1>3, <1>10 DEF Beyond
  <2>2. ASSUME NEW i \in 1 .. Len(ring'), ring'[i].gap
        PROVE  (Beyond(i) \/ (i = 1 /\ sender = "waiting" /\ Excused))'
    <3>1. CASE i \in 1 .. Len(ring)
      <4>1. ring[i].gap
        BY <1>3, <1>9, <2>2, <3>1
      <4> QED BY <1>1, <3>1, <4>1 DEF Chain, Gaps, Beyond, Excused
    <3>2. CASE ~full /\ i = Len(ring) + 1
      <4>1. overflow
        BY <1>6, <1>7, <1>9, <2>2, <3>2
      <4> QED BY <1>1, <1>8, <3>2, <4>1, SizeAssumption DEF Chain, Gaps, Beyond, Excused
    <3> QED BY <1>3, <1>8, <1>9, <3>1, <3>2
  <2>3. (hand.gap => Excused /\ ~hand.key)'
    BY <1>1 DEF Chain, Gaps, Excused
  <2> QED BY <2>1, <2>2, <2>3 DEF Gaps
<1>14. Holes' /\ BreaksOnlyAfterKeyframe'
  <2>1. ring # <<>> => ring'[1] = ring[1] /\ ring' # <<>>
    BY <1>3, <1>8, <1>9
  <2>2. ring = <<>> /\ ~started => ring'[1].key /\ ring' # <<>>
    <3> SUFFICES ASSUME ring = <<>>, ~started PROVE ring'[1].key /\ ring' # <<>>
      OBVIOUS
    <3>1. ~full /\ Len(ring) = 0
      BY <1>8, <1>10, SizeAssumption
    <3>2. ring'[1] = frame /\ Len(ring') = 1 /\ ring' # <<>>
      BY <1>9, <3>1
    <3>3. frame.key
      BY <1>6, <1>7
    <3> QED BY <3>2, <3>3
  <2> QED BY <1>1, <2>1, <2>2 DEF Chain, Holes, Excused, BreaksOnlyAfterKeyframe
<1> QED BY <1>11, <1>12, <1>13, <1>14 DEF Chain

\* Nothing of the session before is left.
LEMMA SessionStep ==
  ASSUME Typed, NewSession
  PROVE  Typed' /\ KeyframeOwed' /\ Chain'
<1>1. /\ pending' = TRUE /\ cooling' = FALSE /\ started' = FALSE /\ overflow' = FALSE
      /\ awaiting' = FALSE /\ hole' = TRUE /\ forcedLost' = FALSE
  BY DEF NewSession
<1>2. /\ coding' = <<>> /\ ring' = <<>> /\ sender' = "waiting" /\ hand' = NoFrame
      /\ wire' = Nothing /\ UNCHANGED <<submit, resize>>
  BY DEF NewSession
<1>3. NoFrame \in Frame /\ Nothing \in Sent /\ ~NoFrame.gap /\ ~Nothing.broken /\ ~Nothing.key
  BY DEF NoFrame, Frame, Nothing, Sent
<1>4. Typed'
  <2>1. {pending', cooling', started', overflow', awaiting', hole', forcedLost'} \subseteq BOOLEAN
    BY <1>1, Zenon
  <2>2. /\ coding' \in Seq(BOOLEAN) /\ Len(coding') <= MaxCoding
        /\ ring' \in Seq(Frame) /\ Len(ring') <= RingCapacity
    BY <1>2, SizeAssumption
  <2> QED BY <1>2, <1>3, <2>1, <2>2, Zenon DEF Typed
<1>5. KeyframeOwed' /\ BreaksOnlyAfterKeyframe'
  BY <1>1, <1>2, <1>3 DEF KeyframeOwed, BreaksOnlyAfterKeyframe
<1>6. Gaps'
  BY <1>1, <1>2, <1>3 DEF Gaps
<1>7. Holes'
  BY <1>1, <1>2 DEF Holes
<1> QED BY <1>4, <1>5, <1>6, <1>7 DEF Chain

LEMMA ReceiveStep ==
  ASSUME Typed, KeyframeOwed, Chain, Receive
  PROVE  Typed' /\ KeyframeOwed' /\ Chain'
<1> DEFINE first == Head(ring)
           gap == ~first.key /\ (first.gap \/ hole)
<1>1. /\ sender = "waiting" /\ ring # <<>> /\ sender' = "holding"
      /\ ring' = Tail(ring) /\ hole' = FALSE
      /\ UNCHANGED <<pending, cooling, submit, coding, started, resize, overflow, awaiting,
                     wire, forcedLost>>
  BY DEF Receive, gate, encode
<1>2. /\ first \in Frame /\ Tail(ring) \in Seq(Frame)
      /\ Len(Tail(ring)) = Len(ring) - 1 /\ Len(ring) > 0 /\ first = ring[1]
      /\ \A i \in 1 .. Len(Tail(ring)) : Tail(ring)[i] = ring[i + 1]
      /\ ToSet(ring) = {first} \cup ToSet(Tail(ring))
  BY <1>1, Elements DEF Typed
<1>3. hand' = [first EXCEPT !.gap = gap]
  BY DEF Receive
<1>4. gap \in BOOLEAN /\ (gap => ~first.key /\ (first.gap \/ hole))
  BY Zenon
<1>5. Len(ring) \in Nat
  BY DEF Typed
<1> HIDE DEF first, gap
<1>6. hand' \in Frame /\ hand'.key = first.key /\ hand'.gap = gap
  BY <1>2, <1>3, <1>4 DEF Frame
<1>7. Typed'
  <2>1. hole' \in BOOLEAN
    BY <1>1, Zenon
  <2>2. ring' \in Seq(Frame) /\ Len(ring') <= RingCapacity
    BY <1>1, <1>2, <1>5, SizeAssumption DEF Typed
  <2> QED BY <1>1, <1>6, <2>1, <2>2, Zenon DEF Typed
<1>8. KeyframeOwed'
  BY <1>1, <1>2, <1>6 DEF KeyframeOwed
<1>9. Gaps'
  <2>1. (overflow => Beyond(Len(ring)) \/ (ring = <<>> /\ sender = "waiting" /\ Excused))'
    BY <1>1, <1>2, <1>5, SizeAssumption DEF Chain, Gaps, Beyond
  <2>2. ASSUME NEW i \in 1 .. Len(ring'), ring'[i].gap
        PROVE  (Beyond(i) \/ (i = 1 /\ sender = "waiting" /\ Excused))'
    <3>1. i + 1 \in 1 .. Len(ring) /\ ring[i + 1].gap
      BY <1>1, <1>2, <1>5, <2>2
    <3> QED BY <1>1, <3>1, SizeAssumption DEF Chain, Gaps, Beyond
  <2>3. ASSUME gap PROVE Excused' /\ ~hand'.key
    <3>1. first.gap => Excused
      BY <1>1, <1>2, <1>5, SizeAssumption DEF Chain, Gaps, Beyond
    <3>2. hole => Excused
      BY <1>1, <1>2, <1>4, <2>3 DEF Chain, Holes
    <3> QED BY <1>1, <1>4, <1>6, <2>3, <3>1, <3>2 DEF Excused
  <2> QED BY <1>6, <2>1, <2>2, <2>3 DEF Gaps
<1>10. Holes' /\ BreaksOnlyAfterKeyframe'
  BY <1>1 DEF Chain, Holes, BreaksOnlyAfterKeyframe
<1> QED BY <1>7, <1>8, <1>9, <1>10 DEF Chain

\* Whatever becomes of the frame in hand: behind it there is no gap unless a
\* whole backlog was skipped.
LEMMA SendStep ==
  ASSUME Typed, KeyframeOwed, Chain, Withhold \/ Send \/ SendFails
  PROVE  Typed' /\ KeyframeOwed' /\ Chain'
<1>1. /\ sender = "holding" /\ sender' = "waiting" /\ hand' = NoFrame
      /\ ring' = IF SkipDue THEN <<>> ELSE ring
      /\ UNCHANGED <<cooling, submit, coding, started, resize, overflow, forcedLost>>
  BY DEF Withhold, Send, SendFails, LeaveRing, gate, encode
<1>2. NoFrame \in Frame /\ ~NoFrame.gap /\ ~NoFrame.key
  BY DEF NoFrame, Frame
<1>3. Kept \in Frame /\ Chosen \in Frame
  <2>1. Kept \in Frame
    BY KeptIsFrame DEF Typed
  <2>2. (~Kept.key) \in BOOLEAN
    OBVIOUS
  <2> QED BY <2>1, <2>2 DEF Chosen, Frame, Typed
<1>4. IF SkipDue THEN Chosen.gap = ~Chosen.key ELSE Chosen = hand
  BY <1>3 DEF Chosen, Frame
<1>5. Len(ring) \in Nat /\ (SkipDue <=> Len(ring) >= Backlog) /\ Backlog \in Nat \ {0}
  BY SizeAssumption DEF Typed, SkipDue
<1>6. ring' \in Seq(Frame) /\ Len(ring') <= RingCapacity
  BY <1>1, SizeAssumption DEF Typed
<1>7. SkipDue => ring' = <<>>
  BY <1>1
<1>8. ~SkipDue => /\ ring' = ring /\ ~overflow
                  /\ \A i \in 1 .. Len(ring) : ~ring[i].gap
  BY <1>1, <1>5 DEF Chain, Gaps, Beyond
<1>9. ASSUME Excused' \/ SkipDue = FALSE PROVE Gaps'
  <2>1. CASE SkipDue
    BY <1>1, <1>2, <1>7, <1>9, <2>1 DEF Gaps
  <2>2. CASE ~SkipDue
    BY <1>1, <1>2, <1>8, <2>2 DEF Gaps
  <2> QED BY <2>1, <2>2
<1>10. CASE Withhold
  <2>1. awaiting' = TRUE /\ hole' = TRUE /\ wire' = wire /\ Withheld
    BY <1>10 DEF Withhold
  <2>2. pending' \in BOOLEAN /\ (pending' <=> SkipDue \/ pending)
    <3>1. pending' = (SkipDue \/ pending)
      BY <1>10 DEF Withhold
    <3> HIDE DEF SkipDue
    <3> QED BY <3>1, Zenon
  <2>3. Typed'
    <3>1. awaiting' \in BOOLEAN /\ hole' \in BOOLEAN
      BY <2>1, Zenon
    <3> QED BY <1>1, <1>2, <1>6, <2>1, <2>2, <3>1, Zenon DEF Typed
  <2>4. Excused'
    BY <2>1 DEF Excused
  <2>5. KeyframeOwed'
    <3>1. CASE SkipDue
      BY <2>2, <3>1 DEF KeyframeOwed
    <3>2. CASE ~SkipDue
      BY <1>1, <1>4, <1>8, <2>1, <2>2, <3>2, Zenon DEF KeyframeOwed, Withheld
    <3> QED BY <3>1, <3>2
  <2>6. Holes' /\ BreaksOnlyAfterKeyframe'
    BY <2>1, <2>4 DEF Chain, Holes, BreaksOnlyAfterKeyframe
  <2> QED BY <1>9, <2>3, <2>4, <2>5, <2>6 DEF Chain
<1>11. CASE Send
  <2>1. /\ awaiting' = FALSE /\ ~Withheld /\ pending' = pending
        /\ wire' = [key |-> Chosen.key, broken |-> Chosen.gap, afterKey |-> wire.key]
    BY <1>11 DEF Send, gate
  <2>2. hole' \in BOOLEAN /\ (hole' => SkipDue)
    <3>1. hole' = (SkipDue /\ ~KeptIsLast)
      BY <1>11 DEF Send
    <3> QED BY <3>1, Zenon
  <2>3. wire' \in Sent /\ wire'.key = Chosen.key /\ wire'.broken = Chosen.gap
        /\ wire'.afterKey = wire.key
    BY <1>3, <2>1 DEF Frame, Sent, Typed
  <2>4. SkipDue => Chosen.key
    BY <2>1 DEF Withheld
  <2>5. Typed'
    <3>1. awaiting' \in BOOLEAN
      BY <2>1, Zenon
    <3> QED BY <1>1, <1>2, <1>6, <2>1, <2>2, <2>3, <3>1, Zenon DEF Typed
  <2>6. KeyframeOwed'
    BY <2>1 DEF KeyframeOwed
  <2>7. Excused' \/ SkipDue = FALSE
    BY <2>3, <2>4 DEF Excused
  <2>8. Holes'
    BY <2>2, <2>3, <2>4 DEF Holes, Excused
  <2>9. BreaksOnlyAfterKeyframe'
    <3>1. SkipDue => ~Chosen.gap
      BY <1>3, <1>4, <2>4 DEF Frame
    <3>2. ~SkipDue /\ Chosen.gap => wire.key
      BY <1>4, <2>1 DEF Chain, Gaps, Excused, Withheld
    <3> QED BY <2>3, <3>1, <3>2 DEF BreaksOnlyAfterKeyframe
  <2> QED BY <1>9, <2>5, <2>6, <2>7, <2>8, <2>9 DEF Chain
<1>12. CASE SendFails
  <2>1. awaiting' = TRUE /\ hole' = TRUE /\ wire' = wire /\ pending' = TRUE
    BY <1>12 DEF SendFails
  <2>2. Typed'
    <3>1. awaiting' \in BOOLEAN /\ hole' \in BOOLEAN /\ pending' \in BOOLEAN
      BY <2>1, Zenon
    <3> QED BY <1>1, <1>2, <1>6, <2>1, <3>1, Zenon DEF Typed
  <2>3. Excused' /\ KeyframeOwed'
    BY <2>1 DEF Excused, KeyframeOwed
  <2>4. Holes' /\ BreaksOnlyAfterKeyframe'
    BY <2>1, <2>3 DEF Chain, Holes, BreaksOnlyAfterKeyframe
  <2> QED BY <1>9, <2>2, <2>3, <2>4 DEF Chain
<1> QED BY <1>10, <1>11, <1>12

-----------------------------------------------------------------------------
LEMMA StepInv ==
  ASSUME Typed, KeyframeOwed, Chain, [Next]_vars
  PROVE  Typed' /\ KeyframeOwed' /\ Chain'
<1>1. CASE UNCHANGED vars
  <2>1. Typed'
    BY <1>1, Zenon DEF vars, gate, encode, channel, transmit, Typed
  <2>2. KeyframeOwed'
    BY <1>1 DEF vars, gate, encode, channel, transmit, KeyframeOwed
  <2>3. Chain'
    BY <1>1 DEF vars, gate, encode, channel, transmit, Chain, Gaps, Holes, Excused, Beyond,
       BreaksOnlyAfterKeyframe
  <2> QED BY <2>1, <2>2, <2>3
<1>2. CASE Next
  BY <1>2, GateStep, EncoderStep, OutputStep, SessionStep, ReceiveStep, SendStep
  DEF Next, SubmitterStep
<1> QED BY <1>1, <1>2

\* Every type, and the invariants the runs check, for any ring and any backlog.
LEMMA Invariance == Spec => []Inv
<1>1. Init => Inv
  BY InitInv, TypedIsTypeOK DEF Inv
<1>2. Inv /\ [Next]_vars => Inv'
  <2>1. Typed' => TypeOK'
    BY TypedIsTypeOK, PTL
  <2> QED BY <2>1, StepInv, TypedIsTypeOK DEF Inv
<1> QED BY <1>1, <1>2, PTL DEF Spec

\* The sender's state, the gate's and the encoder's stay of their types: in
\* particular the ring and the encoder never hold more than they have room for.
THEOREM TypesHold == Spec => []TypeOK
BY Invariance, PTL DEF Inv

\* A sender that withholds frames is owed a keyframe, wherever the request or
\* the frame that answers it is, unless the encoder lost a forced frame.
THEOREM SenderIsOwed == Spec => []KeyframeOwed
BY Invariance, PTL DEF Inv

\* A frame goes out without its reference only just after a keyframe.
THEOREM DamageIsConfined == Spec => []BreaksOnlyAfterKeyframe
<1>1. Inv => BreaksOnlyAfterKeyframe
  BY DEF Inv, Chain
<1> QED BY <1>1, Invariance, PTL
=============================================================================
