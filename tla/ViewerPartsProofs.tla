------------------------- MODULE ViewerPartsProofs -------------------------
(***************************************************************************)
(* Proofs about the parts of the viewer, for every value of their          *)
(* constants.  Each part has an inductive invariant of its own, which its  *)
(* steps keep; those of the parts at the viewer's edges, and of a frame's  *)
(* bytes, are in the modules this one extends.                             *)
(***************************************************************************)
EXTENDS ViewerEdgeProofs, BitstreamProofs

-----------------------------------------------------------------------------
(* ViewerPipeline: from a complete frame to the window.                    *)

\* What the transform or VideoToolbox has yet to put out is newer than frame n.
AheadOf(n) == n <= fed /\ \A j \in DOMAIN inside : n < inside[j]

\* ... and so is what waits for the window.
AheadInAll(n) ==
  /\ AheadOf(n)
  /\ \A j \in DOMAIN output : n < output[j].id
  /\ \A j \in DOMAIN queue : n < queue[j].id

\* The frames of the session in progress, from the decoder to the window, are in
\* the order they were decoded in, and the window is behind them all.
InLine ==
  /\ \A j \in DOMAIN inside : inside[j] <= fed
  /\ \A i, j \in DOMAIN inside : i < j => inside[i] < inside[j]
  /\ \A i \in DOMAIN output : output[i].session = session /\ AheadOf(output[i].id)
  /\ \A i, j \in DOMAIN output : i < j => output[i].id < output[j].id
  /\ \A i \in DOMAIN queue :
       /\ queue[i].session = session /\ AheadOf(queue[i].id)
       /\ \A j \in DOMAIN output : queue[i].id < output[j].id
  /\ \A i, j \in DOMAIN queue : i < j => queue[i].id < queue[j].id
  /\ \A i \in DOMAIN hand : hand[i].session = session => AheadInAll(hand[i].id)
  /\ view.session = session => AheadInAll(view.id)

\* No frame is of a session to come; while the decoder is made ready for one,
\* none is of that one either.
OfItsTime(n) == n <= session /\ (phase = "resetting" => n < session)

Sessions ==
  /\ at # "waiting" \/ queue # <<>> => phase = "streaming"
  /\ phase # "between" \/ inside # <<>> => session > 0
  /\ phase = "resetting" => fed = 0
  /\ \A i \in DOMAIN output : output[i].session <= session
  /\ \A i \in DOMAIN hand : OfItsTime(hand[i].session)
  /\ \A i \in DOMAIN shown : OfItsTime(shown[i].session)
  /\ OfItsTime(view.session)
  /\ phase = "streaming" => InLine

\* The Media Foundation decoder puts out all it will before it is given more.
Drained ==
  /\ at = "decoding" => backend = "mf"
  /\ backend = "mf" =>
       IF at = "decoding" THEN Len(output) + Len(inside) <= Delay + 1
       ELSE Len(inside) <= Delay /\ (at # "draining" => output = <<>>)

\* The surface of a frame of the session in progress holds its picture.
HasPicture(f) == f.surface # Pipeline!Memory /\ f.session = session => pool[f.surface] = f.id

Pictured ==
  /\ \A i \in DOMAIN output : HasPicture(output[i])
  /\ \A i \in DOMAIN queue : HasPicture(queue[i])
  /\ \A i \in DOMAIN hand : HasPicture(hand[i])
  /\ \A i \in DOMAIN shown : HasPicture(shown[i])

PipeInv == Pipeline!TypeOK /\ Sessions /\ Drained /\ Pictured

\* r is what a queue q is after f was pushed into it, d of its frames dropped.
PushedFrom(q, f, d, r) ==
  /\ d <= Len(q) /\ Len(r) = Len(q) + 1 - d
  /\ r[Len(r)] = f /\ \A i \in 1 .. Len(q) - d : r[i] = q[i + d]

LEMMA PushedShape ==
  ASSUME NEW S, NEW q \in Seq(S), NEW f \in S, NEW cap \in Nat \ {0}, Len(q) <= cap
  PROVE  /\ Pipeline!Pushed(q, f, cap) \in Seq(S)
         /\ Len(Pipeline!Pushed(q, f, cap)) <= cap
         /\ \E d \in {0, 1} : PushedFrom(q, f, d, Pipeline!Pushed(q, f, cap))
<1>1. CASE Len(q) >= cap
  <2>1. q # <<>> /\ Pipeline!Pushed(q, f, cap) = Append(Tail(q), f)
    BY <1>1 DEF Pipeline!Pushed
  <2>2. /\ Tail(q) \in Seq(S) /\ Len(Tail(q)) = Len(q) - 1
        /\ \A i \in 1 .. Len(q) - 1 : Tail(q)[i] = q[i + 1]
    BY <2>1
  <2>3. /\ Append(Tail(q), f) \in Seq(S) /\ Len(Append(Tail(q), f)) = Len(q)
        /\ Append(Tail(q), f)[Len(q)] = f
        /\ \A i \in 1 .. Len(q) - 1 : Append(Tail(q), f)[i] = Tail(q)[i]
    BY <2>1, <2>2
  <2>4. PushedFrom(q, f, 1, Append(Tail(q), f))
    BY <2>1, <2>2, <2>3 DEF PushedFrom
  <2> QED
    BY <2>1, <2>3, <2>4
<1>2. CASE Len(q) < cap
  <2>1. Pipeline!Pushed(q, f, cap) = Append(q, f)
    BY <1>2 DEF Pipeline!Pushed
  <2>2. /\ Append(q, f) \in Seq(S) /\ Len(Append(q, f)) = Len(q) + 1
        /\ Append(q, f)[Len(q) + 1] = f
        /\ \A i \in 1 .. Len(q) : Append(q, f)[i] = q[i]
    OBVIOUS
  <2> QED
    BY <1>2, <2>1, <2>2 DEF PushedFrom
<1> QED
  BY <1>1, <1>2

\* r is what a queue q is with f behind it, its oldest perhaps gone.
PutBehind(q, f, r) ==
  /\ Len(r) <= Len(q) + 1
  /\ \A i \in DOMAIN r : r[i] = f \/ \E k \in DOMAIN q : r[i] = q[k]
  /\ \A i, j \in DOMAIN r : i < j =>
       \/ r[j] = f /\ \E k \in DOMAIN q : r[i] = q[k]
       \/ \E k, l \in DOMAIN q : k < l /\ r[i] = q[k] /\ r[j] = q[l]

LEMMA PushedBehind ==
  ASSUME NEW S, NEW q \in Seq(S), NEW f \in S, NEW r \in Seq(S),
         r = q \/ \E d \in {0, 1} : PushedFrom(q, f, d, r)
  PROVE  PutBehind(q, f, r)
<1>0. /\ DOMAIN q = 1 .. Len(q) /\ Len(q) \in Nat
      /\ DOMAIN r = 1 .. Len(r) /\ Len(r) \in Nat
  OBVIOUS
<1>1. CASE r = q
  <2>1. \A i, j \in DOMAIN r : i < j => \E k, l \in DOMAIN q : k < l /\ r[i] = q[k] /\ r[j] = q[l]
    BY ONLY <1>1
  <2> QED
    BY ONLY <1>0, <1>1, <2>1 DEF PutBehind
<1>2. ASSUME NEW d \in {0, 1}, PushedFrom(q, f, d, r) PROVE PutBehind(q, f, r)
  <2>1. /\ d <= Len(q) /\ Len(r) = Len(q) + 1 - d
        /\ r[Len(r)] = f
        /\ \A k \in 1 .. Len(q) - d : r[k] = q[k + d] /\ k + d \in DOMAIN q
    BY ONLY <1>0, <1>2 DEF PushedFrom
  <2>2. \A i \in DOMAIN r : i = Len(r) \/ i \in 1 .. Len(q) - d
    BY ONLY <1>0, <1>2, <2>1
  <2>3. \A i, j \in DOMAIN r : i < j =>
          /\ i \in 1 .. Len(q) - d
          /\ j = Len(r) \/ (j \in 1 .. Len(q) - d /\ i + d < j + d)
    BY ONLY <1>0, <1>2, <2>1
  <2>4. \A i \in DOMAIN r : r[i] = f \/ \E k \in DOMAIN q : r[i] = q[k]
    BY ONLY <2>1, <2>2
  <2>5. ASSUME NEW i \in DOMAIN r, NEW j \in DOMAIN r, i < j
        PROVE  \/ r[j] = f /\ \E k \in DOMAIN q : r[i] = q[k]
               \/ \E k, l \in DOMAIN q : k < l /\ r[i] = q[k] /\ r[j] = q[l]
    <3>1. i + d \in DOMAIN q /\ r[i] = q[i + d]
      BY ONLY <2>1, <2>3, <2>5, i \in DOMAIN r, j \in DOMAIN r
    <3>2. \/ r[j] = f
          \/ j + d \in DOMAIN q /\ r[j] = q[j + d] /\ i + d < j + d
      BY ONLY <2>1, <2>3, <2>5, i \in DOMAIN r, j \in DOMAIN r
    <3> QED
      BY ONLY <3>1, <3>2
  <2>6. Len(r) <= Len(q) + 1
    BY ONLY <1>0, <1>2, <2>1
  <2> QED
    BY ONLY <2>4, <2>5, <2>6 DEF PutBehind
<1> QED
  BY <1>1, <1>2

\* The first and the last of a queue, and what is left without the first.
LEMMA HeadShape ==
  ASSUME NEW S, NEW q \in Seq(S), q # <<>>
  PROVE  /\ Len(q) \in Nat \ {0} /\ DOMAIN q = 1 .. Len(q)
         /\ 1 \in DOMAIN q /\ q[1] \in S
         /\ Len(q) \in DOMAIN q /\ q[Len(q)] \in S
         /\ Tail(q) \in Seq(S) /\ Len(Tail(q)) = Len(q) - 1
         /\ DOMAIN Tail(q) = 1 .. Len(q) - 1
         /\ \A i \in DOMAIN Tail(q) : Tail(q)[i] = q[i + 1] /\ i + 1 \in DOMAIN q
<1>1. Len(q) \in Nat \ {0} /\ DOMAIN q = 1 .. Len(q)
  OBVIOUS
<1>2. /\ Tail(q) \in Seq(S) /\ Len(Tail(q)) = Len(q) - 1
      /\ \A i \in 1 .. Len(q) - 1 : Tail(q)[i] = q[i + 1]
  BY <1>1
<1>3. q[1] \in S /\ q[Len(q)] \in S
  BY <1>1
<1>4. DOMAIN Tail(q) = 1 .. Len(q) - 1
  BY ONLY <1>1, <1>2, Tail(q) \in Seq(S)
<1> QED
  BY ONLY <1>1, <1>2, <1>3, <1>4

LEMMA PipeInit == Pipeline!Init => PipeInv
<1> SUFFICES ASSUME Pipeline!Init PROVE PipeInv
  OBVIOUS
<1> USE PartsAssumption DEF Pipeline!Assumption
<1>1. {ready, hardware, pushed, wakes, gpuFrames, failed} \subseteq BOOLEAN
  BY Zenon DEF Pipeline!Init
<1>2. Pipeline!TypeOK
  BY <1>1 DEF Pipeline!Init, Pipeline!TypeOK, Pipeline!Blank, Pipeline!Surface
<1>3. Sessions
  BY DEF Pipeline!Init, Sessions, OfItsTime, Pipeline!Blank
<1>4. Drained
  BY DEF Pipeline!Init, Drained
<1>5. Pictured
  BY DEF Pipeline!Init, Pictured
<1> QED
  BY <1>2, <1>3, <1>4, <1>5 DEF PipeInv

-----------------------------------------------------------------------------
\* The decoder is not without a surface: those that wait for the window, the one
\* it shows and those still to come out are fewer.
LEMMA SurfaceIsFree == PipeInv => Pipeline!NeverDry
<1> SUFFICES ASSUME PipeInv, at = "decoding", inside # <<>>, Pipeline!Free = {} PROVE FALSE
  BY DEF Pipeline!NeverDry
<1> USE PartsAssumption DEF Pipeline!Assumption
<1>1. /\ output \in Seq(Pipeline!Frame) /\ queue \in Seq(Pipeline!Frame)
      /\ hand \in Seq(Pipeline!Frame) /\ shown \in Seq(Pipeline!Frame)
      /\ inside \in Seq(1 .. MaxFrames)
      /\ Len(queue) <= Capacity /\ Len(hand) <= 1 /\ Len(shown) <= 1
  BY DEF PipeInv, Pipeline!TypeOK
<1>2. Len(output) <= Delay
  <2>1. Len(output) + Len(inside) <= Delay + 1
    BY DEF PipeInv, Drained
  <2>2. Len(inside) >= 1
    BY <1>1
  <2> QED
    BY <1>1, <2>1, <2>2
<1> DEFINE all == output \o queue \o hand \o shown
           n == Len(all)
           picks == [i \in 1 .. n |-> IF all[i].surface \in Pipeline!Surface THEN all[i].surface ELSE 1]
<1>3. /\ all \in Seq(Pipeline!Frame) /\ n = Len(output) + Len(queue) + Len(hand) + Len(shown)
      /\ n \in Nat /\ n < Surfaces
  BY <1>1, <1>2
<1>4. /\ \A i \in DOMAIN output : \E j \in 1 .. n : all[j] = output[i]
      /\ \A i \in DOMAIN queue : \E j \in 1 .. n : all[j] = queue[i]
      /\ \A i \in DOMAIN hand : \E j \in 1 .. n : all[j] = hand[i]
      /\ \A i \in DOMAIN shown : \E j \in 1 .. n : all[j] = shown[i]
  <2>0. \A p, q \in Seq(Pipeline!Frame) :
          /\ p \o q \in Seq(Pipeline!Frame) /\ Len(p \o q) = Len(p) + Len(q)
          /\ \A i \in 1 .. Len(p) : (p \o q)[i] = p[i]
          /\ \A i \in 1 .. Len(q) : (p \o q)[Len(p) + i] = q[i]
    OBVIOUS
  <2> DEFINE two == output \o queue
             three == two \o hand
  <2>5. /\ two \in Seq(Pipeline!Frame) /\ Len(two) = Len(output) + Len(queue)
        /\ three \in Seq(Pipeline!Frame) /\ Len(three) = Len(two) + Len(hand)
        /\ all = three \o shown
        /\ \A i \in 1 .. Len(output) : two[i] = output[i]
        /\ \A i \in 1 .. Len(queue) : two[Len(output) + i] = queue[i]
        /\ \A i \in 1 .. Len(two) : three[i] = two[i]
        /\ \A i \in 1 .. Len(hand) : three[Len(two) + i] = hand[i]
    <3>1. /\ two \in Seq(Pipeline!Frame) /\ Len(two) = Len(output) + Len(queue)
          /\ \A i \in 1 .. Len(output) : two[i] = output[i]
          /\ \A i \in 1 .. Len(queue) : two[Len(output) + i] = queue[i]
      BY <1>1, <2>0
    <3> HIDE DEF two
    <3> QED
      BY <1>1, <2>0, <3>1 DEF two
  <2>6. /\ \A i \in 1 .. Len(three) : all[i] = three[i]
        /\ \A i \in 1 .. Len(shown) : all[Len(three) + i] = shown[i]
    <3> HIDE DEF all, three
    <3> QED
      BY ONLY <1>1, <2>0, <2>5
  <2>7. \A p \in Seq(Pipeline!Frame) : DOMAIN p = 1 .. Len(p) /\ Len(p) \in Nat
    OBVIOUS
  <2> HIDE DEF all, two, three, n
  <2>9. /\ Len(output) \in Nat /\ Len(queue) \in Nat /\ Len(hand) \in Nat /\ Len(shown) \in Nat
        /\ DOMAIN output = 1 .. Len(output) /\ DOMAIN queue = 1 .. Len(queue)
    BY ONLY <1>1, <2>7
  <2>8. \A i \in 1 .. Len(two) : i \in 1 .. Len(three) /\ all[i] = two[i]
    <3>1. Len(two) \in Nat /\ Len(hand) \in Nat
      BY ONLY <1>1, <2>5, <2>7
    <3> QED
      BY ONLY <2>5, <2>6, <3>1
  <2>1. ASSUME NEW i \in DOMAIN output PROVE i \in 1 .. n /\ all[i] = output[i]
    BY ONLY <1>3, <2>1, <2>5, <2>8, <2>9
  <2>2. ASSUME NEW i \in DOMAIN queue
        PROVE  Len(output) + i \in 1 .. n /\ all[Len(output) + i] = queue[i]
    BY ONLY <1>3, <2>2, <2>5, <2>8, <2>9
  <2>3. ASSUME NEW i \in DOMAIN hand
        PROVE  Len(output) + Len(queue) + i \in 1 .. n /\ all[Len(output) + Len(queue) + i] = hand[i]
    BY ONLY <1>1, <1>3, <2>3, <2>5, <2>6, <2>7
  <2>4. ASSUME NEW i \in DOMAIN shown
        PROVE  /\ Len(output) + Len(queue) + Len(hand) + i \in 1 .. n
               /\ all[Len(output) + Len(queue) + Len(hand) + i] = shown[i]
    BY ONLY <1>1, <1>3, <2>4, <2>5, <2>6, <2>7
  <2> QED
    BY <2>1, <2>2, <2>3, <2>4
<1> HIDE DEF all, n
<1>5. \A s \in Pipeline!Surface : \E j \in 1 .. n : all[j].surface = s
  <2> SUFFICES ASSUME NEW s \in Pipeline!Surface PROVE \E j \in 1 .. n : all[j].surface = s
    OBVIOUS
  <2>1. PICK f \in Pipeline!ToSet(output) \cup Pipeline!ToSet(queue) \cup Pipeline!ToSet(hand) \cup Pipeline!ToSet(shown) :
          f.surface = s
    BY DEF Pipeline!Free, Pipeline!Holds
  <2>2. \E j \in 1 .. n : all[j] = f
    BY <1>4, <2>1 DEF Pipeline!ToSet
  <2> QED
    BY <2>1, <2>2
<1>6. picks \in Surjection(1 .. n, Pipeline!Surface)
  <2>1. 1 \in Pipeline!Surface
    BY DEF Pipeline!Surface
  <2>2. picks \in [1 .. n -> Pipeline!Surface]
    BY <2>1
  <2>3. \A s \in Pipeline!Surface : \E j \in 1 .. n : picks[j] = s
    BY <1>5
  <2> QED
    BY <2>2, <2>3 DEF Surjection
<1>7. /\ IsFiniteSet(1 .. n) /\ Cardinality(1 .. n) = n
      /\ Cardinality(Pipeline!Surface) = Surfaces
  <2>1. IsFiniteSet(1 .. n) /\ Cardinality(1 .. n) = n
    BY <1>3, FS_Interval
  <2>2. Surfaces \in Nat \ {0} /\ Cardinality(1 .. Surfaces) = Surfaces
    BY FS_Interval
  <2> QED
    BY <2>1, <2>2 DEF Pipeline!Surface
<1>8. Surfaces <= n
  <2> HIDE DEF picks
  <2> QED
    BY <1>6, <1>7, FS_Surjection
<1> QED
  BY <1>3, <1>8

\* Nobody has a picture in a free surface.
LEMMA FreeIsFree ==
  ASSUME NEW s \in Pipeline!Free
  PROVE  /\ s \in Pipeline!Surface
         /\ \A i \in DOMAIN output : ~Pipeline!Holds(output[i], s)
         /\ \A i \in DOMAIN queue : ~Pipeline!Holds(queue[i], s)
         /\ \A i \in DOMAIN hand : ~Pipeline!Holds(hand[i], s)
         /\ \A i \in DOMAIN shown : ~Pipeline!Holds(shown[i], s)
  BY DEF Pipeline!Free, Pipeline!ToSet

-----------------------------------------------------------------------------
\* What TypeOK says, but for the flags.
LEMMA PipeTyped ==
  ASSUME PipeInv
  PROVE  /\ session \in Nat /\ session <= MaxSessions /\ fed \in 0 .. MaxFrames
         /\ inside \in Seq(1 .. MaxFrames)
         /\ output \in Seq(Pipeline!Frame) /\ Len(output) <= OutputCap
         /\ queue \in Seq(Pipeline!Frame) /\ Len(queue) <= Capacity
         /\ hand \in Seq(Pipeline!Frame) /\ Len(hand) <= 1
         /\ shown \in Seq(Pipeline!Frame) /\ Len(shown) <= 1
         /\ pool \in [Pipeline!Surface -> 0 .. MaxFrames]
         /\ view.session \in Nat /\ view.id \in Nat
         /\ {ready, hardware, pushed, wakes, gpuFrames, failed} \subseteq BOOLEAN
         /\ \A f \in Pipeline!Frame :
              /\ f.session \in 1 .. MaxSessions /\ f.id \in 1 .. MaxFrames /\ f.surface \in 0 .. Surfaces
         /\ {MaxFrames, MaxLater, MaxSessions, Capacity, OutputCap, Surfaces} \subseteq Nat \ {0}
         /\ Delay \in Nat /\ MaxLater <= MaxFrames
<1> USE PartsAssumption DEF Pipeline!Assumption
<1>1. \A f \in Pipeline!Frame :
        f.session \in 1 .. MaxSessions /\ f.id \in 1 .. MaxFrames /\ f.surface \in 0 .. Surfaces
  BY DEF Pipeline!Frame
<1>2. view.session \in Nat /\ view.id \in Nat
  <2>1. /\ view \in {Pipeline!Blank} \cup [session : 1 .. MaxSessions, id : 1 .. MaxFrames]
        /\ MaxSessions \in Nat /\ MaxFrames \in Nat
    BY DEF PipeInv, Pipeline!TypeOK
  <2> QED
    BY ONLY <2>1 DEF Pipeline!Blank
<1> QED
  BY <1>1, <1>2 DEF PipeInv, Pipeline!TypeOK

\* Those facts about one queue and its entries.
LEMMA PipeNumbers ==
  ASSUME PipeInv
  PROVE  /\ session \in Nat /\ fed \in Nat /\ view.session \in Nat /\ view.id \in Nat
         /\ DOMAIN inside = 1 .. Len(inside) /\ Len(inside) \in Nat
         /\ DOMAIN output = 1 .. Len(output) /\ Len(output) \in Nat
         /\ DOMAIN queue = 1 .. Len(queue) /\ Len(queue) \in Nat
         /\ \A i \in DOMAIN inside : inside[i] \in Nat
         /\ \A i \in DOMAIN output : output[i].id \in Nat /\ output[i].session \in Nat
         /\ \A i \in DOMAIN queue : queue[i].id \in Nat /\ queue[i].session \in Nat
         /\ \A i \in DOMAIN hand : hand[i].id \in Nat /\ hand[i].session \in Nat
         /\ \A i \in DOMAIN shown : shown[i].id \in Nat /\ shown[i].session \in Nat
<1>1. /\ session \in Nat /\ fed \in 0 .. MaxFrames /\ inside \in Seq(1 .. MaxFrames)
      /\ output \in Seq(Pipeline!Frame) /\ queue \in Seq(Pipeline!Frame)
      /\ hand \in Seq(Pipeline!Frame) /\ shown \in Seq(Pipeline!Frame)
      /\ view.session \in Nat /\ view.id \in Nat
      /\ \A f \in Pipeline!Frame : f.session \in 1 .. MaxSessions /\ f.id \in 1 .. MaxFrames
      /\ MaxFrames \in Nat /\ MaxSessions \in Nat
  BY PipeTyped
<1>2. \A q \in Seq(Pipeline!Frame) :
        /\ DOMAIN q = 1 .. Len(q) /\ Len(q) \in Nat
        /\ \A i \in DOMAIN q : q[i].id \in Nat /\ q[i].session \in Nat
  <2> SUFFICES ASSUME NEW q \in Seq(Pipeline!Frame)
               PROVE  /\ DOMAIN q = 1 .. Len(q) /\ Len(q) \in Nat
                      /\ \A i \in DOMAIN q : q[i].id \in Nat /\ q[i].session \in Nat
    OBVIOUS
  <2>1. \A i \in DOMAIN q : q[i] \in Pipeline!Frame
    OBVIOUS
  <2> QED
    BY <1>1, <2>1
<1>3. /\ DOMAIN inside = 1 .. Len(inside) /\ Len(inside) \in Nat
      /\ \A i \in DOMAIN inside : inside[i] \in Nat
  BY ONLY <1>1
<1> QED
  BY ONLY <1>1, <1>2, <1>3

\* The session's beginning and its end.
LEMMA PipeSessionStep ==
  ASSUME PipeInv,
         Pipeline!BeginSession \/ Pipeline!ResetTransform \/ Pipeline!ResetVideoToolbox \/ Pipeline!EndSession
  PROVE  PipeInv'
<1> USE PipeTyped
<1>1. Pipeline!TypeOK /\ Sessions /\ Drained /\ Pictured
  BY DEF PipeInv
<1>2. CASE Pipeline!BeginSession
  <2>1. /\ phase = "between" /\ session < MaxSessions /\ session' = session + 1
        /\ phase' = "resetting" /\ fed' = 0
        /\ UNCHANGED <<backend, ready, hardware, inside, output, pool, at, pushed, queue, wakes,
                       hand, renderer, gpuFrames, shown, view, failed>>
    BY <1>2 DEF Pipeline!BeginSession, Pipeline!window
  <2>2. Pipeline!TypeOK'
    BY <1>1, <2>1 DEF Pipeline!TypeOK
  <2>3. Sessions'
    <3>1. at = "waiting" /\ queue = <<>> /\ view.session <= session
      BY <1>1, <2>1 DEF Sessions, OfItsTime
    <3>2. /\ \A i \in DOMAIN output : output[i].session <= session
          /\ \A i \in DOMAIN hand : hand[i].session <= session
          /\ \A i \in DOMAIN shown : shown[i].session <= session
      BY <1>1 DEF Sessions, OfItsTime
    <3>3. /\ \A i \in DOMAIN output : output[i].session \in Nat
          /\ \A i \in DOMAIN hand : hand[i].session \in Nat
          /\ \A i \in DOMAIN shown : shown[i].session \in Nat
          /\ session \in Nat /\ view.session \in Nat
      BY ONLY PipeInv, PipeNumbers
    <3> QED
      BY ONLY <2>1, <3>1, <3>2, <3>3 DEF Sessions, OfItsTime
  <2>4. Drained'
    BY <1>1, <2>1 DEF Drained
  <2>5. Pictured'
    <3>1. queue = <<>>
      BY <1>1, <2>1 DEF Sessions
    <3>2. /\ \A i \in DOMAIN output : output[i].session # session'
          /\ \A i \in DOMAIN hand : hand[i].session # session'
          /\ \A i \in DOMAIN shown : shown[i].session # session'
      <4>1. /\ \A i \in DOMAIN output : output[i].session <= session /\ output[i].session \in Nat
            /\ \A i \in DOMAIN hand : hand[i].session <= session /\ hand[i].session \in Nat
            /\ \A i \in DOMAIN shown : shown[i].session <= session /\ shown[i].session \in Nat
            /\ session \in Nat
        BY <1>1, PipeNumbers DEF Sessions, OfItsTime
      <4> QED
        BY ONLY <2>1, <4>1
    <3> QED
      BY <2>1, <3>1, <3>2 DEF Pictured, HasPicture
  <2> QED
    BY <2>2, <2>3, <2>4, <2>5 DEF PipeInv
<1>3. ASSUME NEW r \in BOOLEAN, phase = "resetting", Pipeline!Fresh(r) PROVE PipeInv'
  <2>1. /\ phase' = "streaming" /\ inside' = <<>> /\ output' = <<>> /\ hardware' = FALSE /\ ready' = r
        /\ pool' = [s \in Pipeline!Surface |-> 0]
        /\ UNCHANGED <<backend, session, fed, at, pushed, queue, wakes,
                       hand, renderer, gpuFrames, shown, view, failed>>
    BY <1>3 DEF Pipeline!Fresh, Pipeline!window
  <2>2. Pipeline!TypeOK'
    <3>1. {ready, hardware, pushed, wakes, gpuFrames, failed}' \subseteq BOOLEAN
      BY <1>3, <2>1, Zenon
    <3> QED
      BY <1>1, <2>1, <3>1 DEF Pipeline!TypeOK
  <2>3. queue = <<>> /\ session > 0 /\ fed = 0 /\ at = "waiting"
    BY <1>1, <1>3 DEF Sessions
  <2>4. /\ \A i \in DOMAIN hand : hand[i].session < session
        /\ \A i \in DOMAIN shown : shown[i].session < session
        /\ view.session < session
    BY <1>1, <1>3 DEF Sessions, OfItsTime
  <2>5. InLine'
    BY <2>1, <2>3, <2>4 DEF InLine
  <2>6. Sessions'
    BY <2>1, <2>3, <2>4, <2>5 DEF Sessions, OfItsTime
  <2>7. Drained'
    BY <2>1, <2>3 DEF Drained
  <2>8. Pictured'
    BY <2>1, <2>3, <2>4 DEF Pictured, HasPicture
  <2> QED
    BY <2>2, <2>6, <2>7, <2>8 DEF PipeInv
<1>4. CASE Pipeline!EndSession
  <2>1. /\ phase = "streaming" /\ at = "waiting" /\ phase' = "between" /\ queue' = <<>>
        /\ UNCHANGED <<backend, session, ready, fed, hardware, inside, output, pool, at, pushed, wakes,
                       hand, renderer, gpuFrames, shown, view, failed>>
    BY <1>4 DEF Pipeline!EndSession, Pipeline!decoder, Pipeline!window
  <2>2. Pipeline!TypeOK'
    BY <1>1, <2>1 DEF Pipeline!TypeOK
  <2>3. Sessions'
    <3>1. /\ session > 0 /\ phase' # "streaming" /\ phase' # "resetting" /\ at' = "waiting" /\ queue' = <<>>
          /\ view.session <= session
      BY <1>1, <2>1 DEF Sessions, OfItsTime
    <3>2. /\ \A i \in DOMAIN output : output[i].session <= session
          /\ \A i \in DOMAIN hand : hand[i].session <= session
          /\ \A i \in DOMAIN shown : shown[i].session <= session
      BY <1>1 DEF Sessions, OfItsTime
    <3> QED
      BY <2>1, <3>1, <3>2 DEF Sessions, OfItsTime
  <2>4. Drained'
    BY <1>1, <2>1 DEF Drained
  <2>5. Pictured'
    BY <1>1, <2>1 DEF Pictured, HasPicture
  <2> QED
    BY <2>2, <2>3, <2>4, <2>5 DEF PipeInv
<1> QED
  BY <1>2, <1>3, <1>4 DEF Pipeline!ResetTransform, Pipeline!ResetVideoToolbox

\* A frame is given to the decoder.
LEMMA PipeFrameStep == PipeInv /\ Pipeline!FrameOfPass => PipeInv'
<1> SUFFICES ASSUME PipeInv, Pipeline!FrameOfPass PROVE PipeInv'
  OBVIOUS
<1>0. /\ session \in Nat /\ fed \in 0 .. MaxFrames /\ inside \in Seq(1 .. MaxFrames)
      /\ MaxFrames \in Nat /\ MaxLater \in Nat /\ MaxLater <= MaxFrames /\ Delay \in Nat
      /\ {ready, hardware, pushed, wakes, gpuFrames, failed} \subseteq BOOLEAN
  BY PipeTyped
<1>1. Pipeline!TypeOK /\ Sessions /\ Drained /\ Pictured
  BY DEF PipeInv
<1>2. /\ phase = "streaming" /\ at \in {"waiting", "next"} /\ fed < MaxFrames
      /\ fed' = fed + 1
      /\ UNCHANGED <<backend, session, phase, ready, output, pool, pushed, queue, wakes,
                     hand, renderer, gpuFrames, shown, view, failed>>
  BY <1>0 DEF Pipeline!FrameOfPass, Pipeline!NextFrame, Pipeline!More, Pipeline!SubmitInput, Pipeline!DecodeFrame,
     Pipeline!NewParameterSets, Pipeline!DecodeFails, Pipeline!window
<1>3. /\ at' \in {"decoding", "draining", "leaving"}
      /\ at' = "decoding" => backend = "mf" /\ inside' = Append(inside, fed + 1)
      /\ at' = "draining" => backend = "vt"
      /\ inside' \in {inside, Append(inside, fed + 1), <<fed + 1>>, <<>>}
      /\ at' = "leaving" => inside' = inside
  BY DEF Pipeline!FrameOfPass, Pipeline!SubmitInput, Pipeline!DecodeFrame,
     Pipeline!NewParameterSets, Pipeline!DecodeFails
<1>4. hardware' \in BOOLEAN
  <2>1. hardware' = hardware \/ hardware' \in BOOLEAN
    BY Zenon DEF Pipeline!FrameOfPass, Pipeline!SubmitInput, Pipeline!DecodeFrame,
      Pipeline!NewParameterSets, Pipeline!DecodeFails
  <2>2. hardware \in BOOLEAN
    BY <1>0
  <2> QED
    BY ONLY <2>1, <2>2, Zenon
<1>5. /\ inside' \in Seq(1 .. MaxFrames) /\ Len(inside') <= Len(inside) + 1
      /\ DOMAIN inside' = 1 .. Len(inside') /\ Len(inside') \in Nat
      /\ \A i \in DOMAIN inside' :
           /\ (i \in DOMAIN inside /\ inside'[i] = inside[i]) \/ inside'[i] = fed + 1
           /\ i < Len(inside') => i \in DOMAIN inside /\ inside'[i] = inside[i]
  <2>0. inside \in Seq(1 .. MaxFrames) /\ fed + 1 \in 1 .. MaxFrames
    BY <1>0, <1>2
  <2>1. CASE inside' = Append(inside, fed + 1)
    <3>1. /\ inside' \in Seq(1 .. MaxFrames) /\ Len(inside') = Len(inside) + 1
          /\ inside'[Len(inside) + 1] = fed + 1
          /\ \A i \in 1 .. Len(inside) : inside'[i] = inside[i]
      BY ONLY <2>0, <2>1
    <3> QED
      BY ONLY <2>0, <3>1
  <2>2. CASE inside' = <<fed + 1>>
    BY ONLY <2>0, <2>2
  <2>3. CASE inside' = inside
    BY ONLY <2>0, <2>3
  <2>4. CASE inside' = <<>>
    BY ONLY <2>0, <2>4
  <2> QED
    BY ONLY <1>3, <2>1, <2>2, <2>3, <2>4
<1>6. Pipeline!TypeOK'
  <2>1. {ready, hardware, pushed, wakes, gpuFrames, failed}' \subseteq BOOLEAN
    BY ONLY <1>0, <1>2, <1>4, Zenon
  <2>2. fed' \in 0 .. MaxFrames
    BY ONLY <1>0, <1>2
  <2>3. at' \in {"waiting", "next", "decoding", "draining", "leaving"}
    BY ONLY <1>3
  <2> QED
    BY ONLY <1>1, <1>2, <1>5, <2>1, <2>2, <2>3 DEF Pipeline!TypeOK
<1>7. InLine /\ session > 0
  BY ONLY <1>1, <1>2 DEF Sessions
<1>8. \A n \in Int : AheadOf(n) => AheadOf(n)'
  <2> SUFFICES ASSUME NEW n \in Int, AheadOf(n) PROVE AheadOf(n)'
    OBVIOUS
  <2>1. n <= fed /\ \A j \in DOMAIN inside : n < inside[j]
    BY DEF AheadOf
  <2>2. n <= fed' /\ n < fed + 1
    BY ONLY <1>0, <1>2, <2>1
  <2>3. \A j \in DOMAIN inside' : n < inside'[j]
    BY ONLY <1>5, <2>1, <2>2
  <2> QED
    BY <2>2, <2>3 DEF AheadOf
<1>9. InLine'
  <2>0. \A i \in DOMAIN inside : inside[i] \in Nat /\ inside[i] <= fed
    BY PipeNumbers, <1>7 DEF InLine
  <2>1. \A i, j \in DOMAIN inside' : i < j => inside'[i] < inside'[j]
    <3> SUFFICES ASSUME NEW i \in DOMAIN inside', NEW j \in DOMAIN inside', i < j PROVE inside'[i] < inside'[j]
      OBVIOUS
    <3>1. i < Len(inside') /\ i \in DOMAIN inside /\ inside'[i] = inside[i] /\ inside[i] <= fed
      BY ONLY <1>5, <2>0, i < j, i \in DOMAIN inside', j \in DOMAIN inside'
    <3>2. CASE inside'[j] = fed + 1
      BY ONLY <1>0, <2>0, <3>1, <3>2
    <3>3. CASE j \in DOMAIN inside /\ inside'[j] = inside[j]
      <4>1. inside[i] < inside[j]
        BY <1>7, <3>1, <3>3 DEF InLine
      <4> QED
        BY ONLY <3>1, <3>3, <4>1
    <3> QED
      BY ONLY <1>5, <3>2, <3>3
  <2>2. \A i \in DOMAIN inside' : inside'[i] <= fed'
    <3>1. \A i \in DOMAIN inside' : inside'[i] <= fed + 1
      <4>1. fed \in Nat /\ \A i \in DOMAIN inside : inside[i] <= fed + 1
        BY ONLY <1>0, <2>0
      <4> QED
        BY ONLY <1>5, <4>1
    <3> QED
      BY ONLY <1>2, <3>1
  <2>3. \A n \in Int : AheadInAll(n) => AheadInAll(n)'
    BY ONLY <1>2, <1>8 DEF AheadInAll
  <2>4. /\ \A i \in DOMAIN output : output[i].id \in Int
        /\ \A i \in DOMAIN queue : queue[i].id \in Int
        /\ \A i \in DOMAIN hand : hand[i].id \in Int
        /\ view.id \in Int
    BY PipeNumbers
  <2> HIDE DEF AheadOf, AheadInAll
  <2> QED
    BY ONLY <1>2, <1>7, <1>8, <2>1, <2>2, <2>3, <2>4 DEF InLine
<1>10. Sessions'
  BY ONLY <1>1, <1>2, <1>3, <1>7, <1>9 DEF Sessions, OfItsTime
<1>11. Drained'
  <2>1. backend = "mf" => output = <<>> /\ Len(inside) <= Delay
    BY ONLY <1>1, <1>2 DEF Drained
  <2>2. Len(inside) \in Nat /\ Len(inside') \in Nat
    BY <1>5, PipeNumbers
  <2>3. output = <<>> => Len(output) = 0
    OBVIOUS
  <2>4. backend = "mf" /\ at' = "decoding" => Len(output) + Len(inside') <= Delay + 1
    BY ONLY <1>0, <1>5, <2>1, <2>2, <2>3
  <2>5. backend = "mf" /\ at' # "decoding" => at' = "leaving" /\ Len(inside') <= Delay
    BY ONLY <1>3, <2>1
  <2> QED
    BY ONLY <1>2, <1>3, <2>1, <2>4, <2>5 DEF Drained
<1>12. Pictured'
  BY ONLY <1>1, <1>2 DEF Pictured, HasPicture
<1> QED
  BY <1>6, <1>10, <1>11, <1>12 DEF PipeInv

\* The decoder puts its oldest frame out, or VideoToolbox reports an error for it.
LEMMA PipeEmit ==
  ASSUME PipeInv, inside # <<>>, NEW f \in Pipeline!Frame, f.session = session, f.id = inside[1],
         output' = output \/ output' = Pipeline!Pushed(output, f, OutputCap),
         inside' = Tail(inside),
         UNCHANGED <<session, fed, phase, at, queue, hand, shown, view>>
  PROVE  /\ output' \in Seq(Pipeline!Frame) /\ Len(output') <= OutputCap
         /\ inside' \in Seq(1 .. MaxFrames)
         /\ Len(output') + Len(inside') <= Len(output) + Len(inside)
         /\ \A i \in DOMAIN output' : output'[i] = f \/ \E j \in DOMAIN output : output'[i] = output[j]
         /\ Sessions'
<1>0. /\ session \in Nat /\ inside \in Seq(1 .. MaxFrames) /\ OutputCap \in Nat \ {0}
      /\ output \in Seq(Pipeline!Frame) /\ Len(output) <= OutputCap
      /\ MaxFrames \in Nat
  BY PipeTyped
<1>1. Sessions
  BY DEF PipeInv
<1>2. /\ inside' \in Seq(1 .. MaxFrames) /\ Len(inside') = Len(inside) - 1
      /\ DOMAIN inside' = 1 .. Len(inside) - 1 /\ Len(inside) \in Nat \ {0}
      /\ \A i \in DOMAIN inside' : inside'[i] = inside[i + 1] /\ i + 1 \in DOMAIN inside
      /\ 1 \in DOMAIN inside
  BY ONLY <1>0, inside # <<>>, inside' = Tail(inside)
<1>3. /\ output' \in Seq(Pipeline!Frame) /\ Len(output') <= OutputCap
      /\ \/ output' = output
         \/ \E d \in {0, 1} : PushedFrom(output, f, d, output')
  BY ONLY <1>0, PushedShape, f \in Pipeline!Frame,
     output' = output \/ output' = Pipeline!Pushed(output, f, OutputCap)
<1>4. PutBehind(output, f, output') /\ Len(output) \in Nat /\ Len(output') \in Nat
  <2>1. PutBehind(output, f, output')
    BY ONLY <1>0, <1>3, f \in Pipeline!Frame, PushedBehind
  <2>2. \A q \in Seq(Pipeline!Frame) : Len(q) \in Nat
    OBVIOUS
  <2> QED
    BY ONLY <1>0, <1>3, <2>1, <2>2
<1>7. \A i \in DOMAIN output' : output'[i] = f \/ \E j \in DOMAIN output : output'[i] = output[j]
  BY ONLY <1>4 DEF PutBehind
<1>5. Sessions'
  <2>1. /\ \A i \in DOMAIN output : output[i].session \in Nat /\ output[i].id \in Nat
        /\ \A i \in DOMAIN queue : queue[i].id \in Nat
        /\ \A i \in DOMAIN hand : hand[i].id \in Nat
        /\ \A i \in DOMAIN inside : inside[i] \in Nat
        /\ view.id \in Nat /\ fed \in Nat
    BY PipeNumbers
  <2>2. \A i \in DOMAIN output' : output'[i].session <= session'
    <3>1. \A i \in DOMAIN output : output[i].session <= session
      BY <1>1 DEF Sessions
    <3> QED
      BY ONLY <1>0, <1>7, <3>1, f.session = session, UNCHANGED session
  <2>3. ASSUME phase = "streaming" PROVE InLine'
    <3>1. InLine
      BY <1>1, <2>3 DEF Sessions
    <3>2. /\ \A i, j \in DOMAIN inside : i < j => inside[i] < inside[j]
          /\ \A i \in DOMAIN inside : inside[i] <= fed
      BY <3>1 DEF InLine
    <3>3. \A n \in Nat : AheadOf(n) => AheadOf(n)' /\ n < f.id
      <4> SUFFICES ASSUME NEW n \in Nat, AheadOf(n) PROVE AheadOf(n)' /\ n < f.id
        OBVIOUS
      <4>1. n <= fed /\ \A j \in DOMAIN inside : n < inside[j]
        BY DEF AheadOf
      <4>2. n <= fed' /\ \A j \in DOMAIN inside' : n < inside'[j]
        BY ONLY <1>2, <4>1, UNCHANGED fed
      <4> QED
        BY ONLY <1>2, <4>1, <4>2, f.id = inside[1] DEF AheadOf
    <3>4. f.id \in Nat /\ AheadOf(f.id)'
      <4>1. f.id \in Nat /\ f.id <= fed
        BY ONLY <1>2, <2>1, <3>2, f.id = inside[1]
      <4>2. \A j \in DOMAIN inside' : f.id < inside'[j]
        <5>1. \A j \in DOMAIN inside' : 1 < j + 1 /\ inside'[j] = inside[j + 1] /\ j + 1 \in DOMAIN inside
          BY ONLY <1>2
        <5> QED
          BY ONLY <1>2, <3>2, <5>1, f.id = inside[1]
      <4> QED
        BY ONLY <4>1, <4>2, UNCHANGED fed DEF AheadOf
    <3>5. /\ \A i \in DOMAIN output : output[i].session = session /\ AheadOf(output[i].id)
          /\ \A i, j \in DOMAIN output : i < j => output[i].id < output[j].id
          /\ \A i \in DOMAIN queue :
               /\ queue[i].session = session /\ AheadOf(queue[i].id)
               /\ \A j \in DOMAIN output : queue[i].id < output[j].id
          /\ \A i, j \in DOMAIN queue : i < j => queue[i].id < queue[j].id
          /\ \A i \in DOMAIN hand : hand[i].session = session => AheadInAll(hand[i].id)
          /\ view.session = session => AheadInAll(view.id)
      BY <3>1 DEF InLine
    <3>6. /\ \A i \in DOMAIN inside' : inside'[i] <= fed'
          /\ \A i, j \in DOMAIN inside' : i < j => inside'[i] < inside'[j]
      BY ONLY <1>2, <2>1, <3>2, UNCHANGED fed
    <3>7. (\A i \in DOMAIN output : output[i].session = session /\ AheadOf(output[i].id))'
      <4> HIDE DEF AheadOf
      <4> QED
        BY ONLY <1>7, <2>1, <3>3, <3>4, <3>5, f.session = session, UNCHANGED session
    <3>8. \A i, j \in DOMAIN output' : i < j => output'[i].id < output'[j].id
      BY ONLY <1>4, <2>1, <3>3, <3>5 DEF PutBehind
    <3>9. \A n \in Nat : AheadOf(n) /\ (\A j \in DOMAIN output : n < output[j].id)
                          => \A j \in DOMAIN output' : n < output'[j].id
      BY ONLY <1>7, <2>1, <3>3
    <3>10. \A n \in Nat : AheadInAll(n) => AheadInAll(n)'
      BY ONLY <3>3, <3>9, UNCHANGED queue DEF AheadInAll
    <3> HIDE DEF AheadOf, AheadInAll
    <3> QED
      BY ONLY <2>1, <3>3, <3>5, <3>6, <3>7, <3>8, <3>9, <3>10, UNCHANGED <<session, queue, hand, view>>
         DEF InLine
  <2>4. phase # "between" \/ inside' # <<>> => session > 0
    <3>1. inside' # <<>> => inside # <<>>
      BY ONLY <1>2
    <3> QED
      BY ONLY <1>1, <3>1 DEF Sessions
  <2>5. /\ at # "waiting" \/ queue # <<>> => phase = "streaming"
        /\ phase = "resetting" => fed = 0
        /\ \A i \in DOMAIN hand : OfItsTime(hand[i].session)
        /\ \A i \in DOMAIN shown : OfItsTime(shown[i].session)
        /\ OfItsTime(view.session)
    BY ONLY <1>1 DEF Sessions
  <2>6. \A n \in Nat : OfItsTime(n) => OfItsTime(n)'
    BY ONLY UNCHANGED <<session, phase>> DEF OfItsTime
  <2>7. /\ \A i \in DOMAIN hand : hand[i].session \in Nat
        /\ \A i \in DOMAIN shown : shown[i].session \in Nat
        /\ view.session \in Nat
    BY PipeNumbers
  <2> HIDE DEF InLine, OfItsTime
  <2> QED
    BY ONLY <2>2, <2>3, <2>4, <2>5, <2>6, <2>7, UNCHANGED <<session, fed, phase, at, queue, hand, shown, view>>
       DEF Sessions
<1>6. Len(output') + Len(inside') <= Len(output) + Len(inside)
  BY ONLY <1>2, <1>4 DEF PutBehind
<1> QED
  BY ONLY <1>2, <1>3, <1>5, <1>6, <1>7

\* Media Foundation's way: into a free surface, while the presenter takes those.
LEMMA PipeOutputStep == PipeInv /\ Pipeline!ProcessOutput => PipeInv'
<1> SUFFICES ASSUME PipeInv, Pipeline!ProcessOutput PROVE PipeInv'
  OBVIOUS
<1>a. /\ at = "decoding" /\ Len(inside) > 0 /\ Pipeline!Free # {}
      /\ LET d == CHOOSE d \in Pipeline!Free : TRUE
         IN /\ output' = Pipeline!Pushed(output, Pipeline!SampleToFrame(d), OutputCap)
            /\ pool' = [pool EXCEPT ![d] = inside[1]]
  BY DEF Pipeline!ProcessOutput
<1>b. PICK s \in Pipeline!Free :
         /\ output' = Pipeline!Pushed(output, Pipeline!SampleToFrame(s), OutputCap)
         /\ pool' = [pool EXCEPT ![s] = inside[1]]
  BY ONLY <1>a
<1>c. PICK f : f = Pipeline!SampleToFrame(s)
  OBVIOUS
<1>1. /\ at = "decoding" /\ Len(inside) > 0 /\ s \in Pipeline!Free
      /\ output' = Pipeline!Pushed(output, f, OutputCap)
      /\ pool' = [pool EXCEPT ![s] = inside[1]]
      /\ inside' = Tail(inside)
      /\ UNCHANGED <<backend, session, phase, ready, fed, hardware, at, pushed, queue, wakes,
                     hand, renderer, gpuFrames, shown, view, failed>>
  BY <1>a, <1>b, <1>c DEF Pipeline!ProcessOutput, Pipeline!window
<1>2. Pipeline!TypeOK /\ Sessions /\ Drained /\ Pictured
  BY DEF PipeInv
<1>3. /\ session \in 1 .. MaxSessions /\ inside[1] \in 1 .. MaxFrames /\ inside # <<>>
      /\ Surfaces \in Nat
  <2>1. /\ session \in Nat /\ session <= MaxSessions /\ inside \in Seq(1 .. MaxFrames)
        /\ MaxSessions \in Nat /\ Surfaces \in Nat
    BY PipeTyped
  <2>2. inside # <<>> /\ inside[1] \in 1 .. MaxFrames
    <3>1. Len(inside) \in Nat /\ (inside = <<>> => Len(inside) = 0)
      BY ONLY <2>1
    <3>2. inside # <<>>
      BY <1>1, <3>1
    <3> QED
      BY ONLY <2>1, <3>2, HeadShape
  <2>3. session > 0
    BY ONLY <1>2, <2>2 DEF Sessions
  <2> QED
    BY ONLY <2>1, <2>2, <2>3
<1>4. /\ s \in Pipeline!Surface
      /\ \A i \in DOMAIN output : ~Pipeline!Holds(output[i], s)
      /\ \A i \in DOMAIN queue : ~Pipeline!Holds(queue[i], s)
      /\ \A i \in DOMAIN hand : ~Pipeline!Holds(hand[i], s)
      /\ \A i \in DOMAIN shown : ~Pipeline!Holds(shown[i], s)
  BY <1>1, FreeIsFree
<1>5. /\ f \in Pipeline!Frame /\ f.session = session /\ f.id = inside[1]
      /\ f.surface \in {s, Pipeline!Memory}
  BY <1>3, <1>4, <1>c DEF Pipeline!SampleToFrame, Pipeline!Frame, Pipeline!Surface, Pipeline!Memory
<1>6. /\ output' \in Seq(Pipeline!Frame) /\ Len(output') <= OutputCap
      /\ inside' \in Seq(1 .. MaxFrames)
      /\ Len(output') + Len(inside') <= Len(output) + Len(inside)
      /\ \A i \in DOMAIN output' : output'[i] = f \/ \E j \in DOMAIN output : output'[i] = output[j]
      /\ Sessions'
  BY ONLY PipeInv, <1>1, <1>3, <1>5, PipeEmit
<1>7. Pipeline!TypeOK'
  <2>1. pool' \in [Pipeline!Surface -> 0 .. MaxFrames]
    BY ONLY <1>1, <1>2, <1>3, <1>4 DEF Pipeline!TypeOK
  <2> QED
    BY ONLY <1>1, <1>2, <1>6, <2>1 DEF Pipeline!TypeOK
<1>8. Drained'
  <2>1. Len(output) + Len(inside) <= Delay + 1
    BY <1>1, <1>2 DEF Drained
  <2>2. {Len(output), Len(inside), Len(output'), Len(inside'), Delay} \subseteq Nat
    <3>1. \A q \in Seq(Pipeline!Frame) : Len(q) \in Nat
      OBVIOUS
    <3>2. \A q \in Seq(1 .. MaxFrames) : Len(q) \in Nat
      OBVIOUS
    <3>3. output \in Seq(Pipeline!Frame) /\ inside \in Seq(1 .. MaxFrames) /\ Delay \in Nat
      BY PipeTyped
    <3> QED
      BY ONLY <1>6, <3>1, <3>2, <3>3
  <2>3. Len(output') + Len(inside') <= Delay + 1
    BY ONLY <1>6, <2>1, <2>2
  <2> QED
    BY ONLY <1>1, <1>2, <2>3 DEF Drained
<1>9. Pictured'
  <2>1. \A t \in Pipeline!Frame : HasPicture(t) /\ ~Pipeline!Holds(t, s) => HasPicture(t)'
    <3> SUFFICES ASSUME NEW t \in Pipeline!Frame, HasPicture(t), ~Pipeline!Holds(t, s),
                        t.surface # Pipeline!Memory, t.session = session'
                 PROVE  pool'[t.surface] = t.id
      BY DEF HasPicture
    <3>1. t.session = session /\ pool[t.surface] = t.id /\ t.surface # s
      BY <1>1 DEF HasPicture, Pipeline!Holds
    <3>2. pool \in [Pipeline!Surface -> 0 .. MaxFrames]
      BY PipeTyped
    <3>3. t.surface \in Pipeline!Surface
      BY <1>3 DEF Pipeline!Frame, Pipeline!Surface, Pipeline!Memory
    <3> QED
      BY ONLY <1>1, <3>1, <3>2, <3>3
  <2>2. HasPicture(f)'
    <3>1. pool \in [Pipeline!Surface -> 0 .. MaxFrames]
      BY PipeTyped
    <3> QED
      BY ONLY <1>1, <1>4, <1>5, <3>1 DEF HasPicture
  <2>3. /\ \A i \in DOMAIN output : output[i] \in Pipeline!Frame /\ HasPicture(output[i])
        /\ \A i \in DOMAIN queue : queue[i] \in Pipeline!Frame /\ HasPicture(queue[i])
        /\ \A i \in DOMAIN hand : hand[i] \in Pipeline!Frame /\ HasPicture(hand[i])
        /\ \A i \in DOMAIN shown : shown[i] \in Pipeline!Frame /\ HasPicture(shown[i])
    <3>1. /\ output \in Seq(Pipeline!Frame) /\ queue \in Seq(Pipeline!Frame)
          /\ hand \in Seq(Pipeline!Frame) /\ shown \in Seq(Pipeline!Frame)
      BY PipeTyped
    <3> QED
      BY ONLY <1>2, <3>1 DEF Pictured
  <2> HIDE DEF HasPicture
  <2> QED
    BY ONLY <1>1, <1>4, <1>6, <2>1, <2>2, <2>3 DEF Pictured
<1> QED
  BY ONLY <1>6, <1>7, <1>8, <1>9 DEF PipeInv

\* VideoToolbox's callback; its frames are in memory.
LEMMA PipeCallbackStep == PipeInv /\ Pipeline!OutputCallback => PipeInv'
<1> SUFFICES ASSUME PipeInv, Pipeline!OutputCallback PROVE PipeInv'
  OBVIOUS
<1>9. PICK f : f = [session |-> session, id |-> inside[1], surface |-> Pipeline!Memory]
  OBVIOUS
<1>1. /\ backend = "vt" /\ inside # <<>> /\ inside' = Tail(inside)
      /\ output' = output \/ output' = Pipeline!Pushed(output, f, OutputCap)
      /\ UNCHANGED <<backend, session, phase, ready, fed, hardware, pool, at, pushed, queue, wakes,
                     hand, renderer, gpuFrames, shown, view, failed>>
  BY <1>9 DEF Pipeline!OutputCallback, Pipeline!window
<1>2. Pipeline!TypeOK /\ Sessions /\ Drained /\ Pictured
  BY DEF PipeInv
<1>3. /\ session \in 1 .. MaxSessions /\ inside[1] \in 1 .. MaxFrames /\ Surfaces \in Nat
  <2>1. /\ session \in Nat /\ session <= MaxSessions /\ inside \in Seq(1 .. MaxFrames)
        /\ MaxSessions \in Nat /\ Surfaces \in Nat
    BY PipeTyped
  <2>2. inside # <<>> /\ inside[1] \in 1 .. MaxFrames
    <3>1. Len(inside) \in Nat /\ (inside = <<>> => Len(inside) = 0)
      BY ONLY <2>1
    <3>2. inside # <<>>
      BY <1>1, <3>1
    <3> QED
      BY ONLY <2>1, <3>2, HeadShape
  <2>3. session > 0
    BY ONLY <1>2, <2>2 DEF Sessions
  <2> QED
    BY ONLY <2>1, <2>2, <2>3
<1>4. /\ f \in Pipeline!Frame /\ f.session = session /\ f.id = inside[1]
      /\ f.surface = Pipeline!Memory
  BY <1>3, <1>9 DEF Pipeline!Frame, Pipeline!Memory
<1>5. /\ output' \in Seq(Pipeline!Frame) /\ Len(output') <= OutputCap
      /\ inside' \in Seq(1 .. MaxFrames)
      /\ \A i \in DOMAIN output' : output'[i] = f \/ \E j \in DOMAIN output : output'[i] = output[j]
      /\ Sessions'
  BY ONLY PipeInv, <1>1, <1>4, PipeEmit
<1>6. Pipeline!TypeOK'
  BY ONLY <1>1, <1>2, <1>5 DEF Pipeline!TypeOK
<1>7. Drained'
  BY ONLY <1>1, <1>2 DEF Drained
<1>8. Pictured'
  BY ONLY <1>1, <1>2, <1>4, <1>5 DEF Pictured, HasPicture
<1> QED
  BY ONLY <1>5, <1>6, <1>7, <1>8 DEF PipeInv

\* The receive loop passes a frame on to the window's queue.
LEMMA PipeDrainStep == PipeInv /\ Pipeline!Drain => PipeInv'
<1> SUFFICES ASSUME PipeInv, Pipeline!Drain PROVE PipeInv'
  OBVIOUS
<1>a. PICK f : f = output[1]
  OBVIOUS
<1>1. /\ at = "draining" /\ output # <<>>
      /\ queue' = Pipeline!Pushed(queue, f, Capacity)
      /\ output' = Tail(output) /\ pushed' = TRUE
      /\ UNCHANGED <<backend, session, phase, ready, fed, hardware, inside, pool, at, wakes,
                     hand, renderer, gpuFrames, shown, view, failed>>
  BY <1>a DEF Pipeline!Drain, Pipeline!window
<1>2. Pipeline!TypeOK /\ Sessions /\ Drained /\ Pictured
  BY DEF PipeInv
<1>3. /\ output \in Seq(Pipeline!Frame) /\ Len(output) <= OutputCap /\ OutputCap \in Nat
      /\ queue \in Seq(Pipeline!Frame) /\ Len(queue) <= Capacity /\ Capacity \in Nat \ {0}
  BY PipeTyped
<1>4. /\ f \in Pipeline!Frame /\ f = output[1] /\ 1 \in DOMAIN output
      /\ output' \in Seq(Pipeline!Frame) /\ Len(output') = Len(output) - 1
      /\ Len(output) \in Nat \ {0}
      /\ DOMAIN output = 1 .. Len(output) /\ DOMAIN output' = 1 .. Len(output) - 1
      /\ \A i \in DOMAIN output' : output'[i] = output[i + 1] /\ i + 1 \in DOMAIN output
  BY ONLY <1>a, <1>1, <1>3, HeadShape
<1>5. /\ queue' \in Seq(Pipeline!Frame) /\ Len(queue') <= Capacity
      /\ PutBehind(queue, f, queue')
  BY ONLY <1>1, <1>3, <1>4, PushedShape, PushedBehind
<1>6. Pipeline!TypeOK'
  <2>1. Len(output') <= OutputCap
    BY ONLY <1>3, <1>4
  <2> QED
    BY ONLY <1>1, <1>2, <1>4, <1>5, <2>1 DEF Pipeline!TypeOK
<1>7. InLine'
  <2>0. /\ \A i \in DOMAIN output : output[i].session \in Nat /\ output[i].id \in Nat
        /\ \A i \in DOMAIN queue : queue[i].id \in Nat
        /\ \A i \in DOMAIN hand : hand[i].id \in Nat
        /\ view.id \in Nat
    BY PipeNumbers
  <2>1. InLine
    BY ONLY <1>1, <1>2 DEF Sessions
  <2>2. /\ \A i \in DOMAIN inside : inside[i] <= fed
        /\ \A i, j \in DOMAIN inside : i < j => inside[i] < inside[j]
    BY ONLY <2>1 DEF InLine
  <2>3. /\ \A i \in DOMAIN output : output[i].session = session /\ AheadOf(output[i].id)
        /\ \A i, j \in DOMAIN output : i < j => output[i].id < output[j].id
        /\ \A i \in DOMAIN queue :
             /\ queue[i].session = session /\ AheadOf(queue[i].id)
             /\ \A j \in DOMAIN output : queue[i].id < output[j].id
        /\ \A i, j \in DOMAIN queue : i < j => queue[i].id < queue[j].id
        /\ \A i \in DOMAIN hand : hand[i].session = session => AheadInAll(hand[i].id)
        /\ view.session = session => AheadInAll(view.id)
    BY ONLY <2>1 DEF InLine
  <2>4. \A n \in Nat : AheadOf(n) => AheadOf(n)'
    BY ONLY <1>1 DEF AheadOf
  <2>5. /\ f.id \in Nat /\ f.session = session /\ AheadOf(f.id)
        /\ \A j \in DOMAIN output' : f.id < output'[j].id
    <3>1. \A j \in DOMAIN output' : 1 < j + 1
      BY ONLY <1>4
    <3> QED
      BY ONLY <1>4, <2>0, <2>3, <3>1
  <2>6. /\ (\A i \in DOMAIN output : output[i].session = session /\ AheadOf(output[i].id))'
        /\ \A i, j \in DOMAIN output' : i < j => output'[i].id < output'[j].id
    <3>1. \A i, j \in DOMAIN output' : i < j => i + 1 < j + 1
      BY ONLY <1>4
    <3> HIDE DEF AheadOf
    <3> QED
      BY ONLY <1>1, <1>4, <2>0, <2>3, <2>4, <3>1
  <2>7. /\ (\A i \in DOMAIN queue : queue[i].session = session /\ AheadOf(queue[i].id))'
        /\ \A i \in DOMAIN queue' : \A j \in DOMAIN output' : queue'[i].id < output'[j].id
    <3>1. \A i \in DOMAIN queue' : queue'[i] = f \/ \E k \in DOMAIN queue : queue'[i] = queue[k]
      BY ONLY <1>5 DEF PutBehind
    <3>2. \A i \in DOMAIN queue : \A j \in DOMAIN output' : queue[i].id < output'[j].id
      BY ONLY <1>4, <2>3
    <3> HIDE DEF AheadOf
    <3> QED
      BY ONLY <1>1, <2>0, <2>3, <2>4, <2>5, <3>1, <3>2
  <2>8. \A i, j \in DOMAIN queue' : i < j => queue'[i].id < queue'[j].id
    BY ONLY <1>4, <1>5, <2>0, <2>3 DEF PutBehind
  <2>9. \A n \in Nat : AheadInAll(n) => AheadInAll(n)'
    <3> SUFFICES ASSUME NEW n \in Nat, AheadInAll(n) PROVE AheadInAll(n)'
      OBVIOUS
    <3>1. /\ AheadOf(n)
          /\ \A j \in DOMAIN output : n < output[j].id
          /\ \A j \in DOMAIN queue : n < queue[j].id
      BY DEF AheadInAll
    <3>2. \A j \in DOMAIN output' : n < output'[j].id
      BY ONLY <1>4, <3>1
    <3>3. \A j \in DOMAIN queue' : n < queue'[j].id
      BY ONLY <1>4, <1>5, <3>1 DEF PutBehind
    <3>4. AheadOf(n)'
      BY ONLY <2>4, <3>1, n \in Nat
    <3> QED
      BY ONLY <3>2, <3>3, <3>4 DEF AheadInAll
  <2> HIDE DEF AheadOf, AheadInAll
  <2> QED
    BY ONLY <1>1, <2>0, <2>2, <2>3, <2>6, <2>7, <2>8, <2>9 DEF InLine
<1>8. Sessions'
  <2>1. \A i \in DOMAIN output' : output'[i].session <= session'
    BY ONLY <1>1, <1>2, <1>4 DEF Sessions
  <2> QED
    BY ONLY <1>1, <1>2, <1>7, <2>1 DEF Sessions, OfItsTime
<1>9. Drained'
  BY ONLY <1>1, <1>2 DEF Drained
<1>10. Pictured'
  <2>1. /\ (\A i \in DOMAIN output : HasPicture(output[i]))'
        /\ (\A i \in DOMAIN queue : HasPicture(queue[i]))'
    <3>1. \A i \in DOMAIN queue' : queue'[i] = f \/ \E k \in DOMAIN queue : queue'[i] = queue[k]
      BY ONLY <1>5 DEF PutBehind
    <3> QED
      BY ONLY <1>1, <1>2, <1>4, <3>1 DEF Pictured, HasPicture
  <2> QED
    BY ONLY <1>1, <1>2, <2>1 DEF Pictured, HasPicture
<1> QED
  BY ONLY <1>6, <1>8, <1>9, <1>10 DEF PipeInv

\* The pass goes on, or ends; and the window's thread is told to paint.
LEMMA PipeQuietStep ==
  ASSUME PipeInv,
         \/ Pipeline!NeedMoreInput \/ Pipeline!NextOfPass \/ Pipeline!EndPass
         \/ Pipeline!Resumed \/ Pipeline!Redraw
  PROVE  PipeInv'
<1>1. Pipeline!TypeOK /\ Sessions /\ Drained /\ Pictured
  BY DEF PipeInv
<1>2. UNCHANGED <<backend, session, phase, ready, fed, hardware, inside, output, pool, queue,
                  hand, shown, view, failed>>
  BY DEF Pipeline!NeedMoreInput, Pipeline!NextOfPass, Pipeline!EndPass, Pipeline!Resumed,
     Pipeline!Redraw, Pipeline!decoder, Pipeline!window
<1>3. /\ at' \in {"waiting", "next", "decoding", "draining", "leaving"}
      /\ renderer' \in {"none", "gpu", "soft"}
      /\ at' # "waiting" => at # "waiting"
      /\ at' = "decoding" => at = "decoding"
      /\ at = "decoding" /\ at' # at => at' = "draining" /\ Len(inside) <= Delay
      /\ at = "draining" /\ at' # at => output = <<>>
      /\ at = "waiting" => at' = at
  BY <1>1 DEF Pipeline!NeedMoreInput, Pipeline!NextOfPass, Pipeline!EndPass, Pipeline!Resumed,
     Pipeline!Redraw, Pipeline!window, Pipeline!TypeOK
<1>4. {ready, hardware, pushed, wakes, gpuFrames, failed}' \subseteq BOOLEAN
  <2>1. {ready, hardware, pushed, wakes, gpuFrames, failed} \subseteq BOOLEAN
    BY PipeTyped
  <2>2. /\ pushed' = pushed \/ pushed' = FALSE
        /\ wakes' \in BOOLEAN
        /\ gpuFrames' \in BOOLEAN
    <3>1. CASE Pipeline!NeedMoreInput \/ Pipeline!NextOfPass
      BY <2>1, <3>1, Zenon DEF Pipeline!NeedMoreInput, Pipeline!NextOfPass, Pipeline!window
    <3>2. CASE Pipeline!EndPass
      BY <2>1, <3>2, Zenon DEF Pipeline!EndPass, Pipeline!window
    <3>3. CASE Pipeline!Resumed
      BY <2>1, <3>3, Zenon DEF Pipeline!Resumed
    <3>4. CASE Pipeline!Redraw
      BY <2>1, <3>4, Zenon DEF Pipeline!Redraw, Pipeline!window
    <3> QED
      BY ONLY <3>1, <3>2, <3>3, <3>4,
         \/ Pipeline!NeedMoreInput \/ Pipeline!NextOfPass \/ Pipeline!EndPass
         \/ Pipeline!Resumed \/ Pipeline!Redraw
  <2> QED
    BY ONLY <1>2, <2>1, <2>2, Zenon
<1>5. Pipeline!TypeOK'
  BY ONLY <1>1, <1>2, <1>3, <1>4 DEF Pipeline!TypeOK
<1>6. Sessions'
  <2>1. InLine => InLine'
    BY ONLY <1>2 DEF InLine, AheadInAll, AheadOf
  <2> QED
    BY ONLY <1>1, <1>2, <1>3, <2>1 DEF Sessions, OfItsTime
<1>7. Drained'
  BY ONLY <1>1, <1>2, <1>3 DEF Drained, Pipeline!TypeOK
<1>8. Pictured'
  BY ONLY <1>1, <1>2 DEF Pictured, HasPicture
<1> QED
  BY ONLY <1>5, <1>6, <1>7, <1>8 DEF PipeInv

\* The window's thread takes the newest frame.
LEMMA PipeTakeStep == PipeInv /\ Pipeline!Take => PipeInv'
<1> SUFFICES ASSUME PipeInv, Pipeline!Take PROVE PipeInv'
  OBVIOUS
<1>1. /\ hand = <<>> /\ wakes' = FALSE /\ hand' = Pipeline!Latest /\ queue' = <<>>
      /\ UNCHANGED <<backend, session, phase, ready, fed, hardware, inside, output, pool, at, pushed,
                     renderer, gpuFrames, shown, view, failed>>
  BY DEF Pipeline!Take, Pipeline!decoder
<1>2. Pipeline!TypeOK /\ Sessions /\ Drained /\ Pictured
  BY DEF PipeInv
<1>3. queue \in Seq(Pipeline!Frame) /\ session \in Nat
  BY PipeTyped
<1>6. {ready, hardware, pushed, wakes, gpuFrames, failed}' \subseteq BOOLEAN
  <2>1. {ready, hardware, pushed, wakes, gpuFrames, failed} \subseteq BOOLEAN
    BY PipeTyped
  <2> QED
    BY ONLY <1>1, <2>1, Zenon
<1>4. CASE queue = <<>>
  <2>1. hand' = <<>>
    BY ONLY <1>1, <1>4 DEF Pipeline!Latest
  <2>2. Pipeline!TypeOK'
    <3>1. /\ {output, queue, hand, shown}' \subseteq Seq(Pipeline!Frame)
          /\ Len(queue') <= Capacity /\ Len(hand') <= 1
      <4>1. /\ output \in Seq(Pipeline!Frame) /\ shown \in Seq(Pipeline!Frame)
            /\ Capacity \in Nat
        BY PipeTyped
      <4>2. <<>> \in Seq(Pipeline!Frame) /\ Len(<<>>) = 0
        OBVIOUS
      <4> QED
        BY ONLY <1>1, <2>1, <4>1, <4>2
    <3> QED
      BY ONLY <1>1, <1>2, <1>6, <3>1 DEF Pipeline!TypeOK
  <2>3. Sessions'
    <3>1. InLine => InLine'
      BY ONLY <1>1, <1>4, <2>1 DEF InLine, AheadInAll, AheadOf
    <3> QED
      BY ONLY <1>1, <1>2, <1>4, <2>1, <3>1 DEF Sessions, OfItsTime
  <2>4. Drained'
    BY ONLY <1>1, <1>2 DEF Drained
  <2>5. Pictured'
    BY ONLY <1>1, <1>2, <1>4, <2>1 DEF Pictured, HasPicture
  <2> QED
    BY ONLY <2>2, <2>3, <2>4, <2>5 DEF PipeInv
<1>5. CASE queue # <<>>
  <2>1. PICK f : f = queue[Len(queue)]
    OBVIOUS
  <2>2. f \in Pipeline!Frame /\ Len(queue) \in DOMAIN queue
    BY ONLY <1>3, <1>5, <2>1, HeadShape
  <2>3. hand' = <<f>>
    BY ONLY <1>1, <1>5, <2>1 DEF Pipeline!Latest, Pipeline!Last
  <2>4. hand' \in Seq(Pipeline!Frame) /\ Len(hand') = 1 /\ DOMAIN hand' = {1} /\ hand'[1] = f
    BY ONLY <2>2, <2>3
  <2>5. phase = "streaming" /\ InLine
    BY ONLY <1>2, <1>5 DEF Sessions
  <2>6. f.session = session /\ f.id \in Nat
    BY <2>1, <2>2, <2>5, PipeNumbers DEF InLine
  <2>7. AheadOf(f.id) /\ \A j \in DOMAIN output : f.id < output[j].id
    BY ONLY <2>1, <2>2, <2>5 DEF InLine
  <2>8. Pipeline!TypeOK'
    <3>1. /\ {output, queue, hand, shown}' \subseteq Seq(Pipeline!Frame)
          /\ Len(queue') <= Capacity /\ Len(hand') <= 1
      <4>1. /\ output \in Seq(Pipeline!Frame) /\ shown \in Seq(Pipeline!Frame)
            /\ Capacity \in Nat
        BY PipeTyped
      <4>2. <<>> \in Seq(Pipeline!Frame) /\ Len(<<>>) = 0
        OBVIOUS
      <4> QED
        BY ONLY <1>1, <2>4, <4>1, <4>2
    <3> QED
      BY ONLY <1>1, <1>2, <1>6, <3>1 DEF Pipeline!TypeOK
  <2>9. InLine'
    <3>1. AheadInAll(f.id)'
      BY ONLY <1>1, <2>7 DEF AheadInAll, AheadOf
    <3>2. \A n \in Nat : AheadOf(n) => AheadOf(n)'
      BY ONLY <1>1 DEF AheadOf
    <3>3. view.id \in Nat /\ \A i \in DOMAIN output : output[i].id \in Nat
      BY PipeNumbers
    <3>4. AheadInAll(view.id) => AheadInAll(view.id)'
      BY ONLY <1>1 DEF AheadInAll, AheadOf
    <3> HIDE DEF AheadInAll, AheadOf
    <3> QED
      BY ONLY <1>1, <2>4, <2>5, <3>1, <3>2, <3>3, <3>4 DEF InLine
  <2>10. Sessions'
    BY ONLY <1>1, <1>2, <1>3, <2>4, <2>5, <2>6, <2>9 DEF Sessions, OfItsTime
  <2>11. Drained'
    BY ONLY <1>1, <1>2 DEF Drained
  <2>12. Pictured'
    BY ONLY <1>1, <1>2, <2>1, <2>2, <2>4 DEF Pictured, HasPicture
  <2> QED
    BY ONLY <2>8, <2>10, <2>11, <2>12 DEF PipeInv
<1> QED
  BY ONLY <1>4, <1>5

\* ... and shows it, or fails to.
LEMMA PipeShowStep ==
  ASSUME PipeInv, Pipeline!Draw \/ Pipeline!Paint \/ Pipeline!RenderFails
  PROVE  PipeInv'
<1>1. PICK f : f = hand[1]
  OBVIOUS
<1>2. /\ hand # <<>> /\ hand' = <<>>
      /\ renderer' \in {renderer, "soft"}
      /\ shown' \in {hand, shown, <<>>}
      /\ view' \in {[session |-> f.session, id |-> f.id], view}
      /\ UNCHANGED <<backend, session, phase, ready, fed, hardware, inside, output, pool, at, pushed,
                     queue, wakes>>
  BY <1>1 DEF Pipeline!Draw, Pipeline!Paint, Pipeline!RenderFails, Pipeline!InView, Pipeline!decoder
<1>3. Pipeline!TypeOK /\ Sessions /\ Drained /\ Pictured
  BY DEF PipeInv
<1>4. hand \in Seq(Pipeline!Frame)
  BY PipeTyped
<1>5. f \in Pipeline!Frame /\ 1 \in DOMAIN hand
  BY ONLY <1>1, <1>2, <1>4, HeadShape
<1>6. [session |-> f.session, id |-> f.id] \in [session : 1 .. MaxSessions, id : 1 .. MaxFrames]
  BY ONLY <1>5 DEF Pipeline!Frame
<1>7. {ready, hardware, pushed, wakes, gpuFrames, failed}' \subseteq BOOLEAN
  <2>1. {ready, hardware, pushed, wakes, gpuFrames, failed} \subseteq BOOLEAN
    BY PipeTyped
  <2>2. gpuFrames' \in {gpuFrames, FALSE} /\ failed' \in {failed, TRUE}
    BY Zenon DEF Pipeline!Draw, Pipeline!Paint, Pipeline!RenderFails
  <2> QED
    BY ONLY <1>2, <2>1, <2>2, Zenon
<1>8. Pipeline!TypeOK'
  <2>1. shown' \in Seq(Pipeline!Frame) /\ Len(shown') <= 1
    <3>1. /\ hand \in Seq(Pipeline!Frame) /\ Len(hand) <= 1
          /\ shown \in Seq(Pipeline!Frame) /\ Len(shown) <= 1
      BY PipeTyped
    <3>2. <<>> \in Seq(Pipeline!Frame) /\ Len(<<>>) = 0
      OBVIOUS
    <3>3. CASE shown' = hand
      BY ONLY <3>1, <3>3
    <3>4. CASE shown' = shown
      BY ONLY <3>1, <3>4
    <3>5. CASE shown' = <<>>
      BY ONLY <3>2, <3>5
    <3> QED
      BY ONLY <1>2, <3>3, <3>4, <3>5
  <2>2. view' \in {Pipeline!Blank} \cup [session : 1 .. MaxSessions, id : 1 .. MaxFrames]
    BY ONLY <1>2, <1>3, <1>6 DEF Pipeline!TypeOK
  <2>3. renderer' \in {"none", "gpu", "soft"}
    BY ONLY <1>2, <1>3 DEF Pipeline!TypeOK
  <2> QED
    BY ONLY <1>2, <1>3, <1>7, <2>1, <2>2, <2>3 DEF Pipeline!TypeOK
<1>9. InLine => InLine'
  <2> SUFFICES ASSUME InLine PROVE InLine'
    OBVIOUS
  <2>1. view'.session = session => AheadInAll(view.id)'
    <3>1. CASE view' = view
      BY ONLY <1>2, <3>1, InLine DEF InLine, AheadInAll, AheadOf
    <3>2. CASE view' = [session |-> f.session, id |-> f.id]
      <4>1. view'.session = f.session /\ view'.id = f.id
        BY ONLY <3>2
      <4>2. f.session = session => AheadInAll(f.id)
        BY ONLY <1>1, <1>5, InLine DEF InLine
      <4> QED
        BY ONLY <1>2, <4>1, <4>2 DEF AheadInAll, AheadOf
    <3> QED
      BY ONLY <1>2, <3>1, <3>2
  <2>2. \A n \in Nat : AheadOf(n) => AheadOf(n)'
    BY ONLY <1>2 DEF AheadOf
  <2>3. /\ \A i \in DOMAIN output : output[i].id \in Nat
        /\ \A i \in DOMAIN queue : queue[i].id \in Nat
    BY PipeNumbers
  <2> HIDE DEF AheadInAll, AheadOf
  <2> QED
    BY ONLY <1>2, InLine, <2>1, <2>2, <2>3 DEF InLine
<1>10. Sessions'
  <2>1. OfItsTime(f.session) /\ OfItsTime(view.session)
    BY ONLY <1>1, <1>3, <1>5 DEF Sessions
  <2>2. (\A i \in DOMAIN shown : OfItsTime(shown[i].session))'
    BY ONLY <1>2, <1>3 DEF Sessions, OfItsTime
  <2>3. OfItsTime(view.session)'
    BY ONLY <1>2, <2>1 DEF OfItsTime
  <2> HIDE DEF InLine
  <2> QED
    BY ONLY <1>2, <1>3, <1>9, <2>2, <2>3 DEF Sessions
<1>11. Drained'
  BY ONLY <1>2, <1>3 DEF Drained
<1>12. Pictured'
  <2>1. (\A i \in DOMAIN shown : HasPicture(shown[i]))'
    BY ONLY <1>2, <1>3 DEF Pictured, HasPicture
  <2> QED
    BY ONLY <1>2, <1>3, <2>1 DEF Pictured, HasPicture
<1> QED
  BY ONLY <1>8, <1>10, <1>11, <1>12 DEF PipeInv

LEMMA PipeStep == PipeInv /\ Pipeline!Next => PipeInv'
BY PipeSessionStep, PipeFrameStep, PipeOutputStep, PipeCallbackStep, PipeDrainStep,
   PipeQuietStep, PipeTakeStep, PipeShowStep
   DEF Pipeline!Next, Pipeline!Loop, Pipeline!Window

LEMMA PipeStutter == PipeInv /\ UNCHANGED pipeline => PipeInv'
<1> SUFFICES ASSUME PipeInv, UNCHANGED pipeline PROVE PipeInv'
  OBVIOUS
<1>1. UNCHANGED <<backend, session, phase, ready, fed, hardware, inside, output, at, pushed,
                  queue, wakes, hand, renderer, gpuFrames, shown, view, failed, pool>>
  BY DEF pipeline
<1>2. Pipeline!TypeOK'
  BY ONLY PipeInv, <1>1 DEF PipeInv, Pipeline!TypeOK
<1>3. Sessions'
  BY ONLY PipeInv, <1>1 DEF PipeInv, Sessions, OfItsTime, InLine, AheadInAll, AheadOf
<1>4. Drained' /\ Pictured'
  BY ONLY PipeInv, <1>1 DEF PipeInv, Drained, Pictured, HasPicture
<1> QED
  BY ONLY <1>2, <1>3, <1>4 DEF PipeInv

\* The surface of what is on its way to the window, or in it, has its picture.
LEMMA PipePicturesIntact == PipeInv => Pipeline!PicturesIntact
<1> SUFFICES ASSUME PipeInv PROVE Pipeline!PicturesIntact
  OBVIOUS
<1>1. Pipeline!NeverDry
  BY SurfaceIsFree
<1>2. ASSUME NEW f \in Pipeline!ToSet(output) \cup Pipeline!ToSet(queue) \cup
                       Pipeline!ToSet(hand) \cup Pipeline!ToSet(shown)
      PROVE  HasPicture(f)
  BY DEF PipeInv, Pictured, Pipeline!ToSet
<1> QED
  BY <1>1, <1>2 DEF Pipeline!PicturesIntact, HasPicture

-----------------------------------------------------------------------------
\* The frame in hand, as LiveView names it.
Named(f) == [session |-> f.session, id |-> f.id]

LEMMA TakenIs ==
  ASSUME NEW S, NEW q \in Seq(S), Len(q) <= 1
  PROVE  /\ q = <<>> => [i \in DOMAIN q |-> Named(q[i])] = <<>>
         /\ q # <<>> => [i \in DOMAIN q |-> Named(q[i])] = <<Named(q[1])>>
<1> DEFINE named == [i \in DOMAIN q |-> Named(q[i])]
<1>1. DOMAIN q = 1 .. Len(q) /\ Len(q) \in Nat /\ (q = <<>> <=> Len(q) = 0)
  OBVIOUS
<1>2. CASE q = <<>>
  <2>1. 1 .. 0 = {}
    OBVIOUS
  <2>2. <<>> \in [{} -> {}] /\ DOMAIN <<>> = {}
    BY <2>1
  <2>3. named \in [{} -> {}]
    BY ONLY <1>1, <1>2, <2>1
  <2> HIDE DEF named
  <2>4. named = <<>>
    BY ONLY <2>2, <2>3
  <2> QED
    BY <1>2, <2>4 DEF named
<1>3. CASE q # <<>>
  <2>1. DOMAIN q = {1}
    BY ONLY <1>1, <1>3, Len(q) <= 1
  <2>2. named = [i \in {1} |-> Named(q[1])]
    BY ONLY <2>1
  <2>3. <<Named(q[1])>> = [i \in {1} |-> Named(q[1])]
    <3> HIDE DEF Named
    <3>1. \A x : <<x>> = [i \in {1} |-> x]
      <4> SUFFICES ASSUME NEW x PROVE <<x>> = [i \in {1} |-> x]
        OBVIOUS
      <4>1. DOMAIN <<x>> = {1} /\ <<x>>[1] = x
        OBVIOUS
      <4>2. <<x>> \in [{1} -> {x}]
        BY <4>1
      <4>3. [i \in {1} |-> x] \in [{1} -> {x}]
        OBVIOUS
      <4> QED
        BY <4>1, <4>2, <4>3
    <3> QED
      BY <3>1
  <2> QED
    BY <1>3, <2>2, <2>3
<1> QED
  BY <1>2, <1>3

LEMMA PipeLiveInit == Pipeline!Init => Pipeline!Live!Init
<1> SUFFICES ASSUME Pipeline!Init PROVE Pipeline!Live!Init
  OBVIOUS
<1>1. session = 0 /\ phase = "between" /\ hand = <<>> /\ view = Pipeline!Blank
  BY DEF Pipeline!Init
<1>2. [i \in DOMAIN hand |-> Named(hand[i])] = <<>>
  <2>1. <<>> \in Seq({}) /\ Len(<<>>) <= 1
    OBVIOUS
  <2> QED
    BY ONLY <1>1, <2>1, TakenIs
<1> QED
  BY <1>1, <1>2 DEF Pipeline!Live!Init, Pipeline!Live!Blank, Pipeline!Blank, Named

\* Each step of the pipeline is one of LiveView, or none.
LEMMA PipeLiveStep ==
  ASSUME PipeInv, PipeInv', Pipeline!Next
  PROVE  Pipeline!Live!Next \/ UNCHANGED Pipeline!Live!vars
<1> DEFINE mapped == [i \in DOMAIN hand |-> Named(hand[i])]
<1>0. /\ hand \in Seq(Pipeline!Frame) /\ Len(hand) <= 1
      /\ hand' \in Seq(Pipeline!Frame) /\ Len(hand') <= 1
  BY PipeTyped DEF PipeInv, Pipeline!TypeOK
<1>1. /\ mapped = [i \in DOMAIN hand |-> [session |-> hand[i].session, id |-> hand[i].id]]
      /\ mapped' = [i \in DOMAIN hand' |-> [session |-> hand'[i].session, id |-> hand'[i].id]]
  BY DEF Named
<1>2. /\ hand = <<>> => mapped = <<>>
      /\ hand # <<>> => mapped = <<Named(hand[1])>> /\ mapped # <<>>
      /\ hand' = <<>> => mapped' = <<>>
      /\ hand' # <<>> => mapped' = <<Named(hand'[1])>> /\ mapped' # <<>>
  <2>1. \A x : <<x>> # <<>>
    OBVIOUS
  <2> QED
    BY ONLY <1>0, <2>1, TakenIs
<1> HIDE DEF mapped
<1>3. CASE Pipeline!BeginSession
  <2>1. phase = "between" /\ phase' = "resetting" /\ session' = session + 1 /\ UNCHANGED <<hand, view>>
    BY <1>3 DEF Pipeline!BeginSession, Pipeline!window
  <2>2. mapped' = mapped
    BY ONLY <2>1 DEF mapped
  <2>3. Pipeline!Live!Begin
    BY <1>1, <2>1, <2>2 DEF Pipeline!Live!Begin
  <2> QED
    BY <2>3 DEF Pipeline!Live!Next
<1>4. CASE Pipeline!EndSession
  <2>1. phase = "streaming" /\ phase' = "between" /\ UNCHANGED <<session, hand, view>>
    BY <1>4 DEF Pipeline!EndSession, Pipeline!window
  <2>2. mapped' = mapped
    BY ONLY <2>1 DEF mapped
  <2>3. Pipeline!Live!End
    BY <1>1, <2>1, <2>2 DEF Pipeline!Live!End
  <2> QED
    BY <2>3 DEF Pipeline!Live!Next
<1>5. ASSUME UNCHANGED <<session, hand, view>>, phase # "between" <=> phase' # "between"
      PROVE  UNCHANGED Pipeline!Live!vars
  <2>1. mapped' = mapped
    BY ONLY <1>5 DEF mapped
  <2> QED
    BY <1>1, <1>5, <2>1 DEF Pipeline!Live!vars
<1>6. CASE Pipeline!ResetTransform \/ Pipeline!ResetVideoToolbox
  <2>1. phase = "resetting" /\ phase' = "streaming" /\ UNCHANGED <<session, hand, view>>
    BY <1>6 DEF Pipeline!ResetTransform, Pipeline!ResetVideoToolbox, Pipeline!Fresh, Pipeline!window
  <2> QED
    BY <1>5, <2>1
<1>7. CASE Pipeline!Loop \/ Pipeline!OutputCallback \/ Pipeline!Resumed \/ Pipeline!Redraw
  <2>1. UNCHANGED <<session, phase, hand, view>>
    BY <1>7 DEF Pipeline!Loop, Pipeline!FrameOfPass, Pipeline!SubmitInput, Pipeline!DecodeFrame,
      Pipeline!NewParameterSets, Pipeline!DecodeFails, Pipeline!ProcessOutput, Pipeline!NeedMoreInput,
      Pipeline!Drain, Pipeline!NextOfPass, Pipeline!EndPass, Pipeline!OutputCallback,
      Pipeline!Resumed, Pipeline!Redraw, Pipeline!window
  <2> QED
    BY <1>5, <2>1
<1>8. CASE Pipeline!Take
  <2>1. /\ hand = <<>> /\ hand' = Pipeline!Latest /\ queue \in Seq(Pipeline!Frame)
        /\ UNCHANGED <<session, phase, view>>
    BY <1>8, PipeTyped DEF Pipeline!Take
  <2>2. CASE queue = <<>>
    <3>1. hand' = hand
      BY ONLY <2>1, <2>2 DEF Pipeline!Latest
    <3> QED
      BY <1>5, <2>1, <3>1
  <2>3. CASE queue # <<>>
    <3>1. PICK f : f = queue[Len(queue)]
      OBVIOUS
    <3>2. f \in Pipeline!Frame /\ Len(queue) \in DOMAIN queue
      BY ONLY <2>1, <2>3, <3>1, HeadShape
    <3>3. hand' = <<f>> /\ hand' # <<>> /\ hand'[1] = f
      BY ONLY <2>1, <2>3, <3>1 DEF Pipeline!Latest, Pipeline!Last
    <3>4. mapped = <<>> /\ mapped' = <<Named(f)>>
      BY ONLY <1>2, <2>1, <3>3
    <3>5. mapped' # <<>> /\ Tail(mapped') = <<>> /\ mapped'[1] = Named(f)
      <4>1. \A x : <<x>> # <<>> /\ Tail(<<x>>) = <<>> /\ <<x>>[1] = x
        OBVIOUS
      <4> QED
        BY ONLY <3>4, <4>1
    <3>6. phase = "streaming" /\ InLine
      BY <2>3 DEF PipeInv, Sessions
    <3>7. f.session = session
      BY ONLY <3>1, <3>2, <3>6 DEF InLine
    <3>8. Pipeline!Live!Newer(Named(f), view)
      <4>1. view.session <= session
        BY DEF PipeInv, Sessions, OfItsTime
      <4>2. view.session \in Nat /\ session \in Nat
        BY PipeTyped
      <4>3. view.session = session => view.id < f.id
        BY ONLY <3>1, <3>2, <3>6 DEF InLine, AheadInAll
      <4>4. view.id \in Nat /\ f.id \in Nat
        BY <3>1, <3>2, PipeNumbers
      <4> QED
        BY ONLY <3>7, <4>1, <4>2, <4>3, <4>4 DEF Pipeline!Live!Newer, Named
    <3>9. Pipeline!Live!Take
      <4>1. Named(f).session = session
        BY ONLY <3>7 DEF Named
      <4> QED
        BY ONLY <1>1, <2>1, <3>4, <3>5, <3>6, <3>8, <4>1 DEF Pipeline!Live!Take
    <3> QED
      BY ONLY <3>9 DEF Pipeline!Live!Next
  <2> QED
    BY ONLY <2>2, <2>3
<1>9. CASE Pipeline!Draw \/ Pipeline!Paint \/ Pipeline!RenderFails
  <2>1. /\ hand # <<>> /\ hand' = <<>> /\ UNCHANGED <<session, phase>>
        /\ view' = Named(hand[1]) \/ view' = view
    BY <1>9 DEF Pipeline!Draw, Pipeline!Paint, Pipeline!RenderFails, Pipeline!InView, Named
  <2>2. mapped # <<>> /\ mapped' = <<>> /\ mapped[1] = Named(hand[1])
    <3>1. \A x : <<x>>[1] = x
      OBVIOUS
    <3> QED
      BY ONLY <1>2, <2>1, <3>1
  <2>3. Pipeline!Live!Show \/ Pipeline!Live!Lose
    BY ONLY <1>1, <2>1, <2>2 DEF Pipeline!Live!Show, Pipeline!Live!Lose
  <2> QED
    BY ONLY <2>3 DEF Pipeline!Live!Next
<1> QED
  BY <1>3, <1>4, <1>6, <1>7, <1>8, <1>9 DEF Pipeline!Next, Pipeline!Window

LEMMA PipeLiveStutter == UNCHANGED pipeline => UNCHANGED Pipeline!Live!vars
  BY DEF pipeline, Pipeline!Live!vars
-----------------------------------------------------------------------------
(* D3D12Decode: what the two queues of the GPU have left of a call that no *)
(* error ended.                                                            *)

\* What a call puts on the queues.
Op(work, alloc, c, v) == [op |-> work, alloc |-> alloc, call |-> c, value |-> v]
Uploads(c, v) == Op("upload", "direct", c, v)
Decodes(c, v) == Op("decode", "video", c, v)
Copies(c, v) == Op("copy", "direct_copy", c, v)
Signals(c, v) == Op("signal", "none", c, v)
Waits(c, v) == Op("wait", "none", c, v)

Direct(ops) == queues["direct"] = ops
Video(ops) == queues["video"] = ops

\* The decode waits for an upload yet to signal v ...
DecodeWaits(v) ==
  fence + 1 = v /\ Video(<<Waits(call, v), Decodes(call, v + 1), Signals(call, v + 1)>>)

\* ... or goes on, or is over.
Decoding(v) ==
  \/ fence = v /\ Video(<<Waits(call, v), Decodes(call, v + 1), Signals(call, v + 1)>>)
  \/ fence = v /\ Video(<<Decodes(call, v + 1), Signals(call, v + 1)>>)
  \/ fence = v /\ texture = call /\ Video(<<Signals(call, v + 1)>>)
  \/ fence = v + 1 /\ texture = call /\ Video(<<>>)

\* Between calls, before the first list and after the last, the GPU rests.
AtRest == fence = fenceValue /\ Video(<<>>) /\ Direct(<<>>)

AtUploaded(v) ==
  /\ fenceValue = v /\ upload = call /\ Video(<<>>)
  /\ allocator["direct"] = v
  /\ \/ fence + 1 = v /\ Direct(<<Uploads(call, v), Signals(call, v)>>)
     \/ fence + 1 = v /\ bitstream = call /\ Direct(<<Signals(call, v)>>)
     \/ fence = v /\ bitstream = call /\ Direct(<<>>)

AtDecoded(v) ==
  /\ fenceValue = v + 1 /\ upload = call
  /\ allocator["direct"] = v /\ allocator["video"] = v + 1
  /\ \/ DecodeWaits(v) /\ Direct(<<Uploads(call, v), Signals(call, v)>>)
     \/ DecodeWaits(v) /\ bitstream = call /\ Direct(<<Signals(call, v)>>)
     \/ Decoding(v) /\ bitstream = call /\ Direct(<<>>)

\* The copy's part of the DIRECT queue.
CopyWaits(v) == <<Waits(call, v + 1), Copies(call, v + 2), Signals(call, v + 2)>>

AtCopied(v) ==
  /\ fenceValue = v + 2 /\ upload = call
  /\ allocator["direct"] = v /\ allocator["video"] = v + 1 /\ allocator["direct_copy"] = v + 2
  /\ \/ DecodeWaits(v) /\ Direct(<<Uploads(call, v), Signals(call, v)>> \o CopyWaits(v))
     \/ DecodeWaits(v) /\ bitstream = call /\ Direct(<<Signals(call, v)>> \o CopyWaits(v))
     \/ Decoding(v) /\ bitstream = call /\ Direct(CopyWaits(v))
     \/ /\ fence = v + 1 /\ texture = call /\ Video(<<>>)
        /\ Direct(<<Copies(call, v + 2), Signals(call, v + 2)>>)
     \/ fence = v + 1 /\ readback = call /\ Video(<<>>) /\ Direct(<<Signals(call, v + 2)>>)
     \/ fence = v + 2 /\ readback = call /\ Video(<<>>) /\ Direct(<<>>)

InOrderOfCall ==
  /\ fence \in Nat
  /\ \A f \in frames : f.picture = f.call
  /\ \/ d3d12At = "idle" /\ AtRest
     \/ d3d12At = "mapped" /\ AtRest /\ upload = call
     \/ d3d12At = "uploaded" /\ \E v \in Nat : AtUploaded(v)
     \/ d3d12At = "decoded" /\ \E v \in Nat : AtDecoded(v)
     \/ d3d12At = "copied" /\ \E v \in Nat : AtCopied(v)
     \/ d3d12At = "readable" /\ AtRest /\ readback = call

D3D12Types ==
  /\ abandoned \in BOOLEAN
  /\ call \in Nat /\ fenceValue \in Nat
  /\ DOMAIN allocator = D3D12!Allocator
  /\ DOMAIN queues = D3D12!Queue
  /\ queues = [q \in D3D12!Queue |-> queues[q]]
  /\ allocator = [a \in D3D12!Allocator |-> allocator[a]]

D3D12Inv == D3D12Types /\ (~abandoned => InOrderOfCall)

LEMMA OpFields ==
  \A c, v :
    /\ Uploads(c, v).op = "upload" /\ Uploads(c, v).alloc = "direct" /\ Uploads(c, v).value = v
    /\ Decodes(c, v).op = "decode" /\ Decodes(c, v).alloc = "video" /\ Decodes(c, v).value = v
    /\ Copies(c, v).op = "copy" /\ Copies(c, v).alloc = "direct_copy" /\ Copies(c, v).value = v
    /\ Signals(c, v).op = "signal" /\ Signals(c, v).value = v
    /\ Waits(c, v).op = "wait" /\ Waits(c, v).value = v
  BY DEF Uploads, Decodes, Copies, Signals, Waits, Op

\* The operations on a queue, of those there are.
LEMMA QueueTails ==
  /\ \A a : Head(<<a>>) = a /\ Tail(<<a>>) = <<>> /\ <<a>> # <<>>
  /\ \A a, b : Head(<<a, b>>) = a /\ Tail(<<a, b>>) = <<b>> /\ <<a, b>> # <<>>
  /\ \A a, b, c : Head(<<a, b, c>>) = a /\ Tail(<<a, b, c>>) = <<b, c>> /\ <<a, b, c>> # <<>>
  OBVIOUS

\* ... and with more behind them.
LEMMA JoinTails ==
  ASSUME NEW S, NEW s \in Seq(S), NEW a \in S, NEW b \in S
  PROVE  /\ Head(<<a>> \o s) = a /\ Tail(<<a>> \o s) = s /\ <<a>> \o s # <<>>
         /\ Head(<<a, b>> \o s) = a /\ Tail(<<a, b>> \o s) = <<b>> \o s /\ <<a, b>> \o s # <<>>
<1>1. <<a>> \in Seq(S) /\ <<b>> \in Seq(S) /\ <<a, b>> \in Seq(S)
  OBVIOUS
<1>2. <<a>> \o s \in Seq(S) /\ <<a, b>> \o s \in Seq(S) /\ <<b>> \o s \in Seq(S)
  BY <1>1
<1>3. Len(<<a>> \o s) = Len(s) + 1 /\ Len(<<a, b>> \o s) = Len(s) + 2 /\ Len(<<b>> \o s) = Len(s) + 1
  BY <1>1
<1>4. (<<a>> \o s)[1] = a /\ (<<a, b>> \o s)[1] = a
  BY <1>1
<1>5. <<a>> \o s # <<>> /\ <<a, b>> \o s # <<>>
  BY <1>3, <1>2
<1>6. Tail(<<a>> \o s) = s
  <2>1. Tail(<<a>> \o s) \in Seq(S) /\ Len(Tail(<<a>> \o s)) = Len(s)
    BY <1>2, <1>3, <1>5
  <2>2. \A i \in 1 .. Len(s) : Tail(<<a>> \o s)[i] = s[i]
    BY <1>1, <1>2, <1>3, <1>5
  <2> QED
    BY <2>1, <2>2, SeqEqual
<1>7. Tail(<<a, b>> \o s) = <<b>> \o s
  <2>1. Tail(<<a, b>> \o s) \in Seq(S) /\ Len(Tail(<<a, b>> \o s)) = Len(s) + 1
    BY <1>2, <1>3, <1>5
  <2>2. \A i \in 1 .. Len(s) + 1 : Tail(<<a, b>> \o s)[i] = (<<b>> \o s)[i]
    BY <1>1, <1>2, <1>3, <1>5
  <2> QED
    BY <1>2, <1>3, <2>1, <2>2, SeqEqual
<1> QED
  BY <1>2, <1>4, <1>5, <1>6, <1>7

\* What a list's submission adds to a queue.
LEMMA QueueJoins ==
  /\ \A a, b : <<>> \o <<>> \o <<a, b>> = <<a, b>>
  /\ \A a, b, c : <<>> \o <<a>> \o <<b, c>> = <<a, b, c>>
  /\ \A a, b, c : <<a>> \o <<b, c>> = <<a, b, c>>
<1>1. ASSUME NEW a, NEW b, NEW c PROVE <<a>> \o <<b, c>> = <<a, b, c>>
  <2> DEFINE S == {a, b, c}
  <2>1. <<a>> \in Seq(S) /\ <<b, c>> \in Seq(S) /\ <<a, b, c>> \in Seq(S)
    OBVIOUS
  <2>2. <<a>> \o <<b, c>> \in Seq(S) /\ Len(<<a>> \o <<b, c>>) = 3 /\ Len(<<a, b, c>>) = 3
    BY <2>1
  <2>3. \A i \in 1 .. 3 : (<<a>> \o <<b, c>>)[i] = <<a, b, c>>[i]
    OBVIOUS
  <2> QED
    BY ONLY <2>1, <2>2, <2>3, SeqEqual
<1>2. \A a, b : <<>> \o <<>> \o <<a, b>> = <<a, b>>
  OBVIOUS
<1>3. ASSUME NEW a, NEW b, NEW c PROVE <<>> \o <<a>> \o <<b, c>> = <<a, b, c>>
  <2>1. <<>> \o <<a>> = <<a>>
    OBVIOUS
  <2> QED
    BY <1>1, <2>1
<1> QED
  BY <1>1, <1>2, <1>3

LEMMA LongJoins ==
  ASSUME NEW S, NEW a \in S, NEW b \in S, NEW c \in S, NEW d \in S, NEW e \in S
  PROVE  /\ <<a>> \o <<c>> \o <<d, e>> = <<a>> \o <<c, d, e>>
         /\ <<a, b>> \o <<c>> \o <<d, e>> = <<a, b>> \o <<c, d, e>>
<1>1. <<a>> \in Seq(S) /\ <<a, b>> \in Seq(S) /\ <<c>> \in Seq(S) /\ <<d, e>> \in Seq(S)
  OBVIOUS
<1>2. <<c>> \o <<d, e>> = <<c, d, e>>
  BY QueueJoins
<1>3. \A s, t, u \in Seq(S) : s \o t \o u = s \o (t \o u)
  BY ConcatAssociative
<1> QED
  BY <1>1, <1>2, <1>3

LEMMA D3D12Init ==
  ASSUME D3D12!Init
  PROVE  D3D12Inv
<1>1. abandoned \in BOOLEAN
  BY DEF D3D12!Init
<1>2. /\ call \in Nat /\ fenceValue \in Nat
      /\ DOMAIN allocator = D3D12!Allocator /\ DOMAIN queues = D3D12!Queue
      /\ queues = [q \in D3D12!Queue |-> queues[q]]
      /\ allocator = [a \in D3D12!Allocator |-> allocator[a]]
  BY DEF D3D12!Init
<1>3. InOrderOfCall
  BY DEF D3D12!Init, D3D12!Queue, InOrderOfCall, AtRest, Video, Direct
<1> QED
  BY <1>1, <1>2, <1>3 DEF D3D12Inv, D3D12Types

\* A step of the GPU takes the head of one queue, and does what it says.
Takes(q) ==
  /\ queues[q] # <<>> /\ queues'[q] = Tail(queues[q])
  /\ \A r \in D3D12!Queue : r # q => queues'[r] = queues[r]
  /\ UNCHANGED <<call, d3d12At, allocator, fenceValue, upload, frames, abandoned>>
  /\ \/ /\ Head(queues[q]).op = "upload"
        /\ bitstream' = upload /\ UNCHANGED <<fence, texture, readback>>
     \/ /\ Head(queues[q]).op = "decode"
        /\ texture' = bitstream /\ UNCHANGED <<fence, bitstream, readback>>
     \/ /\ Head(queues[q]).op = "copy"
        /\ readback' = texture /\ UNCHANGED <<fence, bitstream, texture>>
     \/ /\ Head(queues[q]).op = "signal"
        /\ fence' = Head(queues[q]).value /\ UNCHANGED <<bitstream, texture, readback>>
     \/ /\ Head(queues[q]).op = "wait" /\ fence >= Head(queues[q]).value
        /\ UNCHANGED <<fence, bitstream, texture, readback>>

LEMMA GpuTakes ==
  ASSUME D3D12Types, NEW q \in D3D12!Queue, D3D12!Run(q) \/ D3D12!Signalled(q) \/ D3D12!Waited(q)
  PROVE  Takes(q) /\ D3D12Types'
<1> USE DEF D3D12Types, Takes
<1>1. CASE D3D12!Run(q)
  BY <1>1 DEF D3D12!Run, D3D12!Busy, D3D12!Done, D3D12!Work, D3D12!Queue
<1>2. CASE D3D12!Signalled(q)
  BY <1>2 DEF D3D12!Signalled, D3D12!Busy, D3D12!Done, D3D12!resources, D3D12!Queue
<1>3. CASE D3D12!Waited(q)
  BY <1>3 DEF D3D12!Waited, D3D12!Busy, D3D12!Done, D3D12!resources, D3D12!Queue
<1> QED
  BY <1>1, <1>2, <1>3

\* The direct queue's copy of a call: what its head, and the rest of it, are.
LEMMA CopyTails ==
  \A v : LET rest == CopyWaits(v) IN
    /\ Head(rest) = Waits(call, v + 1)
    /\ Tail(rest) = <<Copies(call, v + 2), Signals(call, v + 2)>>
    /\ Head(<<Signals(call, v)>> \o rest) = Signals(call, v) /\ Tail(<<Signals(call, v)>> \o rest) = rest
    /\ Head(<<Uploads(call, v), Signals(call, v)>> \o rest) = Uploads(call, v)
    /\ Tail(<<Uploads(call, v), Signals(call, v)>> \o rest) = <<Signals(call, v)>> \o rest
<1> TAKE v
<1> DEFINE S == {Uploads(call, v), Signals(call, v), Waits(call, v + 1), Copies(call, v + 2), Signals(call, v + 2)}
<1>1. Uploads(call, v) \in S /\ Signals(call, v) \in S
  OBVIOUS
<1>2. CopyWaits(v) \in Seq(S)
  BY DEF CopyWaits
<1>3. Head(CopyWaits(v)) = Waits(call, v + 1) /\ Tail(CopyWaits(v)) = <<Copies(call, v + 2), Signals(call, v + 2)>>
  BY ONLY QueueTails DEF CopyWaits
<1> HIDE DEF S
<1> QED
  BY <1>1, <1>2, <1>3, JoinTails

\* By the operation at the head.
LEMMA TakesOp ==
  ASSUME NEW q \in D3D12!Queue, Takes(q), NEW c, NEW v
  PROVE  /\ Head(queues[q]) = Uploads(c, v) =>
              bitstream' = upload /\ UNCHANGED <<fence, texture, readback>>
         /\ Head(queues[q]) = Decodes(c, v) =>
              texture' = bitstream /\ UNCHANGED <<fence, bitstream, readback>>
         /\ Head(queues[q]) = Copies(c, v) =>
              readback' = texture /\ UNCHANGED <<fence, bitstream, texture>>
         /\ Head(queues[q]) = Signals(c, v) =>
              fence' = v /\ UNCHANGED <<bitstream, texture, readback>>
         /\ Head(queues[q]) = Waits(c, v) =>
              fence >= v /\ UNCHANGED <<fence, bitstream, texture, readback>>
  BY OpFields DEF Takes

\* The GPU's steps of a call that went no further than its upload ...
LEMMA GpuUploads ==
  ASSUME fence \in Nat, NEW q \in D3D12!Queue, Takes(q), NEW v \in Nat, AtUploaded(v)
  PROVE  AtUploaded(v)' /\ fence' \in Nat
<1>1. q = "direct"
  BY DEF AtUploaded, Takes, Video, D3D12!Queue
<1>2. queues'["video"] = queues["video"]
  BY <1>1 DEF D3D12!Queue, Takes
<1>3. CASE fence + 1 = v /\ Direct(<<Uploads(call, v), Signals(call, v)>>)
  <2>1. Head(queues["direct"]) = Uploads(call, v) /\ Tail(queues["direct"]) = <<Signals(call, v)>>
    BY ONLY <1>3, QueueTails DEF Direct
  <2> QED
    BY <1>1, <1>2, <1>3, <2>1, TakesOp DEF AtUploaded, Takes, Direct, Video
<1>4. CASE fence + 1 = v /\ bitstream = call /\ Direct(<<Signals(call, v)>>)
  <2>1. Head(queues["direct"]) = Signals(call, v) /\ Tail(queues["direct"]) = <<>>
    BY ONLY <1>4, QueueTails DEF Direct
  <2> QED
    BY <1>1, <1>2, <1>4, <2>1, TakesOp DEF AtUploaded, Takes, Direct, Video
<1>5. CASE fence = v /\ bitstream = call /\ Direct(<<>>)
  BY <1>1, <1>5 DEF Direct, Takes
<1> QED
  BY <1>3, <1>4, <1>5 DEF AtUploaded

\* ... of the queue of the decode ...
LEMMA GpuDecodes ==
  ASSUME fence \in Nat, Takes("video"), NEW v \in Nat
  PROVE  /\ ~DecodeWaits(v)
         /\ Decoding(v) /\ bitstream = call =>
              Decoding(v)' /\ fence' \in Nat /\ bitstream' = bitstream /\ readback' = readback
<1>0. "video" \in D3D12!Queue
  BY DEF D3D12!Queue
<1>1. ~DecodeWaits(v)
  <2> SUFFICES ASSUME DecodeWaits(v) PROVE FALSE
    OBVIOUS
  <2>1. Head(queues["video"]) = Waits(call, v)
    BY ONLY DecodeWaits(v), QueueTails DEF DecodeWaits, Video
  <2> QED
    BY <1>0, <2>1, TakesOp DEF DecodeWaits
<1> SUFFICES ASSUME Decoding(v), bitstream = call
             PROVE  Decoding(v)' /\ fence' \in Nat /\ bitstream' = bitstream /\ readback' = readback
  BY <1>1
<1>2. CASE fence = v /\ Video(<<Waits(call, v), Decodes(call, v + 1), Signals(call, v + 1)>>)
  <2>1. /\ Head(queues["video"]) = Waits(call, v)
        /\ Tail(queues["video"]) = <<Decodes(call, v + 1), Signals(call, v + 1)>>
    BY ONLY <1>2, QueueTails DEF Video
  <2> QED
    BY <1>0, <1>2, <2>1, TakesOp DEF Decoding, Takes, Video
<1>3. CASE fence = v /\ Video(<<Decodes(call, v + 1), Signals(call, v + 1)>>)
  <2>1. /\ Head(queues["video"]) = Decodes(call, v + 1)
        /\ Tail(queues["video"]) = <<Signals(call, v + 1)>>
    BY ONLY <1>3, QueueTails DEF Video
  <2> QED
    BY <1>0, <1>3, <2>1, TakesOp DEF Decoding, Takes, Video
<1>4. CASE fence = v /\ texture = call /\ Video(<<Signals(call, v + 1)>>)
  <2>1. /\ Head(queues["video"]) = Signals(call, v + 1)
        /\ Tail(queues["video"]) = <<>>
    BY ONLY <1>4, QueueTails DEF Video
  <2>2. fence' = v + 1 /\ UNCHANGED <<bitstream, texture, readback>>
    BY <1>0, <2>1, TakesOp
  <2>3. call' = call /\ queues'["video"] = <<>> /\ v + 1 \in Nat
    BY ONLY <2>1, Takes("video"), v \in Nat DEF Takes
  <2> QED
    BY ONLY <1>4, <2>2, <2>3 DEF Decoding, Video
<1>5. CASE fence = v + 1 /\ texture = call /\ Video(<<>>)
  BY <1>5 DEF Takes, Video
<1> QED
  BY <1>2, <1>3, <1>4, <1>5 DEF Decoding

LEMMA GpuAtDecoded ==
  ASSUME fence \in Nat, NEW q \in D3D12!Queue, Takes(q), NEW v \in Nat, AtDecoded(v)
  PROVE  AtDecoded(v)' /\ fence' \in Nat
<1>0. "direct" \in D3D12!Queue /\ "video" \in D3D12!Queue
  BY DEF D3D12!Queue
<1>1. CASE q = "video"
  <2>1. Takes("video") /\ queues'["direct"] = queues["direct"]
    BY <1>0, <1>1 DEF Takes
  <2>2. ~DecodeWaits(v)
    BY ONLY <2>1, GpuDecodes, fence \in Nat, v \in Nat
  <2>3. Decoding(v) /\ bitstream = call /\ Direct(<<>>)
    BY <2>2 DEF AtDecoded
  <2>4. Decoding(v)' /\ fence' \in Nat /\ bitstream' = bitstream
    BY ONLY <2>1, <2>3, GpuDecodes, fence \in Nat, v \in Nat
  <2> QED
    BY <2>1, <2>3, <2>4 DEF AtDecoded, Takes, Direct
<1>2. CASE q = "direct"
  <2>0. queues'["video"] = queues["video"]
    BY <1>0, <1>2 DEF Takes
  <2>1. CASE DecodeWaits(v) /\ Direct(<<Uploads(call, v), Signals(call, v)>>)
    <3>1. Head(queues["direct"]) = Uploads(call, v) /\ Tail(queues["direct"]) = <<Signals(call, v)>>
      BY ONLY <2>1, QueueTails DEF Direct
    <3> QED
      BY <1>0, <1>2, <2>0, <2>1, <3>1, TakesOp DEF AtDecoded, DecodeWaits, Takes, Direct, Video
  <2>2. CASE DecodeWaits(v) /\ bitstream = call /\ Direct(<<Signals(call, v)>>)
    <3>1. Head(queues["direct"]) = Signals(call, v) /\ Tail(queues["direct"]) = <<>>
      BY ONLY <2>2, QueueTails DEF Direct
    <3> QED
      BY <1>0, <1>2, <2>0, <2>2, <3>1, TakesOp
        DEF AtDecoded, DecodeWaits, Decoding, Takes, Direct, Video
  <2>3. CASE Direct(<<>>)
    BY <1>2, <2>3 DEF Direct, Takes
  <2> QED
    BY <2>1, <2>2, <2>3 DEF AtDecoded
<1> QED
  BY <1>1, <1>2 DEF D3D12!Queue

\* ... and of one whose copy is queued.
LEMMA GpuAtCopied ==
  ASSUME fence \in Nat, NEW q \in D3D12!Queue, Takes(q), NEW v \in Nat, AtCopied(v)
  PROVE  AtCopied(v)' /\ fence' \in Nat
<1>0. "direct" \in D3D12!Queue /\ "video" \in D3D12!Queue
  BY DEF D3D12!Queue
<1>1. CASE q = "video"
  <2>1. Takes("video") /\ queues'["direct"] = queues["direct"]
    BY <1>0, <1>1 DEF Takes
  <2>2. ~DecodeWaits(v) /\ ~Video(<<>>)
    BY <2>1, GpuDecodes DEF Takes, Video
  <2>3. Decoding(v) /\ bitstream = call /\ Direct(CopyWaits(v))
    BY <2>2 DEF AtCopied
  <2>4. Decoding(v)' /\ fence' \in Nat /\ bitstream' = bitstream
    BY ONLY <2>1, <2>3, GpuDecodes, fence \in Nat, v \in Nat
  <2> QED
    BY <2>1, <2>3, <2>4 DEF AtCopied, CopyWaits, Takes, Direct
<1>2. CASE q = "direct"
  <2>0. queues'["video"] = queues["video"] /\ CopyWaits(v)' = CopyWaits(v)
    BY <1>0, <1>2 DEF Takes, CopyWaits
  <2>1. CASE DecodeWaits(v) /\ Direct(<<Uploads(call, v), Signals(call, v)>> \o CopyWaits(v))
    <3>1. /\ Head(queues["direct"]) = Uploads(call, v)
          /\ Tail(queues["direct"]) = <<Signals(call, v)>> \o CopyWaits(v)
      BY <2>1, CopyTails DEF Direct
    <3> QED
      BY <1>0, <1>2, <2>0, <2>1, <3>1, TakesOp DEF AtCopied, DecodeWaits, Takes, Direct, Video
  <2>2. CASE DecodeWaits(v) /\ bitstream = call /\ Direct(<<Signals(call, v)>> \o CopyWaits(v))
    <3>1. Head(queues["direct"]) = Signals(call, v) /\ Tail(queues["direct"]) = CopyWaits(v)
      BY <2>2, CopyTails DEF Direct
    <3> QED
      BY <1>0, <1>2, <2>0, <2>2, <3>1, TakesOp
        DEF AtCopied, DecodeWaits, Decoding, Takes, Direct, Video
  <2>3. CASE Decoding(v) /\ bitstream = call /\ Direct(CopyWaits(v))
    <3>1. /\ Head(queues["direct"]) = Waits(call, v + 1)
          /\ Tail(queues["direct"]) = <<Copies(call, v + 2), Signals(call, v + 2)>>
      BY <2>3, CopyTails DEF Direct
    <3>2. fence >= v + 1 /\ UNCHANGED <<fence, bitstream, texture, readback>>
      BY <1>0, <1>2, <3>1, TakesOp
    <3>3. fence = v + 1 /\ texture = call /\ Video(<<>>)
      BY <2>3, <3>2 DEF Decoding
    <3> QED
      BY <1>2, <2>0, <3>1, <3>2, <3>3 DEF AtCopied, Takes, Direct, Video
  <2>4. CASE /\ fence = v + 1 /\ texture = call /\ Video(<<>>)
             /\ Direct(<<Copies(call, v + 2), Signals(call, v + 2)>>)
    <3>1. /\ Head(queues["direct"]) = Copies(call, v + 2)
          /\ Tail(queues["direct"]) = <<Signals(call, v + 2)>>
      BY ONLY <2>4, QueueTails DEF Direct
    <3> QED
      BY <1>0, <1>2, <2>0, <2>4, <3>1, TakesOp DEF AtCopied, Takes, Direct, Video
  <2>5. CASE fence = v + 1 /\ readback = call /\ Video(<<>>) /\ Direct(<<Signals(call, v + 2)>>)
    <3>1. /\ Head(queues["direct"]) = Signals(call, v + 2)
          /\ Tail(queues["direct"]) = <<>>
      BY ONLY <2>5, QueueTails DEF Direct
    <3>2. fence' = v + 2 /\ UNCHANGED <<bitstream, texture, readback>>
      BY <1>0, <1>2, <3>1, TakesOp
    <3>3. /\ UNCHANGED <<call, allocator, fenceValue, upload>>
          /\ queues'["direct"] = <<>> /\ v + 2 \in Nat
      BY ONLY <1>2, <3>1, Takes(q), v \in Nat DEF Takes
    <3> QED
      BY ONLY <2>0, <2>5, <3>2, <3>3, AtCopied(v) DEF AtCopied, Direct, Video
  <2>6. CASE Direct(<<>>)
    BY <1>2, <2>6 DEF Direct, Takes
  <2> QED
    BY <2>1, <2>2, <2>3, <2>4, <2>5, <2>6 DEF AtCopied
<1> QED
  BY <1>1, <1>2 DEF D3D12!Queue

LEMMA GpuStep ==
  ASSUME D3D12Inv, D3D12!Gpu
  PROVE  D3D12Inv'
<1>1. PICK q \in D3D12!Queue : D3D12!Run(q) \/ D3D12!Signalled(q) \/ D3D12!Waited(q)
  BY DEF D3D12!Gpu
<1>2. Takes(q) /\ D3D12Types'
  BY <1>1, GpuTakes DEF D3D12Inv
<1> SUFFICES ASSUME ~abandoned PROVE InOrderOfCall'
  BY <1>2 DEF D3D12Inv, Takes
<1>3. UNCHANGED <<call, d3d12At, frames>> /\ InOrderOfCall /\ fence \in Nat
  BY <1>2 DEF D3D12Inv, InOrderOfCall, Takes
<1>4. ~AtRest
  BY <1>2 DEF AtRest, Takes, Video, Direct, D3D12!Queue
<1>5. CASE d3d12At = "uploaded"
  <2>1. PICK v \in Nat : AtUploaded(v)
    BY <1>3, <1>5 DEF InOrderOfCall
  <2> QED
    BY <1>2, <1>3, <1>5, <2>1, GpuUploads DEF InOrderOfCall
<1>6. CASE d3d12At = "decoded"
  <2>1. PICK v \in Nat : AtDecoded(v)
    BY <1>3, <1>6 DEF InOrderOfCall
  <2> QED
    BY <1>2, <1>3, <1>6, <2>1, GpuAtDecoded DEF InOrderOfCall
<1>7. CASE d3d12At = "copied"
  <2>1. PICK v \in Nat : AtCopied(v)
    BY <1>3, <1>7 DEF InOrderOfCall
  <2> QED
    BY <1>2, <1>3, <1>7, <2>1, GpuAtCopied DEF InOrderOfCall
<1> QED
  BY <1>3, <1>4, <1>5, <1>6, <1>7 DEF InOrderOfCall

-----------------------------------------------------------------------------
(* The calls.                                                              *)

\* What a submission leaves.
Submits(q, work, alloc, after) ==
  /\ queues'[q] = queues[q] \o after
       \o <<Op(work, alloc, call, fenceValue + 1), Signals(call, fenceValue + 1)>>
  /\ \A r \in D3D12!Queue : r # q => queues'[r] = queues[r]
  /\ fenceValue' = fenceValue + 1
  /\ allocator'[alloc] = fenceValue + 1
  /\ \A a \in D3D12!Allocator : a # alloc => allocator'[a] = allocator[a]
  /\ UNCHANGED <<call, fence, upload, bitstream, texture, readback, frames, abandoned>>

LEMMA InOrderKept ==
  ASSUME InOrderOfCall,
         UNCHANGED <<call, d3d12At, allocator, queues, fenceValue, fence, upload, bitstream,
                     texture, readback, frames, abandoned>>
  PROVE  InOrderOfCall'
  BY DEF InOrderOfCall, AtRest, AtUploaded, AtDecoded, AtCopied, Decoding, DecodeWaits,
    CopyWaits, Direct, Video

LEMMA Submitted ==
  ASSUME D3D12Types, NEW q \in D3D12!Queue, NEW work, NEW alloc \in D3D12!Allocator, NEW after,
         D3D12!Submit(q, work, alloc, after)
  PROVE  Submits(q, work, alloc, after) /\ D3D12Types'
<1>1. UNCHANGED <<call, fence, upload, bitstream, texture, readback, frames, abandoned>>
  BY DEF D3D12!Submit, D3D12!resources
<1>2. fenceValue' = fenceValue + 1 /\ fenceValue' \in Nat
  BY DEF D3D12!Submit, D3D12Types
<1>3. /\ allocator'[alloc] = fenceValue + 1
      /\ \A a \in D3D12!Allocator : a # alloc => allocator'[a] = allocator[a]
      /\ DOMAIN allocator' = D3D12!Allocator
      /\ allocator' = [a \in D3D12!Allocator |-> allocator'[a]]
  BY DEF D3D12!Submit, D3D12Types
<1>4. /\ queues'[q] = queues[q] \o after \o <<D3D12!List(work, alloc), D3D12!Signal(fenceValue + 1)>>
      /\ \A r \in D3D12!Queue : r # q => queues'[r] = queues[r]
      /\ DOMAIN queues' = D3D12!Queue
      /\ queues' = [r \in D3D12!Queue |-> queues'[r]]
  BY DEF D3D12!Submit, D3D12Types
<1>5. /\ D3D12!List(work, alloc) = Op(work, alloc, call, fenceValue + 1)
      /\ D3D12!Signal(fenceValue + 1) = Signals(call, fenceValue + 1)
  BY DEF D3D12!List, D3D12!Signal, Op, Signals
<1>6. Submits(q, work, alloc, after)
  BY ONLY <1>1, <1>2, <1>3, <1>4, <1>5 DEF Submits
<1>7. abandoned' \in BOOLEAN /\ call' \in Nat
  BY <1>1 DEF D3D12Types
<1> QED
  BY ONLY <1>2, <1>3, <1>4, <1>6, <1>7 DEF D3D12Types

LEMMA SubmitUploadStep ==
  ASSUME D3D12Inv, ~abandoned, D3D12!SubmitUpload
  PROVE  D3D12Inv'
<1>0. "direct" \in D3D12!Queue /\ "video" \in D3D12!Queue /\ "direct" \in D3D12!Allocator
  BY DEF D3D12!Queue, D3D12!Allocator
<1>1. D3D12!Submit("direct", "upload", "direct", <<>>) /\ d3d12At' = "uploaded"
  BY DEF D3D12!SubmitUpload
<1>2. AtRest /\ upload = call /\ fence \in Nat /\ \A f \in frames : f.picture = f.call
  BY DEF D3D12!SubmitUpload, D3D12Inv, InOrderOfCall
<1>s. Submits("direct", "upload", "direct", <<>>) /\ D3D12Types'
  BY <1>0, <1>1, Submitted DEF D3D12Inv
<1>v. PICK v \in Nat : v = fenceValue + 1 /\ fenceValue \in Nat
  BY DEF D3D12Inv, D3D12Types
<1>3. queues'["direct"] = <<Uploads(call, v), Signals(call, v)>>
  BY <1>2, <1>s, <1>v, QueueJoins DEF AtRest, Direct, Submits, Uploads
<1>4. /\ queues'["video"] = <<>> /\ fenceValue' = v /\ allocator'["direct"] = v
      /\ UNCHANGED <<call, fence, upload, frames>>
  BY <1>0, <1>2, <1>s, <1>v DEF AtRest, Video, Submits
<1>5. AtUploaded(v)'
  BY <1>2, <1>v, <1>3, <1>4 DEF AtRest, AtUploaded, Direct, Video
<1> QED
  BY <1>1, <1>2, <1>s, <1>4, <1>5 DEF D3D12Inv, InOrderOfCall

LEMMA SubmitDecodeStep ==
  ASSUME D3D12Inv, ~abandoned, D3D12!SubmitDecode
  PROVE  D3D12Inv'
<1>0. "direct" \in D3D12!Queue /\ "video" \in D3D12!Queue
      /\ "direct" \in D3D12!Allocator /\ "video" \in D3D12!Allocator
  BY DEF D3D12!Queue, D3D12!Allocator
<1>1. D3D12!Submit("video", "decode", "video", <<D3D12!Wait(fenceValue)>>) /\ d3d12At' = "decoded"
  BY DEF D3D12!SubmitDecode
<1>2. PICK v \in Nat : AtUploaded(v)
  BY DEF D3D12!SubmitDecode, D3D12Inv, InOrderOfCall
<1>3. fence \in Nat /\ \A f \in frames : f.picture = f.call
  BY DEF D3D12Inv, InOrderOfCall
<1>4. fenceValue = v /\ queues["video"] = <<>> /\ D3D12!Wait(fenceValue) = Waits(call, v)
  BY <1>2 DEF AtUploaded, Video, D3D12!Wait, Waits, Op
<1>s. Submits("video", "decode", "video", <<D3D12!Wait(fenceValue)>>) /\ D3D12Types'
  BY <1>0, <1>1, Submitted DEF D3D12Inv
<1>5. queues'["video"] = <<Waits(call, v), Decodes(call, v + 1), Signals(call, v + 1)>>
  BY <1>4, <1>s, QueueJoins DEF Submits, Decodes
<1>6. /\ queues'["direct"] = queues["direct"] /\ fenceValue' = v + 1 /\ D3D12Types'
      /\ allocator'["direct"] = allocator["direct"] /\ allocator'["video"] = v + 1
      /\ UNCHANGED <<call, fence, upload, bitstream, frames>>
  BY <1>0, <1>4, <1>s DEF Submits
<1>7. AtDecoded(v)'
  BY <1>2, <1>5, <1>6 DEF AtUploaded, AtDecoded, DecodeWaits, Decoding, Direct, Video
<1> QED
  BY <1>1, <1>3, <1>6, <1>7 DEF D3D12Inv, InOrderOfCall

LEMMA SubmitCopyStep ==
  ASSUME D3D12Inv, ~abandoned, D3D12!SubmitCopy
  PROVE  D3D12Inv'
<1>0. "direct" \in D3D12!Queue /\ "video" \in D3D12!Queue /\ "direct_copy" \in D3D12!Allocator
      /\ "direct" \in D3D12!Allocator /\ "video" \in D3D12!Allocator
  BY DEF D3D12!Queue, D3D12!Allocator
<1>1. D3D12!Submit("direct", "copy", "direct_copy", <<D3D12!Wait(fenceValue)>>) /\ d3d12At' = "copied"
  BY DEF D3D12!SubmitCopy
<1>2. PICK v \in Nat : AtDecoded(v)
  BY DEF D3D12!SubmitCopy, D3D12Inv, InOrderOfCall
<1>3. fence \in Nat /\ \A f \in frames : f.picture = f.call
  BY DEF D3D12Inv, InOrderOfCall
<1>4. fenceValue = v + 1 /\ D3D12!Wait(fenceValue) = Waits(call, v + 1)
  BY <1>2 DEF AtDecoded, D3D12!Wait, Waits, Op
<1>s. Submits("direct", "copy", "direct_copy", <<D3D12!Wait(fenceValue)>>) /\ D3D12Types'
  BY <1>0, <1>1, Submitted DEF D3D12Inv
<1>v. fenceValue + 1 = v + 2
  BY <1>4
<1>5. queues'["direct"] = queues["direct"] \o <<Waits(call, v + 1)>>
        \o <<Copies(call, v + 2), Signals(call, v + 2)>>
  BY ONLY <1>4, <1>s, <1>v DEF Submits, Copies
<1>6. /\ queues'["video"] = queues["video"] /\ fenceValue' = v + 2 /\ D3D12Types'
      /\ allocator'["direct"] = allocator["direct"] /\ allocator'["video"] = allocator["video"]
      /\ allocator'["direct_copy"] = v + 2
      /\ UNCHANGED <<call, fence, upload, bitstream, texture, frames>>
  BY ONLY <1>0, <1>v, <1>s DEF Submits
<1>7. CopyWaits(v)' = CopyWaits(v)
  BY <1>6 DEF CopyWaits
<1>8. CASE Direct(<<>>)
  <2>1. queues'["direct"] = CopyWaits(v)
    BY <1>5, <1>8, QueueJoins DEF CopyWaits, Direct
  <2>2. Decoding(v) /\ bitstream = call
    BY <1>2, <1>8, QueueTails DEF AtDecoded, Direct
  <2>3. AtCopied(v)'
    BY <1>2, <1>6, <1>7, <2>1, <2>2 DEF AtDecoded, AtCopied, Decoding, Direct, Video
  <2> QED
    BY <1>1, <1>3, <1>6, <2>3 DEF D3D12Inv, InOrderOfCall
<1>9. CASE DecodeWaits(v) /\ Direct(<<Uploads(call, v), Signals(call, v)>>)
  <2>1. queues'["direct"] = <<Uploads(call, v), Signals(call, v)>> \o CopyWaits(v)
    BY <1>5, <1>9, LongJoins DEF CopyWaits, Direct
  <2>3. AtCopied(v)'
    BY <1>2, <1>6, <1>7, <1>9, <2>1 DEF AtDecoded, AtCopied, DecodeWaits, Direct, Video
  <2> QED
    BY <1>1, <1>3, <1>6, <2>3 DEF D3D12Inv, InOrderOfCall
<1>10. CASE DecodeWaits(v) /\ bitstream = call /\ Direct(<<Signals(call, v)>>)
  <2>1. queues'["direct"] = <<Signals(call, v)>> \o CopyWaits(v)
    BY <1>5, <1>10, LongJoins DEF CopyWaits, Direct
  <2>3. AtCopied(v)'
    BY <1>2, <1>6, <1>7, <1>10, <2>1 DEF AtDecoded, AtCopied, DecodeWaits, Direct, Video
  <2> QED
    BY <1>1, <1>3, <1>6, <2>3 DEF D3D12Inv, InOrderOfCall
<1> QED
  BY <1>2, <1>8, <1>9, <1>10 DEF AtDecoded

\* A call that ends by itself, or by an error before anything is queued.
LEMMA OtherSteps ==
  ASSUME D3D12Inv, ~abandoned,
         D3D12!Initialize \/ D3D12!MapUpload \/ D3D12!CpuWait \/ D3D12!ReadBack \/ D3D12!Fails
  PROVE  ~abandoned' => InOrderOfCall'
<1> SUFFICES ASSUME ~abandoned' PROVE InOrderOfCall'
  OBVIOUS
<1> InOrderOfCall
  BY DEF D3D12Inv
<1>1. CASE D3D12!Initialize
  <2>1. UNCHANGED d3d12 \/ UNCHANGED <<call, d3d12At, allocator, queues, fenceValue, fence,
             upload, bitstream, texture, readback, frames, abandoned>>
    BY <1>1 DEF D3D12!Initialize, D3D12!resources
  <2> QED
    BY <2>1, InOrderKept DEF d3d12
<1>2. CASE D3D12!MapUpload
  BY <1>2 DEF D3D12!MapUpload, InOrderOfCall, AtRest, Video, Direct
<1>3. CASE D3D12!CpuWait
  <2>1. PICK v \in Nat : AtCopied(v)
    BY <1>3 DEF D3D12!CpuWait, InOrderOfCall
  <2>a. fence \in Nat /\ fenceValue = v + 2 /\ fence >= v + 2
    BY <1>3, <2>1 DEF D3D12!CpuWait, AtCopied, InOrderOfCall
  <2>b. ~DecodeWaits(v) /\ ~Decoding(v) /\ fence # v + 1
    BY <2>a DEF DecodeWaits, Decoding
  <2>2. fence = v + 2 /\ readback = call /\ Video(<<>>) /\ Direct(<<>>) /\ fenceValue = v + 2
    BY ONLY <2>1, <2>a, <2>b DEF AtCopied
  <2> QED
    BY <1>3, <2>2 DEF D3D12!CpuWait, D3D12!resources, InOrderOfCall, AtRest, Video, Direct
<1>4. CASE D3D12!ReadBack
  BY <1>4 DEF D3D12!ReadBack, D3D12!resources, InOrderOfCall, AtRest, Video, Direct
<1>5. CASE D3D12!Fails
  <2>1. d3d12At \in {"mapped", "readable"} /\ AtRest
    BY <1>5 DEF D3D12!Fails, InOrderOfCall
  <2> QED
    BY <1>5, <2>1 DEF D3D12!Fails, D3D12!resources, InOrderOfCall, AtRest, Video, Direct
<1> QED
  BY <1>1, <1>2, <1>3, <1>4, <1>5

LEMMA D3D12TypesKept ==
  ASSUME D3D12Types, D3D12!Next
  PROVE  D3D12Types' /\ (abandoned => abandoned')
<1>1. CASE D3D12!Gpu
  <2>1. PICK q \in D3D12!Queue : D3D12!Run(q) \/ D3D12!Signalled(q) \/ D3D12!Waited(q)
    BY <1>1 DEF D3D12!Gpu
  <2> QED
    BY <2>1, GpuTakes DEF Takes
<1>2. CASE D3D12!SubmitUpload \/ D3D12!SubmitDecode \/ D3D12!SubmitCopy
  <2>1. PICK q \in D3D12!Queue, alloc \in D3D12!Allocator :
          \E work, after : D3D12!Submit(q, work, alloc, after)
    <3>1. CASE D3D12!SubmitUpload
      BY <3>1 DEF D3D12!SubmitUpload, D3D12!Queue, D3D12!Allocator
    <3>2. CASE D3D12!SubmitDecode
      BY <3>2 DEF D3D12!SubmitDecode, D3D12!Queue, D3D12!Allocator
    <3>3. CASE D3D12!SubmitCopy
      BY <3>3 DEF D3D12!SubmitCopy, D3D12!Queue, D3D12!Allocator
    <3> QED
      BY <1>2, <3>1, <3>2, <3>3
  <2> QED
    BY <2>1, Submitted DEF Submits
<1>3. CASE D3D12!Initialize \/ D3D12!MapUpload \/ D3D12!CpuWait \/ D3D12!ReadBack \/ D3D12!Fails
  <2>1. /\ UNCHANGED <<allocator, queues, fenceValue>> /\ call' \in Nat
    BY <1>3 DEF D3D12Types, D3D12!Initialize, D3D12!MapUpload, D3D12!CpuWait, D3D12!ReadBack, D3D12!Fails
  <2>2. abandoned' \in BOOLEAN /\ (abandoned => abandoned')
    BY <1>3 DEF D3D12Types, D3D12!Initialize, D3D12!MapUpload, D3D12!CpuWait, D3D12!ReadBack, D3D12!Fails
  <2> QED
    BY <2>1, <2>2 DEF D3D12Types
<1> QED
  BY <1>1, <1>2, <1>3 DEF D3D12!Next, D3D12!Decode

LEMMA D3D12Stutter ==
  ASSUME D3D12Inv, UNCHANGED d3d12
  PROVE  D3D12Inv'
<1>1. D3D12Types'
  BY DEF D3D12Inv, D3D12Types, d3d12
<1>2. ~abandoned' => InOrderOfCall'
  BY InOrderKept DEF D3D12Inv, d3d12
<1> QED
  BY <1>1, <1>2 DEF D3D12Inv

LEMMA D3D12Step ==
  ASSUME D3D12Inv, D3D12!Next
  PROVE  D3D12Inv'
<1>1. D3D12Types' /\ (abandoned => abandoned')
  BY D3D12TypesKept DEF D3D12Inv
<1> SUFFICES ASSUME ~abandoned PROVE D3D12Inv'
  BY <1>1 DEF D3D12Inv
<1>2. CASE D3D12!Gpu
  BY <1>2, GpuStep
<1>3. CASE D3D12!SubmitUpload
  BY <1>3, SubmitUploadStep
<1>4. CASE D3D12!SubmitDecode
  BY <1>4, SubmitDecodeStep
<1>5. CASE D3D12!SubmitCopy
  BY <1>5, SubmitCopyStep
<1>6. CASE D3D12!Initialize \/ D3D12!MapUpload \/ D3D12!CpuWait \/ D3D12!ReadBack \/ D3D12!Fails
  BY <1>1, <1>6, OtherSteps DEF D3D12Inv
<1> QED
  BY <1>2, <1>3, <1>4, <1>5, <1>6 DEF D3D12!Next, D3D12!Decode

\* A list whose allocator was last reset for it, or no list.
Recorded(op) == op.op \in D3D12!Work => allocator[op.alloc] = op.value
AllRecorded(ops) == \A i \in DOMAIN ops : Recorded(ops[i])

LEMMA RecordedTuples ==
  /\ AllRecorded(<<>>)
  /\ \A a : Recorded(a) => AllRecorded(<<a>>)
  /\ \A a, b : Recorded(a) /\ Recorded(b) => AllRecorded(<<a, b>>)
  /\ \A a, b, c : Recorded(a) /\ Recorded(b) /\ Recorded(c) => AllRecorded(<<a, b, c>>)
  BY DEF AllRecorded

LEMMA RecordedJoins ==
  ASSUME NEW S, NEW s \in Seq(S), NEW t \in Seq(S), AllRecorded(s), AllRecorded(t)
  PROVE  AllRecorded(s \o t)
<1>1. \A i \in 1 .. Len(s) : Recorded(s[i])
  BY DEF AllRecorded
<1>2. \A i \in 1 .. Len(t) : Recorded(t[i])
  BY DEF AllRecorded
<1> QED
  BY <1>1, <1>2 DEF AllRecorded

\* Every list that is queued was recorded last from its allocator.
LEMMA AllAreRecorded ==
  ASSUME InOrderOfCall
  PROVE  AllRecorded(queues["direct"]) /\ AllRecorded(queues["video"])
<1>1. \A c, v :
        /\ Recorded(Signals(c, v)) /\ Recorded(Waits(c, v))
        /\ allocator["direct"] = v => Recorded(Uploads(c, v))
        /\ allocator["video"] = v => Recorded(Decodes(c, v))
        /\ allocator["direct_copy"] = v => Recorded(Copies(c, v))
  BY OpFields DEF Recorded, D3D12!Work
<1>2. ASSUME NEW v \in Nat, DecodeWaits(v) \/ Decoding(v), allocator["video"] = v + 1
      PROVE  AllRecorded(queues["video"])
  BY <1>1, <1>2, RecordedTuples DEF DecodeWaits, Decoding, Video
<1>3. CASE AtRest
  BY <1>3, RecordedTuples DEF AtRest, Direct, Video
<1>4. ASSUME NEW v \in Nat, AtUploaded(v)
      PROVE  AllRecorded(queues["direct"]) /\ AllRecorded(queues["video"])
  BY <1>1, <1>4, RecordedTuples DEF AtUploaded, Direct, Video
<1>5. ASSUME NEW v \in Nat, AtDecoded(v)
      PROVE  AllRecorded(queues["direct"]) /\ AllRecorded(queues["video"])
  BY <1>1, <1>2, <1>5, RecordedTuples DEF AtDecoded, Direct
<1>6. ASSUME NEW v \in Nat, AtCopied(v)
      PROVE  AllRecorded(queues["direct"]) /\ AllRecorded(queues["video"])
  <2>1. AllRecorded(queues["video"])
    BY <1>2, <1>6, RecordedTuples DEF AtCopied, Video
  <2>2. Recorded(Uploads(call, v)) /\ Recorded(Copies(call, v + 2))
    BY <1>1, <1>6 DEF AtCopied
  <2> DEFINE S == {Uploads(call, v), Signals(call, v), Waits(call, v + 1), Copies(call, v + 2), Signals(call, v + 2)}
  <2>3. <<Signals(call, v)>> \in Seq(S) /\ <<Uploads(call, v), Signals(call, v)>> \in Seq(S)
    OBVIOUS
  <2>4. CopyWaits(v) \in Seq(S)
    BY DEF CopyWaits
  <2>5. AllRecorded(CopyWaits(v))
    BY <1>1, <2>2, RecordedTuples DEF CopyWaits
  <2> HIDE DEF S
  <2>6. AllRecorded(<<Signals(call, v)>>) /\ AllRecorded(<<Uploads(call, v), Signals(call, v)>>)
    BY ONLY <1>1, <2>2, RecordedTuples
  <2>7. /\ AllRecorded(<<Signals(call, v)>> \o CopyWaits(v))
        /\ AllRecorded(<<Uploads(call, v), Signals(call, v)>> \o CopyWaits(v))
    BY ONLY <2>3, <2>4, <2>5, <2>6, RecordedJoins
  <2>8. AllRecorded(<<Copies(call, v + 2), Signals(call, v + 2)>>) /\ AllRecorded(<<Signals(call, v + 2)>>)
    BY ONLY <1>1, <2>2, RecordedTuples
  <2> QED
    BY <1>6, <2>1, <2>5, <2>7, <2>8, RecordedTuples DEF AtCopied, Direct
<1> QED
  BY <1>3, <1>4, <1>5, <1>6 DEF InOrderOfCall

LEMMA D3D12FramesTrue ==
  ASSUME D3D12Inv
  PROVE  D3D12!FramesTrue
<1> SUFFICES ASSUME ~abandoned
             PROVE  D3D12!ListsIntact /\ \A f \in frames : f.picture = f.call
  BY DEF D3D12!FramesTrue
<1>0. InOrderOfCall
  BY DEF D3D12Inv
<1> SUFFICES ASSUME NEW q \in D3D12!Queue, NEW op \in D3D12!ToSet(queues[q]), op.op \in D3D12!Work
             PROVE  allocator[op.alloc] = op.value
  BY <1>0 DEF InOrderOfCall, D3D12!ListsIntact
<1>1. PICK i \in DOMAIN queues[q] : op = queues[q][i]
  BY DEF D3D12!ToSet
<1>2. AllRecorded(queues[q])
  BY <1>0, AllAreRecorded DEF D3D12!Queue
<1> QED
  BY <1>1, <1>2 DEF AllRecorded, Recorded


-----------------------------------------------------------------------------
(* VtSessions: what a session that goes has left, and who holds what.      *)

KeptBy(kept, o) == {s \in Vt!Session : kept[s] = o}
Holding(codes, o) ==
  {u \in Vt!Session \X (1 .. MaxCoding) : u[2] <= Len(codes[u[1]]) /\ codes[u[1]][u[2]] = o}

VtTypes ==
  /\ made \in Nat /\ current \in 0 .. made /\ fresh \in 0 .. made
  /\ made <= VtMaxSessions
  /\ given \in 0 .. VtMaxFrames
  /\ box = [s \in Vt!Session |-> box[s]]
  /\ callback = [s \in Vt!Session |-> callback[s]]
  /\ coding \in [Vt!Session -> Seq(Vt!Object)]
  /\ \A s \in Vt!Session : Len(coding[s]) <= MaxCoding
  /\ cached \in [Vt!Session -> Vt!Object \cup {0}]
  /\ refs \in [Vt!Object -> Int]

\* A session that VideoToolbox has frames of, and the next one, have their box;
\* a session is dropped from its place, and is past its last frame when it goes.
InLife ==
  /\ \A s \in Vt!Session : coding[s] # <<>> => box[s] = "live" /\ s <= made
  /\ \A s \in Vt!Session : callback[s] # "none" => coding[s] # <<>>
  /\ current # 0 => box[current] = "live"
  /\ fresh # 0 => fresh # current /\ box[fresh] = "live"
  /\ owner \in {"completing", "invalidating", "freeing"} => dropping = current /\ current # 0
  /\ owner \in {"invalidating", "freeing"} => coding[dropping] = <<>>

VtInv == VtTypes /\ InLife /\ Vt!Balanced

Is(x, y) == IF x = y THEN 1 ELSE 0

LEMMA VtConstants ==
  /\ VtMaxSessions \in Nat /\ VtMaxFrames \in Nat /\ MaxCoding \in Nat
  /\ Vt!Session = 1 .. VtMaxSessions /\ Vt!Object = 1 .. VtMaxFrames
  /\ Vt!None = 0
  BY PartsAssumption DEF Vt!Assumption, Vt!Session, Vt!Object, Vt!None

\* The sets that are counted are finite.
LEMMA HoldersFinite ==
  ASSUME NEW kept, NEW codes, NEW o
  PROVE  /\ IsFiniteSet(KeptBy(kept, o)) /\ Cardinality(KeptBy(kept, o)) \in Nat
         /\ IsFiniteSet(Holding(codes, o)) /\ Cardinality(Holding(codes, o)) \in Nat
<1>1. IsFiniteSet(Vt!Session) /\ IsFiniteSet(1 .. MaxCoding)
  BY VtConstants, FS_Interval
<1>2. IsFiniteSet(Vt!Session \X (1 .. MaxCoding))
  BY <1>1, FS_Product
<1>3. KeptBy(kept, o) \in SUBSET Vt!Session /\ Holding(codes, o) \in SUBSET (Vt!Session \X (1 .. MaxCoding))
  BY DEF KeptBy, Holding
<1> QED
  BY <1>1, <1>2, <1>3, FS_Subset, FS_CardinalityType

LEMMA KeptChanges ==
  \A kept, after, o : \A s \in Vt!Session :
    (\A r \in Vt!Session : r # s => after[r] = kept[r]) =>
      Cardinality(KeptBy(after, o))
        = Cardinality(KeptBy(kept, o)) - Is(kept[s], o) + Is(after[s], o)
<1> SUFFICES ASSUME NEW kept, NEW after, NEW o, NEW s \in Vt!Session,
                    \A r \in Vt!Session : r # s => after[r] = kept[r]
             PROVE  Cardinality(KeptBy(after, o))
                      = Cardinality(KeptBy(kept, o)) - Is(kept[s], o) + Is(after[s], o)
  OBVIOUS
<1> DEFINE K == KeptBy(kept, o)
           L == KeptBy(after, o)
<1>1. IsFiniteSet(K) /\ Cardinality(K) \in Nat /\ IsFiniteSet(K \ {s})
  BY HoldersFinite, FS_RemoveElement
<1>2. L = IF after[s] = o THEN (K \ {s}) \cup {s} ELSE K \ {s}
  BY DEF KeptBy
<1>3. (s \in K) <=> (kept[s] = o)
  BY DEF KeptBy
<1> HIDE DEF K, L
<1>4. Cardinality(K \ {s}) = Cardinality(K) - Is(kept[s], o)
  BY <1>1, <1>3, FS_RemoveElement DEF Is
<1>5. Cardinality((K \ {s}) \cup {s}) = Cardinality(K \ {s}) + 1
  BY <1>1, FS_AddElement
<1>6. Cardinality(L) = Cardinality(K) - Is(kept[s], o) + Is(after[s], o)
  BY <1>1, <1>2, <1>4, <1>5 DEF Is
<1> QED
  BY <1>6 DEF K, L

Coded == [Vt!Session -> Seq(Vt!Object)]

LEMMA HoldingAppends ==
  ASSUME NEW codes \in Coded, NEW s \in Vt!Session, Len(codes[s]) < MaxCoding,
         NEW d \in Vt!Object, NEW o
  PROVE  Cardinality(Holding([codes EXCEPT ![s] = Append(@, d)], o))
           = Cardinality(Holding(codes, o)) + Is(d, o)
<1> DEFINE n == Len(codes[s]) + 1
           more == [codes EXCEPT ![s] = Append(@, d)]
           H == Holding(codes, o)
           J == Holding(more, o)
<1>1. /\ codes[s] \in Seq(Vt!Object) /\ n \in 1 .. MaxCoding
      /\ Len(more[s]) = n /\ more[s][n] = d
      /\ \A i \in 1 .. n - 1 : more[s][i] = codes[s][i]
      /\ \A r \in Vt!Session : r # s => more[r] = codes[r]
  BY VtConstants DEF Coded
<1> HIDE DEF more
<1>2. J = IF d = o THEN H \cup {<<s, n>>} ELSE H
  <2>1. ASSUME NEW r \in Vt!Session, NEW i \in 1 .. MaxCoding
        PROVE  <<r, i>> \in J <=> <<r, i>> \in H \/ (<<r, i>> = <<s, n>> /\ d = o)
    <3>1. CASE r # s
      BY <1>1, <3>1 DEF Holding
    <3>2. CASE r = s /\ i = n
      BY <1>1, <3>2 DEF Holding
    <3>3. CASE r = s /\ i # n
      BY <1>1, <3>3 DEF Holding
    <3> QED
      BY <3>1, <3>2, <3>3
  <2>2. \A u \in H \cup J : u[1] \in Vt!Session /\ u[2] \in 1 .. MaxCoding /\ u = <<u[1], u[2]>>
    BY DEF Holding
  <2>n. n \in 1 .. MaxCoding
    BY <1>1
  <2> HIDE DEF H, J, n
  <2>3. \A u \in H : u \in J
    BY <2>1, <2>2
  <2>4. \A u \in J : u \in H \/ (u = <<s, n>> /\ d = o)
    BY <2>1, <2>2
  <2>5. d = o => <<s, n>> \in J
    BY <2>1, <2>n
  <2> QED
    BY ONLY <2>3, <2>4, <2>5
<1>3. <<s, n>> \notin H
  BY <1>1 DEF Holding
<1>4. IsFiniteSet(H) /\ Cardinality(H) \in Nat
  BY HoldersFinite
<1> HIDE DEF H, J
<1>5. Cardinality(H \cup {<<s, n>>}) = Cardinality(H) + 1
  BY <1>3, <1>4, FS_AddElement
<1>6. Cardinality(J) = Cardinality(H) + Is(d, o)
  BY <1>2, <1>4, <1>5 DEF Is
<1> QED
  BY <1>6 DEF H, J, more

LEMMA HoldingTail ==
  ASSUME NEW codes \in Coded, NEW s \in Vt!Session, codes[s] # <<>>, Len(codes[s]) <= MaxCoding, NEW o
  PROVE  Cardinality(Holding([codes EXCEPT ![s] = Tail(@)], o))
           = Cardinality(Holding(codes, o)) - Is(Head(codes[s]), o)
<1> DEFINE n == Len(codes[s])
           less == [codes EXCEPT ![s] = Tail(@)]
           H == Holding(codes, o)
           J == Holding(less, o)
           C == H \ {<<s, 1>>}
           shift == [u \in J |-> <<u[1], IF u[1] = s THEN u[2] + 1 ELSE u[2]>>]
<1>1. /\ codes[s] \in Seq(Vt!Object) /\ n \in 1 .. MaxCoding /\ MaxCoding \in Nat
      /\ Len(less[s]) = n - 1 /\ Head(codes[s]) = codes[s][1]
      /\ \A i \in 1 .. n - 1 : less[s][i] = codes[s][i + 1]
      /\ \A r \in Vt!Session : r # s => less[r] = codes[r]
      /\ \A r \in Vt!Session : Len(less[r]) \in Nat /\ Len(codes[r]) \in Nat
  BY VtConstants DEF Coded
<1> HIDE DEF less
<1>2. /\ \A r \in Vt!Session, i \in 1 .. MaxCoding :
            <<r, i>> \in H <=> i <= Len(codes[r]) /\ codes[r][i] = o
      /\ \A r \in Vt!Session, i \in 1 .. MaxCoding :
            <<r, i>> \in J <=> i <= Len(less[r]) /\ less[r][i] = o
  BY DEF Holding
<1>3. /\ \A u \in H : u[1] \in Vt!Session /\ u[2] \in 1 .. MaxCoding /\ u = <<u[1], u[2]>>
      /\ \A u \in J : u[1] \in Vt!Session /\ u[2] \in 1 .. MaxCoding /\ u = <<u[1], u[2]>>
  BY DEF Holding
<1>4. <<s, 1>> \in H <=> Head(codes[s]) = o
  BY <1>1, <1>2
<1> HIDE DEF H, J, n
<1>5. shift \in Bijection(J, C)
  <2>1. ASSUME NEW u \in J PROVE shift[u] \in C
    <3>1. CASE u[1] = s
      <4>1. u[2] \in 1 .. n - 1 /\ less[s][u[2]] = o
        BY <1>1, <1>2, <1>3, <3>1 DEF n
      <4>2. u[2] + 1 \in 1 .. MaxCoding /\ u[2] + 1 <= n /\ codes[s][u[2] + 1] = o
        BY <1>1, <4>1
      <4>3. <<s, u[2] + 1>> \in H /\ <<s, u[2] + 1>> # <<s, 1>>
        BY <1>2, <4>1, <4>2 DEF n
      <4> QED
        BY <3>1, <4>3
    <3>2. CASE u[1] # s
      <4>1. <<u[1], u[2]>> \in H /\ <<u[1], u[2]>> # <<s, 1>>
        BY <1>1, <1>2, <1>3, <3>2
      <4> QED
        BY <3>2, <4>1
    <3> QED
      BY <3>1, <3>2
  <2>2. shift \in [J -> C]
    BY <2>1
  <2>3. \A u, w \in J : shift[u] = shift[w] => u = w
    <3> SUFFICES ASSUME NEW u \in J, NEW w \in J, shift[u] = shift[w] PROVE u = w
      OBVIOUS
    <3>1. u[1] = w[1]
      OBVIOUS
    <3>2. u[2] = w[2]
      BY <1>3, <3>1
    <3> QED
      BY <1>3, <3>1, <3>2
  <2>4. \A c \in C : \E u \in J : shift[u] = c
    <3> SUFFICES ASSUME NEW c \in C PROVE \E u \in J : shift[u] = c
      OBVIOUS
    <3>1. c \in H /\ c # <<s, 1>> /\ c[1] \in Vt!Session /\ c[2] \in 1 .. MaxCoding /\ c = <<c[1], c[2]>>
      BY <1>3
    <3>2. CASE c[1] = s
      <4>1. c[2] \in 2 .. n /\ codes[s][c[2]] = o
        BY <1>1, <1>2, <3>1, <3>2 DEF n
      <4>2. c[2] - 1 \in 1 .. n - 1 /\ c[2] - 1 + 1 = c[2] /\ c[2] - 1 \in 1 .. MaxCoding
        BY <1>1, <4>1
      <4>a. less[s][c[2] - 1] = o /\ c[2] - 1 <= Len(less[s])
        BY <1>1, <4>1, <4>2
      <4>3. <<s, c[2] - 1>> \in J
        BY ONLY <1>2, <4>2, <4>a, s \in Vt!Session
      <4>4. shift[<<s, c[2] - 1>>] = <<s, c[2]>>
        BY <4>2, <4>3
      <4> QED
        BY <3>1, <3>2, <4>3, <4>4
    <3>3. CASE c[1] # s
      <4>1. c \in J
        BY <1>1, <1>2, <3>1, <3>3
      <4> QED
        BY <3>1, <3>3, <4>1
    <3> QED
      BY <3>2, <3>3
  <2> HIDE DEF C, shift
  <2> QED
    BY <2>2, <2>3, <2>4, Fun_IsBij
<1>6. /\ IsFiniteSet(H) /\ Cardinality(H) \in Nat /\ IsFiniteSet(J)
      /\ Cardinality(J) \in Nat
  BY HoldersFinite DEF H, J
<1> HIDE DEF shift
<1>7. Cardinality(C) = Cardinality(H) - Is(Head(codes[s]), o)
  <2>1. Cardinality(C) = IF <<s, 1>> \in H THEN Cardinality(H) - 1 ELSE Cardinality(H)
    BY <1>6, FS_RemoveElement
  <2> HIDE DEF C
  <2> QED
    BY <1>4, <1>6, <2>1 DEF Is
<1>8. Cardinality(C) = Cardinality(J)
  <2>1. ExistsBijection(J, C)
    BY <1>5, Fun_ExistsBij
  <2> HIDE DEF C
  <2> QED
    BY <1>6, <2>1, FS_Bijection
<1> QED
  BY <1>7, <1>8 DEF H, J, less

LEMMA SameCardinality == \A S : Vt!Cardinality(S) = Cardinality(S)
  BY DEF Vt!Cardinality, Cardinality

LEMMA Counts ==
  ASSUME NEW o
  PROVE  Vt!Uses(o) = Cardinality(KeptBy(cached, o)) + Cardinality(Holding(coding, o))
<1>1. KeptBy(cached, o) = {s \in Vt!Session : cached[s] = o}
  BY DEF KeptBy
<1>2. Holding(coding, o) = {u \in Vt!Session \X (1 .. MaxCoding) :
                             u[2] <= Len(coding[u[1]]) /\ coding[u[1]][u[2]] = o}
  BY DEF Holding
<1> QED
  BY ONLY <1>1, <1>2, SameCardinality DEF Vt!Uses

\* What retaining and releasing do to a count.
LEMMA Counted ==
  ASSUME NEW count \in [Vt!Object -> Int], NEW d \in Vt!Object \cup {0}
  PROVE  /\ Vt!Retain(count, d) \in [Vt!Object -> Int]
         /\ Vt!Release(count, d) \in [Vt!Object -> Int]
         /\ \A o \in Vt!Object : /\ Vt!Retain(count, d)[o] = count[o] + Is(d, o)
                              /\ Vt!Release(count, d)[o] = count[o] - Is(d, o)
<1>1. CASE d = 0
  BY <1>1, VtConstants DEF Vt!Retain, Vt!Release, Is
<1>2. CASE d \in Vt!Object
  <2>1. d # 0
    BY <1>2, VtConstants
  <2> QED
    BY <1>2, <2>1, VtConstants DEF Vt!Retain, Vt!Release, Is
<1> QED
  BY <1>1, <1>2

LEMMA VtInit ==
  ASSUME Vt!Init
  PROVE  VtInv
<1>1. VtTypes
  BY VtConstants DEF Vt!Init, VtTypes
<1>2. InLife
  BY VtConstants DEF Vt!Init, InLife
<1>3. ASSUME NEW o \in Vt!Object PROVE refs[o] = Vt!Uses(o)
  <2>1. o # 0
    BY VtConstants
  <2>2. KeptBy(cached, o) = {} /\ Holding(coding, o) = {}
    BY <2>1, VtConstants DEF Vt!Init, KeptBy, Holding
  <2> QED
    BY <2>2, Counts, FS_EmptySet DEF Vt!Init
<1> QED
  BY <1>1, <1>2, <1>3 DEF VtInv, Vt!Balanced

-----------------------------------------------------------------------------
(* Steps that leave the objects alone.                                     *)

LEMMA NothingCounted ==
  ASSUME Vt!Balanced, UNCHANGED <<coding, cached, refs>>
  PROVE  Vt!Balanced'
  BY DEF Vt!Balanced, Vt!Uses

\* Sessions come and go.
LEMMA SessionSteps ==
  ASSUME VtInv,
         \/ Vt!CreateEncoder \/ Vt!CreateDecoder \/ Vt!CreateFails \/ Vt!Reset \/ Vt!Discard
         \/ Vt!Completed \/ Vt!Invalidate
  PROVE  VtInv'
<1> VtTypes /\ InLife /\ Vt!Balanced
  BY DEF VtInv
<1>1. UNCHANGED <<coding, cached, refs, callback, given>>
  BY DEF Vt!CreateEncoder, Vt!CreateDecoder, Vt!CreateFails, Vt!Reset, Vt!Discard, Vt!Completed,
    Vt!Invalidate, Vt!videotoolbox
<1>2. Vt!Balanced'
  BY <1>1, NothingCounted
<1>3. CASE Vt!CreateEncoder \/ Vt!CreateDecoder \/ Vt!CreateFails
  <2>1. /\ made' = made + 1 /\ made + 1 \in Vt!Session /\ made + 1 \in Nat
        /\ box' = [s \in Vt!Session |-> box'[s]]
        /\ \A s \in Vt!Session : s # made + 1 => box'[s] = box[s]
        /\ owner = "idle"
    BY <1>3, VtConstants DEF VtTypes, Vt!CreateEncoder, Vt!CreateDecoder, Vt!CreateFails, Vt!Create, Vt!Free
  <2>2. \/ current' = current /\ fresh' = fresh /\ owner' = owner /\ dropping' = dropping
        \/ /\ box'[made + 1] = "live"
           /\ \/ current = 0 /\ current' = made + 1 /\ owner' = owner
                 /\ (fresh' = 0 \/ fresh' = fresh)
              \/ /\ current # 0 /\ current' = current /\ fresh' = made + 1
                 /\ owner' = "completing" /\ dropping' = current
    BY <1>3, <2>1, VtConstants DEF VtTypes, Vt!CreateEncoder, Vt!CreateDecoder, Vt!CreateFails, Vt!Create,
      Vt!Drop, Vt!NoDrop
  <2>3. VtTypes'
    BY <1>1, <2>1, <2>2, VtConstants DEF VtTypes
  <2>4. \A s \in Vt!Session : coding'[s] # <<>> => box'[s] = "live" /\ s <= made'
    <3> SUFFICES ASSUME NEW s \in Vt!Session, coding[s] # <<>> PROVE box'[s] = "live" /\ s <= made'
      BY <1>1
    <3>1. box[s] = "live" /\ s <= made
      BY DEF InLife
    <3>2. s # made + 1 /\ s <= made + 1
      BY <3>1, VtConstants DEF VtTypes
    <3> QED
      BY <2>1, <3>1, <3>2
  <2>5. \A s \in Vt!Session : callback'[s] # "none" => coding'[s] # <<>>
    BY <1>1 DEF InLife
  <2>6. /\ current # 0 => current \in Vt!Session /\ current # made + 1
        /\ fresh # 0 => fresh \in Vt!Session /\ fresh # made + 1
    BY VtConstants DEF VtTypes
  <2>7. /\ current' # 0 => box'[current'] = "live"
        /\ fresh' # 0 => fresh' # current' /\ box'[fresh'] = "live"
    BY <2>1, <2>2, <2>6 DEF InLife
  <2>8. owner' \in {"completing", "invalidating", "freeing"} => dropping' = current' /\ current' # 0
    BY <2>1, <2>2
  <2>9. owner' \notin {"invalidating", "freeing"}
    BY <2>1, <2>2
  <2> QED
    BY <1>2, <2>3, <2>4, <2>5, <2>7, <2>8, <2>9 DEF VtInv, InLife
<1>4. CASE Vt!Reset \/ Vt!Discard
  <2>1. /\ UNCHANGED <<made, current, fresh, box>> /\ owner' = "completing"
        /\ dropping' = current /\ current # 0
    BY <1>4, VtConstants DEF Vt!Reset, Vt!Discard, Vt!Drop
  <2>2. VtTypes'
    BY <1>1, <2>1 DEF VtTypes
  <2> QED
    BY <1>1, <1>2, <2>1, <2>2 DEF VtInv, InLife
<1>5. CASE Vt!Completed \/ Vt!Invalidate
  <2>1. /\ UNCHANGED <<made, current, fresh, box, dropping>>
        /\ owner \in {"completing", "invalidating"} /\ coding[dropping] = <<>>
    BY <1>5 DEF Vt!Completed, Vt!Invalidate, InLife
  <2>2. VtTypes'
    BY <1>1, <2>1 DEF VtTypes
  <2> QED
    BY <1>1, <1>2, <2>1, <2>2 DEF VtInv, InLife
<1> QED
  BY <1>3, <1>4, <1>5

\* Locks, and callbacks that have not let go of their frame.
LEMMA LockSteps ==
  ASSUME VtInv,
         \/ \E s \in Vt!Session : Vt!CallbackBegins(s) \/ Vt!CallbackLocks(s)
         \/ Vt!QueueLocked \/ Vt!QueueUnlocked
  PROVE  VtInv'
<1> VtTypes /\ InLife /\ Vt!Balanced
  BY DEF VtInv
<1>1. UNCHANGED <<made, current, fresh, dropping, coding, box, cached, refs, given>>
  BY DEF Vt!CallbackBegins, Vt!CallbackLocks, Vt!QueueLocked, Vt!QueueUnlocked, Vt!owning, Vt!videotoolbox
<1>2. Vt!Balanced'
  BY <1>1, NothingCounted
<1>3. owner' = owner \/ owner' \in {"reading", "idle"}
  BY DEF Vt!CallbackBegins, Vt!CallbackLocks, Vt!QueueLocked, Vt!QueueUnlocked, Vt!owning
<1>4. /\ callback' = [s \in Vt!Session |-> callback'[s]]
      /\ \A s \in Vt!Session : callback'[s] # "none" => coding[s] # <<>>
  <2>1. CASE UNCHANGED callback
    BY <2>1 DEF VtTypes, InLife
  <2>2. ASSUME NEW s \in Vt!Session, Vt!CallbackBegins(s) \/ Vt!CallbackLocks(s)
        PROVE  /\ coding[s] # <<>> /\ callback' = [r \in Vt!Session |-> callback'[r]]
               /\ \A r \in Vt!Session : r # s => callback'[r] = callback[r]
    BY <2>2 DEF VtTypes, InLife, Vt!CallbackBegins, Vt!CallbackLocks
  <2>3. (Vt!QueueLocked \/ Vt!QueueUnlocked) => UNCHANGED callback
    BY DEF Vt!QueueLocked, Vt!QueueUnlocked, Vt!videotoolbox
  <2> QED
    BY <2>1, <2>2, <2>3 DEF InLife
<1>5. VtTypes'
  BY <1>1, <1>4 DEF VtTypes
<1>6. InLife'
  BY <1>1, <1>3, <1>4 DEF InLife
<1> QED
  BY <1>2, <1>5, <1>6 DEF VtInv

-----------------------------------------------------------------------------
(* Steps that retain and release.                                          *)

\* The counts follow what is kept and held.
LEMMA BalanceKept ==
  ASSUME Vt!Balanced, VtTypes, refs' \in [Vt!Object -> Int],
         \A o \in Vt!Object :
           refs'[o] - refs[o] =
             (Cardinality(KeptBy(cached', o)) - Cardinality(KeptBy(cached, o)))
               + (Cardinality(Holding(coding', o)) - Cardinality(Holding(coding, o)))
  PROVE  Vt!Balanced'
<1> SUFFICES ASSUME NEW o \in Vt!Object PROVE refs'[o] = Vt!Uses(o)'
  BY DEF Vt!Balanced
<1>1. refs[o] = Cardinality(KeptBy(cached, o)) + Cardinality(Holding(coding, o))
  BY Counts DEF Vt!Balanced
<1>2. Vt!Uses(o)' = Cardinality(KeptBy(cached', o)) + Cardinality(Holding(coding', o))
  <2>1. KeptBy(cached', o) = {s \in Vt!Session : cached'[s] = o}
    BY DEF KeptBy
  <2>2. Holding(coding', o) = {u \in Vt!Session \X (1 .. MaxCoding) :
                                u[2] <= Len(coding'[u[1]]) /\ coding'[u[1]][u[2]] = o}
    BY DEF Holding
  <2> QED
    BY ONLY <2>1, <2>2, SameCardinality DEF Vt!Uses
<1>3. /\ Cardinality(KeptBy(cached, o)) \in Nat /\ Cardinality(KeptBy(cached', o)) \in Nat
      /\ Cardinality(Holding(coding, o)) \in Nat /\ Cardinality(Holding(coding', o)) \in Nat
  BY HoldersFinite
<1> QED
  BY <1>1, <1>2, <1>3 DEF VtTypes

\* The end of a drop.
LEMMA FreedStep ==
  ASSUME VtInv, Vt!Freed
  PROVE  VtInv'
<1> VtTypes /\ InLife /\ Vt!Balanced
  BY DEF VtInv
<1>1. /\ dropping = current /\ current \in Vt!Session /\ coding[current] = <<>>
      /\ fresh # 0 => fresh # current /\ box[fresh] = "live"
  BY VtConstants DEF VtTypes, InLife, Vt!Freed
<1>2. /\ UNCHANGED <<coding, callback, made, given>>
      /\ refs' = Vt!Release(refs, cached[current])
      /\ cached' = [cached EXCEPT ![current] = 0]
      /\ box' = [box EXCEPT ![current] = "freed"]
      /\ current' = fresh /\ fresh' = 0 /\ owner' \in {"idle", "reading"}
  BY <1>1, VtConstants DEF Vt!Freed, Vt!videotoolbox
<1>3. /\ refs' \in [Vt!Object -> Int]
      /\ \A o \in Vt!Object : refs'[o] = refs[o] - Is(cached[current], o)
  BY <1>1, <1>2, Counted DEF VtTypes
<1>4. Vt!Balanced'
  <2>1. \A o \in Vt!Object : refs[o] \in Int /\ Is(0, o) = 0
    BY VtConstants DEF VtTypes, Is
  <2>2. \A o \in Vt!Object : Cardinality(KeptBy(cached', o))
          = Cardinality(KeptBy(cached, o)) - Is(cached[current], o) + Is(0, o)
    <3>1. cached'[current] = 0 /\ \A r \in Vt!Session : r # current => cached'[r] = cached[r]
      BY <1>1, <1>2 DEF VtTypes
    <3>2. \A o \in Vt!Object : Cardinality(KeptBy(cached', o))
            = Cardinality(KeptBy(cached, o)) - Is(cached[current], o) + Is(cached'[current], o)
      BY ONLY <1>1, <3>1, KeptChanges
    <3> QED
      BY ONLY <3>1, <3>2
  <2>3. \A o \in Vt!Object :
          /\ Cardinality(KeptBy(cached, o)) \in Nat /\ Cardinality(Holding(coding, o)) \in Nat
          /\ Cardinality(KeptBy(cached', o)) \in Nat /\ Is(cached[current], o) \in Nat
    BY HoldersFinite DEF Is
  <2>4. \A o \in Vt!Object : refs'[o] - refs[o] =
          (Cardinality(KeptBy(cached', o)) - Cardinality(KeptBy(cached, o)))
            + (Cardinality(Holding(coding', o)) - Cardinality(Holding(coding, o)))
    <3> TAKE o \in Vt!Object
    <3>1. refs'[o] = refs[o] - Is(cached[current], o)
      BY <1>3
    <3>2. Cardinality(KeptBy(cached', o))
            = Cardinality(KeptBy(cached, o)) - Is(cached[current], o) + Is(0, o)
      BY <2>2
    <3>3. Holding(coding', o) = Holding(coding, o)
      BY <1>2
    <3> QED
      BY ONLY <2>1, <2>3, <3>1, <3>2, <3>3, o \in Vt!Object
  <2> QED
    BY <1>3, <2>4, BalanceKept
<1>5. VtTypes'
  <2>1. /\ cached' \in [Vt!Session -> Vt!Object \cup {0}]
        /\ box' = [s \in Vt!Session |-> box'[s]]
    BY <1>1, <1>2 DEF VtTypes
  <2>2. current' \in 0 .. made /\ fresh' \in 0 .. made
    BY <1>2 DEF VtTypes
  <2> QED
    BY <1>2, <1>3, <2>1, <2>2 DEF VtTypes
<1>6. /\ \A s \in Vt!Session : s # current => box'[s] = box[s]
      /\ fresh # 0 => fresh \in Vt!Session
  <2>1. box = [s \in Vt!Session |-> box[s]]
    BY DEF VtTypes
  <2>2. fresh # 0 => fresh \in Vt!Session
    BY VtConstants DEF VtTypes
  <2> QED
    BY <1>2, <2>1, <2>2
<1>7. InLife'
  BY <1>1, <1>2, <1>6 DEF InLife
<1> QED
  BY <1>4, <1>5, <1>7 DEF VtInv

\* VideoToolbox lets go of a frame.
LEMMA CallbackEndsStep ==
  ASSUME VtInv, NEW s \in Vt!Session, Vt!CallbackEnds(s)
  PROVE  VtInv'
<1> VtTypes /\ InLife /\ Vt!Balanced
  BY DEF VtInv
<1>1. /\ coding[s] # <<>> /\ coding[s] \in Seq(Vt!Object) /\ Head(coding[s]) \in Vt!Object
      /\ Len(coding[s]) <= MaxCoding
  BY DEF VtTypes, InLife, Vt!CallbackEnds
<1>2. /\ UNCHANGED <<made, given, current, fresh, dropping, owner, box, cached>>
      /\ coding' = [coding EXCEPT ![s] = Tail(@)]
      /\ callback' = [callback EXCEPT ![s] = "none"]
      /\ refs' = Vt!Release(refs, Head(coding[s]))
  BY DEF Vt!CallbackEnds, Vt!owning
<1>3. /\ refs' \in [Vt!Object -> Int]
      /\ \A o \in Vt!Object : refs'[o] = refs[o] - Is(Head(coding[s]), o)
  BY <1>1, <1>2, Counted DEF VtTypes
<1>4. Vt!Balanced'
  <2>1. \A o \in Vt!Object : refs[o] \in Int /\ Is(Head(coding[s]), o) \in Nat
    BY DEF VtTypes, Is
  <2>2. \A o \in Vt!Object : Cardinality(Holding(coding', o))
          = Cardinality(Holding(coding, o)) - Is(Head(coding[s]), o)
    BY <1>1, <1>2, HoldingTail DEF VtTypes, Coded
  <2>3. \A o \in Vt!Object :
          Cardinality(KeptBy(cached, o)) \in Nat /\ Cardinality(Holding(coding, o)) \in Nat
    BY HoldersFinite
  <2>4. \A o \in Vt!Object : refs'[o] - refs[o] =
          (Cardinality(KeptBy(cached', o)) - Cardinality(KeptBy(cached, o)))
            + (Cardinality(Holding(coding', o)) - Cardinality(Holding(coding, o)))
    <3> TAKE o \in Vt!Object
    <3>1. refs'[o] = refs[o] - Is(Head(coding[s]), o)
      BY <1>3
    <3>2. Cardinality(Holding(coding', o)) = Cardinality(Holding(coding, o)) - Is(Head(coding[s]), o)
      BY <2>2
    <3>3. KeptBy(cached', o) = KeptBy(cached, o)
      BY <1>2
    <3> QED
      BY ONLY <2>1, <2>3, <3>1, <3>2, <3>3, o \in Vt!Object
  <2> QED
    BY <1>3, <2>4, BalanceKept
<1>5. /\ coding' \in [Vt!Session -> Seq(Vt!Object)]
      /\ \A r \in Vt!Session : Len(coding'[r]) <= Len(coding[r]) /\ Len(coding'[r]) \in Nat
      /\ \A r \in Vt!Session : coding'[r] # <<>> => coding[r] # <<>>
      /\ \A r \in Vt!Session : r # s => coding'[r] = coding[r]
  BY <1>1, <1>2 DEF VtTypes
<1>6. VtTypes'
  <2>1. callback' = [r \in Vt!Session |-> callback'[r]]
    BY <1>2 DEF VtTypes
  <2>2. \A r \in Vt!Session : Len(coding'[r]) <= MaxCoding
    BY <1>1, <1>5, VtConstants DEF VtTypes
  <2> QED
    BY <1>2, <1>3, <1>5, <2>1, <2>2 DEF VtTypes
<1>7. InLife'
  <2>1. \A r \in Vt!Session : callback'[r] # "none" => coding'[r] # <<>>
    BY <1>2, <1>5 DEF VtTypes, InLife
  <2>2. owner' \in {"invalidating", "freeing"} => coding'[dropping'] = <<>>
    <3> SUFFICES ASSUME owner \in {"invalidating", "freeing"} PROVE coding'[dropping] = <<>>
      BY <1>2
    <3>1. dropping \in Vt!Session /\ coding[dropping] = <<>>
      BY VtConstants DEF InLife, VtTypes
    <3> QED
      BY <1>1, <1>5, <3>1
  <2> QED
    BY <1>2, <1>5, <2>1, <2>2 DEF InLife
<1> QED
  BY <1>4, <1>6, <1>7 DEF VtInv

\* A frame is given: at most one more is held, and another description kept.
LEMMA GivenStep ==
  ASSUME VtInv, NEW d \in Vt!Object \cup {0}, NEW k \in Vt!Object \cup {0}, NEW taken \in BOOLEAN,
         Vt!Give, taken => d # 0,
         coding' = IF taken THEN [coding EXCEPT ![current] = Append(@, d)] ELSE coding,
         cached' = [cached EXCEPT ![current] = k],
         refs' \in [Vt!Object -> Int],
         \A o \in Vt!Object : refs'[o] = refs[o] - Is(cached[current], o) + Is(k, o)
           + IF taken THEN Is(d, o) ELSE 0
  PROVE  VtInv'
<1> VtTypes /\ InLife /\ Vt!Balanced
  BY DEF VtInv
<1>1. /\ current \in Vt!Session /\ current # 0 /\ owner = "idle"
      /\ Len(coding[current]) < MaxCoding /\ given' \in 0 .. VtMaxFrames
      /\ UNCHANGED <<made, current, fresh, dropping, owner, box, callback>>
  <2>1. /\ owner = "idle" /\ current # 0 /\ given < VtMaxFrames /\ given' = given + 1
        /\ Len(coding[current]) < MaxCoding
        /\ UNCHANGED <<made, current, fresh, dropping, owner, box, callback>>
    BY VtConstants DEF Vt!Give, Vt!owning
  <2>2. current \in Vt!Session /\ given' \in 0 .. VtMaxFrames
    BY <2>1, VtConstants DEF VtTypes
  <2> QED
    BY <2>1, <2>2
<1>2. /\ coding' \in [Vt!Session -> Seq(Vt!Object)]
      /\ \A r \in Vt!Session : Len(coding'[r]) <= MaxCoding
      /\ \A r \in Vt!Session : r # current => coding'[r] = coding[r]
      /\ \A r \in Vt!Session : coding[r] # <<>> => coding'[r] # <<>>
  <2>1. CASE ~taken
    BY <2>1 DEF VtTypes
  <2>2. CASE taken
    <3>1. d \in Vt!Object /\ coding' = [coding EXCEPT ![current] = Append(coding[current], d)]
      BY <2>2
    <3>2. /\ Append(coding[current], d) \in Seq(Vt!Object) /\ Append(coding[current], d) # <<>>
          /\ Len(Append(coding[current], d)) <= MaxCoding
      BY <1>1, <3>1, VtConstants DEF VtTypes
    <3> QED
      BY <1>1, <3>1, <3>2 DEF VtTypes
  <2> QED
    BY <2>1, <2>2
<1>3. Vt!Balanced'
  <2> SUFFICES ASSUME NEW o \in Vt!Object
               PROVE  refs'[o] - refs[o] =
                        (Cardinality(KeptBy(cached', o)) - Cardinality(KeptBy(cached, o)))
                          + (Cardinality(Holding(coding', o)) - Cardinality(Holding(coding, o)))
    BY BalanceKept
  <2>1. refs[o] \in Int /\ Is(d, o) \in Nat /\ Is(k, o) \in Nat /\ Is(cached[current], o) \in Nat
    BY DEF VtTypes, Is
  <2>2. /\ Cardinality(KeptBy(cached, o)) \in Nat /\ Cardinality(Holding(coding, o)) \in Nat
    BY HoldersFinite
  <2>3. Cardinality(KeptBy(cached', o)) = Cardinality(KeptBy(cached, o)) - Is(cached[current], o) + Is(k, o)
    <3>1. cached'[current] = k /\ \A r \in Vt!Session : r # current => cached'[r] = cached[r]
      BY <1>1 DEF VtTypes
    <3>a. current \in Vt!Session
      BY <1>1
    <3>2. Cardinality(KeptBy(cached', o))
            = Cardinality(KeptBy(cached, o)) - Is(cached[current], o) + Is(cached'[current], o)
      BY ONLY <3>a, <3>1, KeptChanges
    <3> QED
      BY ONLY <3>1, <3>2
  <2>4. Cardinality(Holding(coding', o)) = Cardinality(Holding(coding, o)) + IF taken THEN Is(d, o) ELSE 0
    <3>1. CASE taken
      <4>1. coding \in Coded /\ d \in Vt!Object /\ coding' = [coding EXCEPT ![current] = Append(@, d)]
        BY <3>1 DEF VtTypes, Coded
      <4> QED
        BY ONLY <1>1, <3>1, <4>1, HoldingAppends
    <3>2. CASE ~taken
      BY <2>2, <3>2
    <3> QED
      BY <3>1, <3>2
  <2>5. refs'[o] = refs[o] - Is(cached[current], o) + Is(k, o) + IF taken THEN Is(d, o) ELSE 0
    OBVIOUS
  <2> QED
    BY ONLY <2>1, <2>2, <2>3, <2>4, <2>5
<1>4. cached' \in [Vt!Session -> Vt!Object \cup {0}]
  BY DEF VtTypes
<1>5. VtTypes'
  BY <1>1, <1>2, <1>4 DEF VtTypes
<1>6. InLife'
  <2>1. \A r \in Vt!Session : coding'[r] # <<>> => box[r] = "live" /\ r <= made
    BY <1>1, <1>2 DEF InLife, VtTypes
  <2> QED
    BY <1>1, <1>2, <2>1 DEF InLife
<1> QED
  BY <1>3, <1>5, <1>6 DEF VtInv

LEMMA FrameSteps ==
  ASSUME VtInv, Vt!EncodeSurface \/ Vt!DecodeKeyframe \/ Vt!DecodeFrame
  PROVE  VtInv'
<1> VtTypes
  BY DEF VtInv
<1> DEFINE Refs == [Vt!Object -> Int]
           n == given + 1
           c == cached[current]
           Adds(x, r, d) == x \in Refs /\ \A o \in Vt!Object : x[o] = r[o] + Is(d, o)
           Subtracts(x, r, d) == x \in Refs /\ \A o \in Vt!Object : x[o] = r[o] - Is(d, o)
<1>1. Vt!Give /\ current \in Vt!Session
  BY VtConstants DEF VtTypes, Vt!Give, Vt!EncodeSurface, Vt!DecodeKeyframe, Vt!DecodeFrame
<1>2. n \in Vt!Object /\ n # 0
  BY <1>1, VtConstants DEF VtTypes, Vt!Give
<1>3. /\ c \in Vt!Object \cup {0} /\ refs \in Refs
      /\ cached = [cached EXCEPT ![current] = c]
  BY <1>1 DEF VtTypes
<1>4. \A o \in Vt!Object : Is(n, o) \in Nat /\ Is(c, o) \in Nat /\ refs[o] \in Int
  BY <1>3 DEF Is
<1>5. \A r \in Refs, d \in Vt!Object \cup {0} :
        Adds(Vt!Retain(r, d), r, d) /\ Subtracts(Vt!Release(r, d), r, d)
  BY Counted
<1>6. CASE Vt!EncodeSurface
  <2>1. PICK taken \in BOOLEAN :
          /\ refs' = IF taken THEN Vt!Release(Vt!Retain(Vt!Retain(refs, n), n), n)
                              ELSE Vt!Release(Vt!Retain(refs, n), n)
          /\ coding' = IF taken THEN [coding EXCEPT ![current] = Append(@, n)] ELSE coding
    BY <1>6 DEF Vt!EncodeSurface
  <2>2. cached' = [cached EXCEPT ![current] = c]
    BY <1>3, <1>6 DEF Vt!EncodeSurface
  <2> HIDE DEF n, c, Refs, Adds, Subtracts
  <2>3. PICK x \in Refs : x = Vt!Retain(refs, n) /\ Adds(x, refs, n)
    BY <1>2, <1>3, <1>5 DEF Adds
  <2>4. PICK y \in Refs : y = Vt!Retain(x, n) /\ Adds(y, x, n)
    BY <1>2, <1>5, <2>3 DEF Adds
  <2>5. refs' \in Refs /\ Subtracts(refs', IF taken THEN y ELSE x, n)
    BY <1>2, <1>5, <2>1, <2>3, <2>4 DEF Subtracts
  <2>6. \A o \in Vt!Object : refs'[o] = refs[o] - Is(c, o) + Is(c, o) + IF taken THEN Is(n, o) ELSE 0
    BY <1>4, <2>3, <2>4, <2>5 DEF Adds, Subtracts
  <2> QED
    BY <1>1, <1>2, <1>3, <2>1, <2>2, <2>5, <2>6, GivenStep DEF Refs, c
<1>7. CASE Vt!DecodeKeyframe
  <2>1. PICK taken \in BOOLEAN :
          /\ refs' = IF taken THEN Vt!Release(Vt!Retain(Vt!Described(Vt!Retain(refs, n), n), n), n)
                              ELSE Vt!Release(Vt!Described(Vt!Retain(refs, n), n), n)
          /\ coding' = IF taken THEN [coding EXCEPT ![current] = Append(@, n)] ELSE coding
    BY <1>7 DEF Vt!DecodeKeyframe
  <2>2. cached' = [cached EXCEPT ![current] = n]
    BY <1>7 DEF Vt!DecodeKeyframe
  <2>a. \A r : Vt!Described(r, n) = Vt!Retain(Vt!Release(r, c), n)
    BY DEF Vt!Described
  <2> HIDE DEF n, c, Refs, Adds, Subtracts
  <2>3. PICK x \in Refs : x = Vt!Retain(refs, n) /\ Adds(x, refs, n)
    BY <1>2, <1>3, <1>5 DEF Adds
  <2>4. PICK y \in Refs : y = Vt!Release(x, c) /\ Subtracts(y, x, c)
    BY <1>3, <1>5, <2>3 DEF Subtracts
  <2>5. PICK z \in Refs : z = Vt!Described(x, n) /\ Adds(z, y, n)
    BY <1>2, <1>5, <2>a, <2>4 DEF Adds
  <2>6. PICK w \in Refs : w = Vt!Retain(z, n) /\ Adds(w, z, n)
    BY <1>2, <1>5, <2>5 DEF Adds
  <2>7. refs' \in Refs /\ Subtracts(refs', IF taken THEN w ELSE z, n)
    BY <1>2, <1>5, <2>1, <2>3, <2>5, <2>6 DEF Subtracts
  <2>8. \A o \in Vt!Object : refs'[o] = refs[o] - Is(c, o) + Is(n, o) + IF taken THEN Is(n, o) ELSE 0
    BY <1>4, <2>3, <2>4, <2>5, <2>6, <2>7 DEF Adds, Subtracts
  <2> QED
    BY <1>1, <1>2, <2>1, <2>2, <2>7, <2>8, GivenStep DEF Refs, c
<1>8. CASE Vt!DecodeFrame
  <2>1. PICK taken \in BOOLEAN :
          /\ taken => c # 0
          /\ refs' = IF taken THEN Vt!Release(Vt!Retain(Vt!Retain(refs, c), c), c)
                              ELSE Vt!Release(Vt!Retain(refs, c), c)
          /\ coding' = IF taken THEN [coding EXCEPT ![current] = Append(@, c)] ELSE coding
    BY <1>8, VtConstants DEF Vt!DecodeFrame
  <2>2. cached' = [cached EXCEPT ![current] = c]
    BY <1>3, <1>8 DEF Vt!DecodeFrame
  <2> HIDE DEF n, c, Refs, Adds, Subtracts
  <2>3. PICK x \in Refs : x = Vt!Retain(refs, c) /\ Adds(x, refs, c)
    BY <1>3, <1>5 DEF Adds
  <2>4. PICK y \in Refs : y = Vt!Retain(x, c) /\ Adds(y, x, c)
    BY <1>3, <1>5, <2>3 DEF Adds
  <2>5. refs' \in Refs /\ Subtracts(refs', IF taken THEN y ELSE x, c)
    BY <1>3, <1>5, <2>1, <2>3, <2>4 DEF Subtracts
  <2>6. \A o \in Vt!Object : refs'[o] = refs[o] - Is(c, o) + Is(c, o) + IF taken THEN Is(c, o) ELSE 0
    BY <1>4, <2>3, <2>4, <2>5 DEF Adds, Subtracts
  <2> QED
    BY <1>1, <1>3, <2>1, <2>2, <2>5, <2>6, GivenStep DEF Refs, c
<1> QED
  BY <1>6, <1>7, <1>8

LEMMA VtStep ==
  ASSUME VtInv, Vt!Next
  PROVE  VtInv'
<1>1. CASE \/ Vt!CreateEncoder \/ Vt!CreateDecoder \/ Vt!CreateFails \/ Vt!Reset \/ Vt!Discard
           \/ Vt!Completed \/ Vt!Invalidate
  BY <1>1, SessionSteps
<1>2. CASE \/ \E s \in Vt!Session : Vt!CallbackBegins(s) \/ Vt!CallbackLocks(s)
           \/ Vt!QueueLocked \/ Vt!QueueUnlocked
  BY <1>2, LockSteps
<1>3. CASE \E s \in Vt!Session : Vt!CallbackEnds(s)
  BY <1>3, CallbackEndsStep
<1>4. CASE Vt!EncodeSurface \/ Vt!DecodeKeyframe \/ Vt!DecodeFrame
  BY <1>4, FrameSteps
<1>5. CASE Vt!Freed
  BY <1>5, FreedStep
<1> QED
  BY <1>1, <1>2, <1>3, <1>4, <1>5 DEF Vt!Next

LEMMA VtStutter ==
  ASSUME VtInv, UNCHANGED vt
  PROVE  VtInv'
<1>1. VtTypes' /\ InLife'
  BY DEF VtInv, VtTypes, InLife, vt
<1>2. Vt!Balanced'
  BY NothingCounted DEF VtInv, vt
<1> QED
  BY <1>1, <1>2 DEF VtInv

LEMMA VtSessionsSafe == VtInv => Vt!SessionsSafe
  BY DEF VtInv, InLife, Vt!SessionsSafe, Vt!CallbackInLife


-----------------------------------------------------------------------------
(* The whole: a behaviour of it is one of each part, which moves or not.   *)

LEMMA PartsStep ==
  ASSUME [Next]_vars
  PROVE  /\ [Pipeline!Next]_pipeline
         /\ [D3D12!Next]_d3d12
         /\ [Vt!Next]_vt
  BY DEF Next, vars

PartsInv == PipeInv /\ D3D12Inv /\ VtInv

LEMMA PartsKept == Spec => []PartsInv
<1>1. ASSUME Init PROVE PartsInv
  BY <1>1, PipeInit, D3D12Init, VtInit DEF Init, PartsInv
<1>2. ASSUME PartsInv, [Next]_vars PROVE PartsInv'
  <2>1. PipeInv'
    BY <1>2, PartsStep, PipeStep, PipeStutter DEF PartsInv
  <2>2. D3D12Inv'
    BY <1>2, PartsStep, D3D12Step, D3D12Stutter DEF PartsInv
  <2>3. VtInv'
    BY <1>2, PartsStep, VtStep, VtStutter DEF PartsInv
  <2> QED
    BY <2>1, <2>2, <2>3 DEF PartsInv
<1> QED
  BY <1>1, <1>2, PTL DEF Spec

\* A surface of the decoder's pool is not decoded into while a frame that waits, or
\* is shown, refers to it, and there is always one to decode into: for any sizes of
\* the queues, as long as there are more surfaces than the queue, the window and
\* the decoder can hold.
THEOREM SurfacesKeepPictures == Spec => []PicturesIntact
<1>1. PartsInv => PicturesIntact
  BY PipePicturesIntact DEF PartsInv, PicturesIntact
<1> QED
  BY <1>1, PartsKept, PTL

\* The decoders, the frame queue and the window implement LiveView: the window takes
\* up frames of the session in progress only, each newer than the one in view,
\* however many are dropped on the way.
THEOREM ViewIsLive == Spec => ShowsLive
<1>1. Init => Pipeline!Live!Init
  BY PipeLiveInit DEF Init
<1>2. PartsInv /\ PartsInv' /\ [Next]_vars => [Pipeline!Live!Next]_(Pipeline!Live!vars)
  BY PartsStep, PipeLiveStep, PipeLiveStutter DEF PartsInv
<1> QED
  BY <1>1, <1>2, PartsKept, PTL DEF Spec, ShowsLive, Pipeline!ShowsLive, Pipeline!Live!Spec

\* Each packet's own picture comes back from the D3D12 decoder, whatever order its two
\* queues run in, unless a call ended early; and VideoToolbox calls into no session
\* that is gone, nor are its objects' reference counts ever off: for any number of
\* calls, sessions and frames.
THEOREM PlatformFramesTrue == Spec => []FramesTrue
<1>1. PartsInv => FramesTrue
  BY D3D12FramesTrue, VtSessionsSafe DEF PartsInv, FramesTrue
<1> QED
  BY <1>1, PartsKept, PTL

-----------------------------------------------------------------------------
(* ViewerFeedback: the types of its variables.                             *)

\* What the signals that find room add to the channel.
LEMMA SignalsFit ==
  ASSUME channel \in Seq(Feedback!Signal), Len(channel) <= Channel,
         NEW signals \in Seq(Feedback!Signal), Feedback!Signalled(signals)
  PROVE  channel' \in Seq(Feedback!Signal) /\ Len(channel') <= Channel
<1> DEFINE room == Channel - Len(channel)
           k == IF room < Len(signals) THEN room ELSE Len(signals)
<1>1. Channel \in Nat /\ Len(channel) \in Nat /\ Len(signals) \in Nat
  BY PartsAssumption DEF Feedback!Assumption
<1>2. k \in 0 .. Len(signals) /\ Len(channel) + k <= Channel
  BY <1>1
<1>3. channel' = channel \o SubSeq(signals, 1, k)
  BY DEF Feedback!Signalled
<1> HIDE DEF k
<1>4. SubSeq(signals, 1, k) \in Seq(Feedback!Signal) /\ Len(SubSeq(signals, 1, k)) = k
  BY ONLY <1>1, <1>2, signals \in Seq(Feedback!Signal)
<1> QED
  BY ONLY <1>1, <1>2, <1>3, <1>4, channel \in Seq(Feedback!Signal)

LEMMA SignalTypes ==
  /\ Feedback!Lost \in Feedback!Signal /\ Feedback!KeyframeNeeded \in Feedback!Signal
  /\ \A id \in 1 .. FeedbackMaxFrames : Feedback!Decoded(id) \in Feedback!Signal
  BY DEF Feedback!Lost, Feedback!KeyframeNeeded, Feedback!Decoded, Feedback!Signal, Feedback!FrameId

LEMMA FlagsKept ==
  ASSUME {awaiting, held, debounced} \subseteq BOOLEAN, Feedback!Next
  PROVE  {awaiting', held', debounced'} \subseteq BOOLEAN
<1>1. CASE Feedback!DecodeFrame \/ Feedback!GiveUp \/ Feedback!SkipFrame
  <2>1. debounced' = debounced
    BY <1>1 DEF Feedback!DecodeFrame, Feedback!GiveUp, Feedback!SkipFrame
  <2>2. awaiting' \in {TRUE, FALSE} /\ held' = FALSE
    BY <1>1 DEF Feedback!DecodeFrame, Feedback!GiveUp, Feedback!SkipFrame, Feedback!RequireKeyframe
  <2> QED
    BY ONLY {awaiting, held, debounced} \subseteq BOOLEAN, <2>1, <2>2
<1>2. CASE Feedback!Hold \/ Feedback!SkipToKeyframe \/ Feedback!AskAgain \/ Feedback!RetryDue
           \/ Feedback!Report \/ Feedback!Answer
  <2>1. debounced' = debounced /\ awaiting' = awaiting /\ held' \in {TRUE, held}
    BY <1>2 DEF Feedback!Hold, Feedback!SkipToKeyframe, Feedback!AskAgain, Feedback!RetryDue,
      Feedback!Report, Feedback!Answer, Feedback!window
  <2> QED
    BY ONLY {awaiting, held, debounced} \subseteq BOOLEAN, <2>1
<1>3. CASE Feedback!Record \/ Feedback!DebounceOver
  <2>1. debounced' \in {TRUE, FALSE, debounced} /\ awaiting' = awaiting /\ held' = held
    BY <1>3 DEF Feedback!Record, Feedback!DebounceOver, Feedback!window
  <2> QED
    BY ONLY {awaiting, held, debounced} \subseteq BOOLEAN, <2>1
<1> QED
  BY <1>1, <1>2, <1>3 DEF Feedback!Next, Feedback!Pass

FeedbackRest ==
  /\ frame \in 0 .. FeedbackMaxFrames
  /\ asked \in {"never", "recently", "due"}
  /\ channel \in Seq(Feedback!Signal) /\ Len(channel) <= Channel
  /\ request \in {"none", "asked", "coming"}
  /\ last \in 0 .. FeedbackMaxFrames /\ lost \in Nat

LEMMA FeedbackRestKept ==
  ASSUME FeedbackRest, Feedback!Next
  PROVE  FeedbackRest'
<1> USE DEF FeedbackRest, Feedback!exporter, Feedback!window
<1>1. FeedbackMaxFrames \in Nat \ {0} /\ frame \in Nat /\ last \in Nat
  BY PartsAssumption DEF Feedback!Assumption
<1>2. CASE Feedback!DecodeFrame
  <2>1. <<Feedback!Decoded(frame + 1)>> \in Seq(Feedback!Signal)
    BY <1>1, <1>2, SignalTypes DEF Feedback!DecodeFrame
  <2>2. channel' \in Seq(Feedback!Signal) /\ Len(channel') <= Channel
    BY <1>2, <2>1, SignalsFit DEF Feedback!DecodeFrame
  <2> QED
    BY <1>1, <1>2, <2>2 DEF Feedback!DecodeFrame
<1>3. CASE Feedback!GiveUp
  <2>1. <<Feedback!Lost>> \in Seq(Feedback!Signal)
        /\ <<Feedback!Lost, Feedback!KeyframeNeeded>> \in Seq(Feedback!Signal)
    BY SignalTypes
  <2>2. channel' \in Seq(Feedback!Signal) /\ Len(channel') <= Channel
    BY <1>3, <2>1, SignalsFit DEF Feedback!GiveUp
  <2> QED
    BY <1>1, <1>3, <2>2 DEF Feedback!GiveUp
<1>4. CASE Feedback!SkipFrame \/ Feedback!AskAgain
  <2>1. <<Feedback!KeyframeNeeded>> \in Seq(Feedback!Signal)
    BY SignalTypes
  <2>2. channel' \in Seq(Feedback!Signal) /\ Len(channel') <= Channel
    BY <1>4, <2>1, SignalsFit DEF Feedback!SkipFrame, Feedback!AskAgain
  <2> QED
    BY <1>1, <1>4, <2>2 DEF Feedback!SkipFrame, Feedback!AskAgain, Feedback!RequireKeyframe
<1>5. CASE Feedback!SkipToKeyframe
  <2>1. <<Feedback!Decoded(frame + 2)>> \in Seq(Feedback!Signal)
    BY <1>1, <1>5, SignalTypes DEF Feedback!SkipToKeyframe
  <2>2. channel' \in Seq(Feedback!Signal) /\ Len(channel') <= Channel
    BY <1>5, <2>1, SignalsFit DEF Feedback!SkipToKeyframe
  <2> QED
    BY <1>1, <1>5, <2>2 DEF Feedback!SkipToKeyframe
<1>6. CASE Feedback!Record
  <2>1. Head(channel) \in Feedback!Signal /\ channel' \in Seq(Feedback!Signal) /\ Len(channel') <= Channel
    <3>1. channel # <<>> /\ channel' = Tail(channel) /\ channel \in Seq(Feedback!Signal) /\ Len(channel) <= Channel
      BY <1>6 DEF Feedback!Record
    <3>2. Channel \in Nat
      BY PartsAssumption DEF Feedback!Assumption
    <3> QED
      BY ONLY <3>1, <3>2
  <2>2. Head(channel).id \in 0 .. FeedbackMaxFrames
    BY <1>1, <2>1 DEF Feedback!Signal, Feedback!FrameId
  <2>3. last' \in 0 .. FeedbackMaxFrames /\ lost' \in Nat
    BY <1>1, <1>6, <2>2 DEF Feedback!Record, Feedback!RecordFrame
  <2> QED
    BY <1>6, <2>1, <2>3 DEF Feedback!Record
<1>7. CASE Feedback!Hold \/ Feedback!RetryDue \/ Feedback!DebounceOver \/ Feedback!Report \/ Feedback!Answer
  BY <1>1, <1>7 DEF Feedback!Hold, Feedback!RetryDue, Feedback!DebounceOver, Feedback!Report, Feedback!Answer
<1> QED
  BY <1>2, <1>3, <1>4, <1>5, <1>6, <1>7 DEF Feedback!Next, Feedback!Pass

LEMMA FeedbackTypes ==
  ASSUME Feedback!TypeOK, [Feedback!Next]_feedback
  PROVE  Feedback!TypeOK'
<1>1. CASE Feedback!Next
  <2>1. {awaiting, held, debounced} \subseteq BOOLEAN /\ FeedbackRest
    BY DEF Feedback!TypeOK, FeedbackRest
  <2>2. {awaiting', held', debounced'} \subseteq BOOLEAN /\ FeedbackRest'
    BY <1>1, <2>1, FlagsKept, FeedbackRestKept
  <2> QED
    BY <2>2 DEF Feedback!TypeOK, FeedbackRest
<1>2. CASE UNCHANGED feedback
  BY <1>2 DEF feedback, Feedback!TypeOK
<1> QED
  BY <1>1, <1>2

LEMMA FeedbackStarts == Feedback!Init => Feedback!TypeOK
<1> SUFFICES ASSUME Feedback!Init PROVE Feedback!TypeOK
  OBVIOUS
<1>1. {awaiting, held, debounced} \subseteq BOOLEAN
  <2>1. awaiting = TRUE /\ held = FALSE /\ debounced = FALSE
    BY DEF Feedback!Init
  <2> QED
    BY ONLY <2>1
<1>2. FeedbackRest
  BY PartsAssumption DEF Feedback!Init, Feedback!Assumption, FeedbackRest
<1> QED
  BY <1>1, <1>2 DEF Feedback!TypeOK, FeedbackRest

-----------------------------------------------------------------------------
(* Reconnect: the types of its variables.                                  *)

FinderTypes ==
  /\ where \in [Hosts -> Finder!Address \cup {Finder!None}]
  /\ table \in [Hosts -> Finder!Address \cup {Finder!None}]
  /\ moves \in 0 .. MaxMoves /\ failures \in 0 .. MaxFailures
  /\ events \in Seq(Finder!Record)
  /\ tray \in Finder!Address \cup {Finder!None} /\ target \in Finder!Address \cup {Finder!None}
  /\ noted \in 0 .. Cardinality(Hosts)
  /\ reconnectAt \in {"sleeping", "connecting", "negotiating", "streaming", "waiting"}
  /\ backoff \in 0 .. MaxBackoff
  /\ reconnectShown \in {"Disconnected", "Handshaking", "Connected", "Reconnecting"}

LEMMA FinderConstants ==
  /\ MaxMoves \in Nat /\ MaxFailures \in Nat /\ MaxBackoff \in Nat
  /\ IsFiniteSet(Hosts) /\ Cardinality(Hosts) \in Nat
  /\ \A S : Finder!Cardinality(S) = Cardinality(S)
<1>1. IsFiniteSet(Hosts) /\ {MaxMoves, MaxFailures, MaxBackoff} \subseteq Nat
      /\ \A S : Finder!Cardinality(S) = Cardinality(S)
  BY PartsAssumption
     DEF Finder!Assumption, Finder!IsFiniteSet, IsFiniteSet, Finder!Cardinality, Cardinality
<1> QED
  BY <1>1, FS_CardinalityType

LEMMA LinkedKept ==
  ASSUME linked \in BOOLEAN, Finder!Next
  PROVE  linked' \in BOOLEAN
<1>1. ASSUME NEW h \in Hosts, Finder!HostGoes(h) PROVE linked' \in BOOLEAN
  <2>1. linked' = (linked /\ target # where[h])
    BY <1>1 DEF Finder!HostGoes
  <2> QED
    BY ONLY <2>1, linked \in BOOLEAN
<1>2. ASSUME NEW h \in Hosts, NEW a \in Finder!Address, Finder!HostComes(h, a) PROVE linked' = linked
  BY <1>2 DEF Finder!HostComes, Finder!task
<1>3. CASE Finder!ApplyEvent \/ Finder!Watch
  <2>1. linked' = linked
    BY <1>3 DEF Finder!ApplyEvent, Finder!Watch, Finder!task
  <2> QED
    BY ONLY <2>1, linked \in BOOLEAN
<1>4. CASE Finder!Connecting
  <2>1. linked' = linked \/ linked' = TRUE \/ linked' = FALSE
    BY <1>4 DEF Finder!Connecting, Finder!NoHost, Finder!PickHost, Finder!Connected,
      Finder!ConnectFails, Finder!Negotiated, Finder!NegotiationFails, Finder!StreamEnds,
      Finder!BackedOff
  <2> QED
    BY ONLY <2>1, linked \in BOOLEAN
<1> QED
  BY <1>1, <1>2, <1>3, <1>4, linked \in BOOLEAN DEF Finder!Next

LEMMA FinderTypesKept ==
  ASSUME FinderTypes, Finder!Next
  PROVE  FinderTypes'
<1> USE FinderConstants DEF FinderTypes
<1>1. ASSUME NEW h \in Hosts, NEW a \in Finder!Address, Finder!HostComes(h, a) PROVE FinderTypes'
  <2>1. [host |-> h, addr |-> a] \in Finder!Record
    BY DEF Finder!Record
  <2>2. events' \in Seq(Finder!Record)
    BY <1>1, <2>1 DEF Finder!HostComes
  <2> QED
    BY <1>1, <2>2 DEF Finder!HostComes, Finder!watch, Finder!task
<1>2. ASSUME NEW h \in Hosts, Finder!HostGoes(h) PROVE FinderTypes'
  <2>1. [host |-> h, addr |-> Finder!None] \in Finder!Record
    BY DEF Finder!Record
  <2>2. events' \in Seq(Finder!Record)
    BY <1>2, <2>1 DEF Finder!HostGoes
  <2>3. where' \in [Hosts -> Finder!Address \cup {Finder!None}] /\ moves' \in 0 .. MaxMoves
    BY <1>2 DEF Finder!HostGoes
  <2> QED
    BY <1>2, <2>2, <2>3 DEF Finder!HostGoes, Finder!watch
<1>3. CASE Finder!ApplyEvent
  <2>1. Head(events) \in Finder!Record /\ events' \in Seq(Finder!Record)
    BY <1>3 DEF Finder!ApplyEvent
  <2>2. Head(events).addr \in Finder!Address \cup {Finder!None}
    BY <2>1 DEF Finder!Record
  <2>3. \A old \in Finder!Address \cup {Finder!None} :
          Finder!Better(old, Head(events).addr) \in Finder!Address \cup {Finder!None}
    BY <2>2 DEF Finder!Better
  <2>4. table' \in [Hosts -> Finder!Address \cup {Finder!None}]
    BY <1>3, <2>2, <2>3 DEF Finder!ApplyEvent
  <2> QED
    BY <1>3, <2>1, <2>4 DEF Finder!ApplyEvent, Finder!environment, Finder!watch, Finder!task
<1>4. \A a \in Finder!Primary : a \in Finder!Address \cup {Finder!None}
  BY DEF Finder!Primary, Finder!Usable
<1>5. CASE Finder!Watch
  <2> DEFINE listed == {h \in Hosts : table[h] # Finder!None}
  <2>1. listed \in SUBSET Hosts
    OBVIOUS
  <2>2. Cardinality(listed) \in Nat /\ Cardinality(listed) <= Cardinality(Hosts)
    BY <2>1, FS_Subset, FS_CardinalityType
  <2>3. noted' = Cardinality(listed) /\ tray' \in {tray} \cup Finder!Primary
    BY <1>5, FinderConstants DEF Finder!Watch
  <2>4. noted' \in 0 .. Cardinality(Hosts)
    BY ONLY <2>2, <2>3, FinderConstants
  <2> QED
    BY <1>4, <1>5, <2>3, <2>4 DEF Finder!Watch, Finder!environment, Finder!discovery, Finder!task
<1>6. CASE Finder!Connecting
  <2>1. Finder!Doubled \in 0 .. MaxBackoff
    BY DEF Finder!Doubled
  <2>2. UNCHANGED <<where, moves, events, table, tray, noted>>
    BY <1>6 DEF Finder!Connecting, Finder!NoHost, Finder!PickHost, Finder!Connected,
      Finder!ConnectFails, Finder!Negotiated, Finder!NegotiationFails, Finder!StreamEnds,
      Finder!BackedOff, Finder!environment, Finder!discovery, Finder!watch
  <2>3. failures' \in 0 .. MaxFailures /\ backoff' \in 0 .. MaxBackoff
    BY <1>6, <2>1 DEF Finder!Connecting, Finder!NoHost, Finder!PickHost, Finder!Connected,
      Finder!ConnectFails, Finder!Negotiated, Finder!NegotiationFails, Finder!StreamEnds,
      Finder!BackedOff, Finder!MayFail, Finder!environment
  <2>4. target' \in {target} \cup Finder!Primary
    BY <1>6 DEF Finder!Connecting, Finder!NoHost, Finder!PickHost, Finder!Connected,
      Finder!ConnectFails, Finder!Negotiated, Finder!NegotiationFails, Finder!StreamEnds,
      Finder!BackedOff
  <2>5. /\ reconnectAt' \in {"sleeping", "connecting", "negotiating", "streaming", "waiting"}
        /\ reconnectShown' \in {"Disconnected", "Handshaking", "Connected", "Reconnecting"}
    BY <1>6 DEF Finder!Connecting, Finder!NoHost, Finder!PickHost, Finder!Connected,
      Finder!ConnectFails, Finder!Negotiated, Finder!NegotiationFails, Finder!StreamEnds,
      Finder!BackedOff
  <2> QED
    BY <1>4, <2>2, <2>3, <2>4, <2>5
<1> QED
  BY <1>1, <1>2, <1>3, <1>5, <1>6 DEF Finder!Next

LEMMA FinderTypesHold ==
  /\ Finder!Init => Finder!TypeOK
  /\ Finder!TypeOK /\ [Finder!Next]_reconnect => Finder!TypeOK'
<1>1. Finder!TypeOK <=> FinderTypes /\ linked \in BOOLEAN
  BY FinderConstants DEF Finder!TypeOK, FinderTypes
<1>2. Finder!TypeOK' <=> FinderTypes' /\ linked' \in BOOLEAN
  BY FinderConstants DEF Finder!TypeOK, FinderTypes
<1>3. ASSUME Finder!Init PROVE FinderTypes /\ linked \in BOOLEAN
  <2>1. linked = FALSE
    BY <1>3 DEF Finder!Init
  <2>2. FinderTypes
    BY <1>3, FinderConstants DEF Finder!Init, FinderTypes
  <2> QED
    BY ONLY <2>1, <2>2
<1>4. ASSUME FinderTypes, UNCHANGED reconnect PROVE FinderTypes'
  BY <1>4 DEF reconnect, FinderTypes
<1>5. ASSUME linked \in BOOLEAN, UNCHANGED reconnect PROVE linked' \in BOOLEAN
  BY <1>5 DEF reconnect
<1> QED
  BY <1>1, <1>2, <1>3, <1>4, <1>5, FinderTypesKept, LinkedKept

-----------------------------------------------------------------------------
(* D3D12Decode: the types of its variables.                                *)

\* What a queue holds while n is the fence's value.
GpuOps(n) == [op : D3D12!Work \cup {"signal", "wait"}, alloc : D3D12!Allocator \cup {"none"},
              call : D3D12!Call, value : 0 .. n]

GpuTypes ==
  /\ call \in D3D12!Call
  /\ d3d12At \in {"idle", "mapped", "uploaded", "decoded", "copied", "readable"}
  /\ allocator \in [D3D12!Allocator -> Nat]
  /\ queues \in [D3D12!Queue -> Seq(GpuOps(fenceValue))]
  /\ fenceValue \in Nat /\ fence \in 0 .. fenceValue
  /\ upload \in D3D12!Call /\ bitstream \in D3D12!Call
  /\ texture \in D3D12!Call /\ readback \in D3D12!Call
  /\ frames \in SUBSET [call : D3D12!Call, picture : D3D12!Call]
  /\ errors \in 0 .. MaxErrors

LEMMA SubmittedTyped ==
  ASSUME GpuTypes, NEW q \in D3D12!Queue, NEW work \in D3D12!Work, NEW alloc \in D3D12!Allocator,
         NEW after, after \in {<<>>, <<D3D12!Wait(fenceValue)>>},
         D3D12!Submit(q, work, alloc, after),
         d3d12At' \in {"uploaded", "decoded", "copied"}
  PROVE  GpuTypes'
<1> DEFINE n == fenceValue
           S == GpuOps(n + 1)
<1>1. n \in Nat /\ n + 1 \in Nat /\ fenceValue' = n + 1
  BY DEF GpuTypes, D3D12!Submit
<1>2. queues[q] \in Seq(S) /\ \A p \in D3D12!Queue : queues[p] \in Seq(S)
  <2>1. GpuOps(n) \subseteq S
    BY <1>1 DEF GpuOps
  <2>2. \A p \in D3D12!Queue : queues[p] \in Seq(GpuOps(n))
    BY DEF GpuTypes
  <2> HIDE DEF S, n
  <2> QED
    BY <2>1, <2>2
<1>3. D3D12!List(work, alloc) \in S /\ D3D12!Signal(n + 1) \in S /\ D3D12!Wait(n) \in S
  BY <1>1 DEF GpuTypes, GpuOps, D3D12!List, D3D12!Signal, D3D12!Wait
<1> HIDE DEF S
<1>4. after \in Seq(S) /\ <<D3D12!List(work, alloc), D3D12!Signal(n + 1)>> \in Seq(S)
  <2>1. after = <<>> \/ after = <<D3D12!Wait(n)>>
    OBVIOUS
  <2>2. \A a, b \in S : <<a>> \in Seq(S) /\ <<a, b>> \in Seq(S)
    OBVIOUS
  <2>3. <<>> \in Seq(S)
    OBVIOUS
  <2> QED
    BY ONLY <1>3, <2>1, <2>2, <2>3
<1>5. queues[q] \o after \o <<D3D12!List(work, alloc), D3D12!Signal(n + 1)>> \in Seq(S)
  BY ONLY <1>2, <1>4
<1>6. queues' \in [D3D12!Queue -> Seq(S)]
  <2>1. /\ queues' = [queues EXCEPT ![q] = @ \o after \o <<D3D12!List(work, alloc), D3D12!Signal(n + 1)>>]
        /\ DOMAIN queues = D3D12!Queue
    BY DEF D3D12!Submit, GpuTypes
  <2> QED
    BY ONLY <2>1, <1>2, <1>5
<1>7. S = GpuOps(fenceValue')
  BY <1>1 DEF S
<1>8. allocator' \in [D3D12!Allocator -> Nat] /\ fence' \in 0 .. fenceValue'
  BY <1>1 DEF GpuTypes, D3D12!Submit
<1> QED
  BY <1>1, <1>6, <1>7, <1>8 DEF GpuTypes, GpuOps, D3D12!Submit, D3D12!resources

LEMMA GpuTypesKept ==
  ASSUME GpuTypes, D3D12!Next
  PROVE  GpuTypes'
<1>1. MaxCalls \in Nat \ {0} /\ MaxErrors \in Nat
  BY PartsAssumption DEF D3D12!Assumption
<1>2. CASE D3D12!SubmitUpload
  BY <1>2, SubmittedTyped DEF D3D12!SubmitUpload, D3D12!Queue, D3D12!Work, D3D12!Allocator
<1>3. CASE D3D12!SubmitDecode
  BY <1>3, SubmittedTyped DEF D3D12!SubmitDecode, D3D12!Queue, D3D12!Work, D3D12!Allocator
<1>4. CASE D3D12!SubmitCopy
  BY <1>4, SubmittedTyped DEF D3D12!SubmitCopy, D3D12!Queue, D3D12!Work, D3D12!Allocator
<1>5. CASE D3D12!Gpu
  <2>1. PICK q \in D3D12!Queue : D3D12!Run(q) \/ D3D12!Signalled(q) \/ D3D12!Waited(q)
    BY <1>5 DEF D3D12!Gpu
  <2>2. queues[q] \in Seq(GpuOps(fenceValue)) /\ queues[q] # <<>>
    BY <2>1 DEF GpuTypes, D3D12!Run, D3D12!Signalled, D3D12!Waited, D3D12!Busy
  <2>3. Head(queues[q]) \in GpuOps(fenceValue) /\ Tail(queues[q]) \in Seq(GpuOps(fenceValue))
    BY ONLY <2>2
  <2>4. fenceValue' = fenceValue
    BY <2>1 DEF D3D12!Run, D3D12!Signalled, D3D12!Waited
  <2>5. queues' \in [D3D12!Queue -> Seq(GpuOps(fenceValue))]
    <3>1. queues' = [queues EXCEPT ![q] = Tail(@)] /\ queues \in [D3D12!Queue -> Seq(GpuOps(fenceValue))]
      BY <2>1 DEF GpuTypes, D3D12!Run, D3D12!Signalled, D3D12!Waited, D3D12!Done
    <3> QED
      BY ONLY <2>3, <3>1
  <2>6. Head(queues[q]).value \in 0 .. fenceValue
    BY <2>3 DEF GpuOps
  <2>7. fence' \in 0 .. fenceValue'
    BY <2>1, <2>4, <2>6 DEF GpuTypes, D3D12!Run, D3D12!Signalled, D3D12!Waited
  <2>8. /\ bitstream' \in D3D12!Call /\ texture' \in D3D12!Call /\ readback' \in D3D12!Call
        /\ upload' \in D3D12!Call
    BY <2>1 DEF GpuTypes, D3D12!Run, D3D12!Signalled, D3D12!Waited, D3D12!resources
  <2>9. UNCHANGED <<call, d3d12At, allocator, frames, errors>>
    BY <2>1 DEF D3D12!Run, D3D12!Signalled, D3D12!Waited
  <2>10. queues' \in [D3D12!Queue -> Seq(GpuOps(fenceValue'))]
    BY ONLY <2>4, <2>5
  <2> QED
    BY <2>4, <2>7, <2>8, <2>9, <2>10 DEF GpuTypes
<1>6. CASE D3D12!Initialize \/ D3D12!MapUpload \/ D3D12!CpuWait \/ D3D12!ReadBack \/ D3D12!Fails
  <2>1. UNCHANGED <<allocator, queues, fenceValue, fence>>
    BY <1>6 DEF D3D12!Initialize, D3D12!MapUpload, D3D12!CpuWait, D3D12!ReadBack, D3D12!Fails
  <2>2. queues' \in [D3D12!Queue -> Seq(GpuOps(fenceValue'))]
    BY <2>1 DEF GpuTypes
  <2>3. call' \in D3D12!Call /\ upload' \in D3D12!Call /\ bitstream' = bitstream
        /\ texture' = texture /\ readback' = readback /\ errors' \in 0 .. MaxErrors
    BY <1>1, <1>6 DEF GpuTypes, D3D12!Initialize, D3D12!MapUpload, D3D12!CpuWait, D3D12!ReadBack,
      D3D12!Fails, D3D12!resources, D3D12!Call
  <2>4. d3d12At' \in {"idle", "mapped", "uploaded", "decoded", "copied", "readable"}
    BY <1>6 DEF GpuTypes, D3D12!Initialize, D3D12!MapUpload, D3D12!CpuWait, D3D12!ReadBack, D3D12!Fails
  <2>5. frames' \in SUBSET [call : D3D12!Call, picture : D3D12!Call]
    BY <1>6 DEF GpuTypes, D3D12!Initialize, D3D12!MapUpload, D3D12!CpuWait, D3D12!ReadBack, D3D12!Fails
  <2> QED
    BY <2>1, <2>2, <2>3, <2>4, <2>5 DEF GpuTypes
<1> QED
  BY <1>2, <1>3, <1>4, <1>5, <1>6 DEF D3D12!Next, D3D12!Decode

LEMMA HandlesKept ==
  ASSUME handles \in BOOLEAN, D3D12!Next
  PROVE  handles' \in BOOLEAN
<1>1. handles' = handles \/ handles' = TRUE \/ handles' = FALSE
  BY DEF D3D12!Next, D3D12!Decode, D3D12!Gpu, D3D12!Initialize, D3D12!MapUpload,
    D3D12!SubmitUpload, D3D12!SubmitDecode, D3D12!SubmitCopy, D3D12!Submit, D3D12!CpuWait,
    D3D12!ReadBack, D3D12!Fails, D3D12!Run, D3D12!Signalled, D3D12!Waited
<1> QED
  BY ONLY <1>1, handles \in BOOLEAN

GpuTyped == GpuTypes /\ handles \in BOOLEAN

LEMMA GpuTypesHold ==
  /\ D3D12!Init => GpuTyped
  /\ GpuTyped /\ [D3D12!Next]_d3d12 => GpuTyped'
  /\ GpuTyped /\ D3D12Inv => D3D12!TypeOK
<1>1. ASSUME D3D12!Init PROVE GpuTyped
  <2>1. handles \in BOOLEAN
    <3>1. handles = FALSE
      BY <1>1 DEF D3D12!Init
    <3> QED
      BY ONLY <3>1
  <2>2. MaxErrors \in Nat /\ 0 \in D3D12!Call
    BY PartsAssumption DEF D3D12!Assumption, D3D12!Call
  <2>3. queues \in [D3D12!Queue -> Seq(GpuOps(fenceValue))]
    BY <1>1 DEF D3D12!Init
  <2>4. GpuTypes
    BY <1>1, <2>2, <2>3 DEF D3D12!Init, GpuTypes
  <2> QED
    BY ONLY <2>1, <2>4 DEF GpuTyped
<1>2. ASSUME GpuTyped, UNCHANGED d3d12 PROVE GpuTyped'
  <2>1. GpuTypes'
    BY <1>2 DEF GpuTyped, GpuTypes, GpuOps, d3d12
  <2>2. handles' \in BOOLEAN
    BY <1>2 DEF GpuTyped, d3d12
  <2> QED
    BY ONLY <2>1, <2>2 DEF GpuTyped
<1>3. ASSUME GpuTyped, D3D12!Next PROVE GpuTyped'
  BY <1>3, GpuTypesKept, HandlesKept DEF GpuTyped
<1>4. ASSUME GpuTyped, D3D12Inv PROVE D3D12!TypeOK
  <2> DEFINE S == [op : D3D12!Work \cup {"signal", "wait"}, alloc : D3D12!Allocator \cup {"none"},
                   call : D3D12!Call, value : Nat]
  <2>1. GpuOps(fenceValue) \subseteq S
    BY <1>4 DEF GpuTyped, GpuTypes, GpuOps
  <2>2. \A q \in D3D12!Queue : queues[q] \in Seq(GpuOps(fenceValue))
    BY <1>4 DEF GpuTyped, GpuTypes
  <2> HIDE DEF S
  <2>3. \A q \in D3D12!Queue : queues[q] \in Seq(S)
    BY ONLY <2>1, <2>2
  <2>4. handles \in BOOLEAN /\ abandoned \in BOOLEAN
    BY <1>4 DEF GpuTyped, D3D12Inv, D3D12Types
  <2> QED
    BY <1>4, <2>3, <2>4 DEF GpuTyped, GpuTypes, S, D3D12!TypeOK
<1> QED
  BY <1>1, <1>2, <1>3, <1>4

-----------------------------------------------------------------------------
(* VtSessions: the types of its variables.                                 *)

\* What VtTypes leaves out: where each session is in its life.
VtPlaces ==
  /\ side \in {"encoder", "decoder"}
  /\ dropping \in 0 .. made
  /\ owner \in {"idle", "completing", "invalidating", "freeing", "reading"}
  /\ box \in [Vt!Session -> {"none", "live", "freed"}]
  /\ callback \in [Vt!Session -> {"none", "entered", "copied", "locked"}]
  /\ holder \in {"owner", "callback", Vt!Nobody}

LEMMA VtPlacesKept ==
  ASSUME VtPlaces, VtTypes, Vt!Next
  PROVE  VtPlaces'
<1> USE DEF VtPlaces
<1>1. made \in Nat /\ current \in 0 .. made /\ made + 1 \in Nat /\ made \in 0 .. made + 1
      /\ dropping \in 0 .. made + 1 /\ current \in 0 .. made + 1
  BY DEF VtTypes
<1>2. CASE Vt!CreateEncoder
  BY <1>1, <1>2 DEF Vt!CreateEncoder, Vt!Create, Vt!Drop, Vt!NoDrop, Vt!Free, Vt!videotoolbox
<1>3. CASE Vt!CreateDecoder \/ Vt!CreateFails
  BY <1>1, <1>3 DEF Vt!CreateDecoder, Vt!CreateFails, Vt!Create, Vt!NoDrop, Vt!videotoolbox
<1>4. CASE Vt!Reset \/ Vt!Discard \/ Vt!Completed \/ Vt!Invalidate
  BY <1>1, <1>4 DEF Vt!Reset, Vt!Discard, Vt!Completed, Vt!Invalidate, Vt!Drop, Vt!videotoolbox
<1>5. CASE Vt!Freed
  <2>1. owner' \in {"idle", "reading"}
    BY <1>5 DEF Vt!Freed
  <2>2. box' = [box EXCEPT ![dropping] = "freed"] /\ dropping' = 0
        /\ UNCHANGED <<side, made, callback, holder>>
    BY <1>5 DEF Vt!Freed, Vt!None, Vt!videotoolbox
  <2>3. box' \in [Vt!Session -> {"none", "live", "freed"}]
    <3>1. box \in [Vt!Session -> {"none", "live", "freed"}]
      OBVIOUS
    <3>2. \A s \in Vt!Session : box'[s] = IF s = dropping THEN "freed" ELSE box[s]
      BY ONLY <2>2, <3>1
    <3>3. box' = [s \in Vt!Session |-> box'[s]]
      BY ONLY <2>2, <3>1
    <3> QED
      BY ONLY <3>1, <3>2, <3>3
  <2>4. dropping' \in 0 .. made'
    BY ONLY <1>1, <2>2
  <2> QED
    BY <2>1, <2>2, <2>3, <2>4
<1>6. CASE Vt!EncodeSurface \/ Vt!DecodeKeyframe \/ Vt!DecodeFrame
  BY <1>1, <1>6 DEF Vt!EncodeSurface, Vt!DecodeKeyframe, Vt!DecodeFrame, Vt!Give, Vt!owning
<1>7. ASSUME NEW s \in Vt!Session, Vt!CallbackBegins(s) PROVE VtPlaces'
  <2>1. PICK place \in {"entered", "copied"} : callback' = [callback EXCEPT ![s] = place]
    BY <1>7 DEF Vt!CallbackBegins
  <2> QED
    BY <1>1, <1>7, <2>1 DEF Vt!CallbackBegins, Vt!owning
<1>8. ASSUME NEW s \in Vt!Session, Vt!CallbackLocks(s) \/ Vt!CallbackEnds(s) PROVE VtPlaces'
  BY <1>1, <1>8 DEF Vt!CallbackLocks, Vt!CallbackEnds, Vt!owning
<1>9. CASE Vt!QueueLocked \/ Vt!QueueUnlocked
  BY <1>1, <1>9 DEF Vt!QueueLocked, Vt!QueueUnlocked, Vt!videotoolbox
<1> QED
  BY <1>2, <1>3, <1>4, <1>5, <1>6, <1>7, <1>8, <1>9 DEF Vt!Next

LEMMA ClearsKept ==
  ASSUME clears \in BOOLEAN, Vt!Next
  PROVE  clears' \in BOOLEAN
<1>1. clears' = clears \/ clears' = TRUE \/ clears' = FALSE
  BY DEF Vt!Next, Vt!CreateEncoder, Vt!CreateDecoder, Vt!CreateFails, Vt!Reset, Vt!Discard,
    Vt!Completed, Vt!Invalidate, Vt!Freed, Vt!EncodeSurface, Vt!DecodeKeyframe, Vt!DecodeFrame,
    Vt!Give, Vt!CallbackBegins, Vt!CallbackLocks, Vt!CallbackEnds, Vt!QueueLocked,
    Vt!QueueUnlocked, Vt!owning
<1> QED
  BY ONLY <1>1, clears \in BOOLEAN

VtTyped == VtPlaces /\ clears \in BOOLEAN

LEMMA VtTypesHold ==
  /\ Vt!Init => VtTyped
  /\ VtTyped /\ VtInv /\ [Vt!Next]_vt => VtTyped'
  /\ VtTyped /\ VtInv => Vt!TypeOK
<1>1. ASSUME Vt!Init PROVE VtTyped
  <2>1. clears = FALSE
    BY <1>1 DEF Vt!Init
  <2>2. clears \in BOOLEAN
    BY ONLY <2>1
  <2>3. VtPlaces
    BY <1>1 DEF Vt!Init, VtPlaces, Vt!None
  <2> QED
    BY ONLY <2>2, <2>3 DEF VtTyped
<1>2. ASSUME VtTyped, UNCHANGED vt PROVE VtTyped'
  <2>1. VtPlaces'
    BY <1>2 DEF VtTyped, VtPlaces, vt
  <2>2. clears' \in BOOLEAN
    BY <1>2 DEF VtTyped, vt
  <2> QED
    BY ONLY <2>1, <2>2 DEF VtTyped
<1>3. ASSUME VtTyped, VtInv, Vt!Next PROVE VtTyped'
  BY <1>3, VtPlacesKept, ClearsKept DEF VtTyped, VtInv
<1>4. ASSUME VtTyped, VtInv PROVE Vt!TypeOK
  <2>1. VtPlaces /\ VtTypes /\ Vt!Balanced /\ clears \in BOOLEAN
    BY <1>4 DEF VtTyped, VtInv
  <2>2. {made, current, fresh, dropping} \subseteq Vt!Session \cup {Vt!None}
    BY <2>1, VtConstants DEF VtPlaces, VtTypes
  <2>3. coding \in [Vt!Session -> Seq(Vt!Object \cup {Vt!None})]
    <3>1. \A s \in Vt!Session : coding[s] \in Seq(Vt!Object)
      BY <2>1 DEF VtTypes
    <3>2. \A s \in Vt!Session : coding[s] \in Seq(Vt!Object \cup {Vt!None})
      BY ONLY <3>1
    <3> QED
      BY <2>1, <3>2 DEF VtTypes
  <2>4. refs \in [Vt!Object -> Nat]
    <3>1. \A o \in Vt!Object : refs[o] \in Nat
      <4> TAKE o \in Vt!Object
      <4>1. Vt!Uses(o) = Cardinality(KeptBy(cached, o)) + Cardinality(Holding(coding, o))
        BY Counts
      <4>2. Cardinality(KeptBy(cached, o)) \in Nat /\ Cardinality(Holding(coding, o)) \in Nat
        BY HoldersFinite
      <4>3. refs[o] = Vt!Uses(o)
        BY <2>1 DEF Vt!Balanced
      <4> QED
        BY ONLY <4>1, <4>2, <4>3
    <3> QED
      BY <2>1, <3>1 DEF VtTypes
  <2>5. cached \in [Vt!Session -> Vt!Object \cup {Vt!None}] /\ given \in 0 .. VtMaxFrames
    BY <2>1, VtConstants DEF VtTypes
  <2> QED
    BY ONLY <2>1, <2>2, <2>3, <2>4, <2>5 DEF VtPlaces, Vt!TypeOK
<1> QED
  BY <1>1, <1>2, <1>3, <1>4

-----------------------------------------------------------------------------
(* The types of the whole viewer.                                          *)

\* What the types of the parts rest on ...
EdgesInv == PixelsInv /\ TimesInv /\ PresenterInv

\* ... and the types themselves.
Typed ==
  /\ Feedback!TypeOK /\ Finder!TypeOK /\ GpuTyped /\ VtTyped /\ RecoveryTyped
  /\ ReassemblyTyped /\ BitsShape /\ PixelsTyped /\ TimesTyped /\ PresenterTyped

LEMMA EveryStep ==
  ASSUME [Next]_vars
  PROVE  /\ [Feedback!Next]_feedback /\ [Finder!Next]_reconnect /\ [D3D12!Next]_d3d12
         /\ [Vt!Next]_vt /\ [Recovery!Next]_recovery /\ [Reassembly!Next]_reassembly
         /\ [Bits!Next]_bits /\ [Pixels!Next]_pixels /\ [Times!Next]_times
         /\ [Presenter!Next]_presenter /\ machine' = machine
  BY DEF Next, vars

LEMMA EdgesKept ==
  /\ Init => EdgesInv
  /\ EdgesInv /\ [Next]_vars => EdgesInv'
<1>1. ASSUME Init PROVE EdgesInv
  BY <1>1, PixelsInit, TimesInit, PresenterInit DEF Init, EdgesInv
<1>2. ASSUME EdgesInv, [Next]_vars PROVE EdgesInv'
  <2>1. PixelsInv' /\ TimesInv'
    BY <1>2, EveryStep, PixelsStep, TimesStep DEF EdgesInv
  <2>2. PresenterInv'
    BY <1>2, EveryStep, PresenterStep, PresenterStutter DEF EdgesInv
  <2> QED
    BY ONLY <2>1, <2>2 DEF EdgesInv
<1> QED
  BY <1>1, <1>2

LEMMA TypedAtFirst == Init => Typed
<1> SUFFICES ASSUME Init PROVE Typed
  OBVIOUS
<1>1. /\ D3D12!Init /\ Feedback!Init /\ Finder!Init /\ Recovery!Init /\ Pixels!Init
      /\ Times!Init /\ Vt!Init /\ Presenter!Init
  BY DEF Init
<1>2. Feedback!TypeOK /\ Finder!TypeOK /\ GpuTyped /\ VtTyped /\ RecoveryTyped
  BY <1>1, FeedbackStarts, FinderTypesHold, GpuTypesHold, VtTypesHold, RecoveryTypesHold
<1>3. ReassemblyTyped /\ BitsShape
  BY ReassemblyTypesHold, BitsTypesHold
<1>4. PixelsTyped /\ TimesTyped /\ PresenterTyped
  BY <1>1, PixelsTypesHold, TimesTypesHold, PresenterTypesHold
<1> QED
  BY ONLY <1>2, <1>3, <1>4 DEF Typed

LEMMA TypedAfter ==
  ASSUME PartsInv, EdgesInv, Typed, [Next]_vars
  PROVE  Typed'
<1>1. VtInv
  BY DEF PartsInv
<1>2. PixelsInv /\ TimesInv /\ PresenterInv
  BY DEF EdgesInv
<1>3. Feedback!TypeOK' /\ Finder!TypeOK'
  BY EveryStep, FeedbackTypes, FinderTypesHold DEF Typed
<1>4. GpuTyped' /\ VtTyped' /\ RecoveryTyped'
  BY <1>1, EveryStep, GpuTypesHold, VtTypesHold, RecoveryTypesHold DEF Typed
<1>5. ReassemblyTyped' /\ BitsShape'
  BY EveryStep, ReassemblyTypesHold, BitsTypesHold DEF Typed
<1>6. PixelsTyped' /\ TimesTyped' /\ PresenterTyped'
  BY <1>2, EveryStep, PixelsTypesHold, TimesTypesHold, PresenterTypesHold DEF Typed
<1> QED
  BY ONLY <1>3, <1>4, <1>5, <1>6 DEF Typed

\* Every part of the viewer keeps its variables within their types: queues, caches,
\* channels and views no longer than the code lets them be, numbers of sessions,
\* frames and textures within what was made, and no state outside those the code
\* names: for any capacities, sizes and counts.
THEOREM ViewerTypesHold == Spec => []TypeOK
<1>1. ASSUME PartsInv, EdgesInv, Typed, machine \in Machines PROVE TypeOK
  <2>1. PipeInv /\ D3D12Inv /\ VtInv
    BY <1>1 DEF PartsInv
  <2>2. Pipeline!TypeOK
    BY <2>1 DEF PipeInv
  <2>3. D3D12!TypeOK /\ Vt!TypeOK
    BY <1>1, <2>1, GpuTypesHold, VtTypesHold DEF Typed
  <2>4. Feedback!TypeOK /\ Finder!TypeOK
    BY <1>1 DEF Typed
  <2>5. Recovery!TypeOK /\ Reassembly!TypeOK /\ Bits!TypeOK
    BY <1>1, RecoveryTypesHold, ReassemblyTypesHold, BitsTypesHold DEF Typed
  <2>6. Pixels!TypeOK /\ Times!TypeOK /\ Presenter!TypeOK
    BY <1>1, PixelsTypesHold, TimesTypesHold, PresenterTypesHold DEF Typed, EdgesInv
  <2> QED
    BY ONLY <1>1, <2>2, <2>3, <2>4, <2>5, <2>6 DEF TypeOK
<1>2. Init => EdgesInv /\ Typed /\ machine \in Machines
  BY EdgesKept, TypedAtFirst DEF Init
<1>3. /\ PartsInv /\ EdgesInv /\ Typed /\ machine \in Machines /\ [Next]_vars
        => EdgesInv' /\ Typed' /\ (machine \in Machines)'
  BY EdgesKept, TypedAfter, EveryStep
<1> QED
  BY <1>1, <1>2, <1>3, PartsKept, PTL DEF Spec

=============================================================================
