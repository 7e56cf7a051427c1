--------------------------- MODULE ViewerEdgeProofs ---------------------------
(***************************************************************************)
(* Proofs about the two edges of the viewer, the link whose losses it      *)
(* repairs and whose delays it measures, and the window it draws, for      *)
(* every value of the constants.                                           *)
(***************************************************************************)
EXTENDS ViewerParts, Integers, DataLemmas, FiniteSetTheorems

-----------------------------------------------------------------------------
(* StreamRecovery: what is asked for comes, until a datagram is lost twice. *)

Fragment(f, i) == [frame |-> f, frag |-> i]

RecoveryTypes ==
  /\ sent \in 0 .. RecoveryMaxFrames
  /\ recoveryAt = "out" \/ probe = TRUE => sent > 0
  /\ nextId \in 1 .. RecoveryMaxFrames + 1
  /\ wire \in SUBSET Recovery!Datagram /\ resent \in SUBSET Recovery!Datagram
  /\ control \in SUBSET [frame : Recovery!Frame \cup {0}, frags : SUBSET Recovery!Frag]
  /\ got \in [Recovery!Frame -> SUBSET Recovery!Frag]
  /\ recoveryAsked \in [Recovery!Frame -> SUBSET Recovery!Frag]
  /\ whole \in SUBSET Recovery!Frame
  /\ rounds \in [Recovery!Frame -> 0 .. MaxRounds]
  /\ losses \in [Recovery!Datagram -> Nat]

\* The cache has the frames up to the last one kept, without a gap.
Kept == IF recoveryAt = "out" THEN sent - 1 ELSE sent

CacheInOrder ==
  /\ cache \in Seq(Recovery!Frame)
  /\ Len(cache) <= Kept /\ (cache = <<>> => Kept = 0)
  /\ \A k \in 1 .. Len(cache) : cache[k] = Kept - Len(cache) + k

\* What is not sent is nowhere.
Unsent ==
  /\ \A f \in Recovery!Frame : f > sent =>
       got[f] = {} /\ rounds[f] = 0 /\ \A i \in Recovery!Frag : Fragment(f, i) \notin wire
  /\ \A r \in control : r.frame <= sent

\* A fragment that is missing is on its way, or was lost.
Traced ==
  \A f \in Recovery!Frame, i \in Recovery!Frag :
    nextId <= f /\ f <= sent /\ i \notin got[f] =>
      Fragment(f, i) \in wire \/ losses[Fragment(f, i)] >= 1

\* Fragments of a later frame are here.
Behind(g, f) == \E k \in Recovery!Frame : k > f /\ g[k] # {}

\* What is asked for is missing; a frame asked for as a whole has a later one.
AskedMissing ==
  \A f \in Recovery!Frame :
    /\ recoveryAsked[f] \subseteq got[f] \cup Recovery!Missing(got, f)
    /\ f \in whole => Behind(got, f)
    /\ got[f] = {} /\ f \notin whole => rounds[f] = 0

\* All that is missing, and of use, was asked for.
AllAsked ==
  \A f \in Recovery!Frame :
    Recovery!Missing(got, f) # {} /\ Recovery!Useful(got, nextId, FALSE, f) =>
      IF got[f] = {} THEN f \in whole ELSE Recovery!Missing(got, f) \subseteq recoveryAsked[f]

\* A request on its way for a fragment.
InRequest(c, f, i) == \E r \in c : r.frame = f /\ (r.frags = {} \/ i \in r.frags)

\* Since a request was repeated, what is missing was lost once, and what was asked
\* for is asked for still, or on its way again.
Again(f, i) ==
  nextId <= f /\ i \notin got[f] =>
    /\ losses[Fragment(f, i)] >= 1
    /\ Fragment(f, i) \in resent => Fragment(f, i) \in wire
    /\ i \in recoveryAsked[f] \/ f \in whole => Fragment(f, i) \in wire \/ InRequest(control, f, i)

Repeated ==
  \A f \in Recovery!Frame : rounds[f] > 1 =>
    /\ ~(recoveryAt = "out" /\ f = sent)
    /\ \A i \in Recovery!Frag : Again(f, i)

Once == ~evicted /\ \A d \in Recovery!Datagram : losses[d] <= 1

RecoveryGood ==
  /\ ~needKeyframe
  /\ Unsent /\ Traced /\ AskedMissing /\ AllAsked /\ Repeated

RecoveryInv == RecoveryTypes /\ CacheInOrder /\ (Once => RecoveryGood)

LEMMA RecoveryConstants ==
  /\ RecoveryMaxFrames \in Nat \ {0} /\ Fragments \in Nat \ {0}
  /\ Retained \in Nat \ {0} /\ MaxRounds \in Nat \ {0}
  /\ Recovery!Frame = 1 .. RecoveryMaxFrames /\ Recovery!Frag = 1 .. Fragments
  /\ Recovery!Datagram = [frame : Recovery!Frame, frag : Recovery!Frag]
  BY PartsAssumption DEF Recovery!Assumption, Recovery!Frame, Recovery!Frag, Recovery!Datagram

\* A datagram is a fragment of a frame.
LEMMA Datagrams ==
  /\ \A f \in Recovery!Frame, i \in Recovery!Frag :
       /\ Fragment(f, i) \in Recovery!Datagram
       /\ Fragment(f, i).frame = f /\ Fragment(f, i).frag = i
  /\ \A d \in Recovery!Datagram :
       /\ d.frame \in Recovery!Frame /\ d.frag \in Recovery!Frag
       /\ d = Fragment(d.frame, d.frag)
  BY RecoveryConstants DEF Fragment

LEMMA OfFrame ==
  ASSUME NEW f \in Recovery!Frame
  PROVE  /\ Recovery!Of(f) \in SUBSET Recovery!Datagram
         /\ \A i \in Recovery!Frag : Fragment(f, i) \in Recovery!Of(f)
         /\ \A d \in Recovery!Of(f) : d.frame = f
  BY RecoveryConstants DEF Recovery!Of, Fragment

\* The greatest and the least of a set of numbers.
LEMMA Greatest ==
  ASSUME NEW n \in Nat, NEW S \in SUBSET (0 .. n), S # {}
  PROVE  Recovery!Max(S) \in S /\ \A x \in S : x <= Recovery!Max(S)
<1>1. PICK m \in {n - x : x \in S} : \A k \in {n - x : x \in S} : m <= k
  <2>1. \A x \in S : n - x \in Nat
    OBVIOUS
  <2>2. {n - x : x \in S} \in SUBSET Nat
    BY ONLY <2>1
  <2>3. {n - x : x \in S} # {}
    OBVIOUS
  <2> QED
    BY <2>2, <2>3, LeastElement
<1>2. PICK z \in S : m = n - z
  OBVIOUS
<1>3. \A x \in S : z >= x
  <2>1. \A x \in S : n - z <= n - x
    BY <1>1, <1>2
  <2> QED
    BY <2>1
<1>4. Recovery!Max(S) \in S /\ \A x \in S : Recovery!Max(S) >= x
  BY <1>3 DEF Recovery!Max
<1> QED
  BY <1>4

LEMMA Least ==
  ASSUME NEW S \in SUBSET Nat, S # {}
  PROVE  Recovery!Min(S) \in S /\ \A x \in S : Recovery!Min(S) <= x
<1>1. PICK m \in S : \A x \in S : m <= x
  BY LeastElement
<1> QED
  BY <1>1 DEF Recovery!Min

\* Frames that are shown to be missing by what is here of a later one.
LEMMA HighestBehind ==
  ASSUME NEW g \in [Recovery!Frame -> SUBSET Recovery!Frag], NEW f \in Recovery!Frame
  PROVE  f < Recovery!Highest(g) <=> Behind(g, f)
<1> DEFINE H == {k \in Recovery!Frame : g[k] # {}} \cup {0}
<1>1. RecoveryMaxFrames \in Nat /\ H \in SUBSET (0 .. RecoveryMaxFrames) /\ H # {}
  BY RecoveryConstants
<1>2. Recovery!Max(H) \in H /\ \A x \in H : x <= Recovery!Max(H)
  BY <1>1, Greatest
<1>3. Recovery!Highest(g) = Recovery!Max(H)
  BY DEF Recovery!Highest
<1>4. f \in Nat \ {0} /\ Recovery!Frame \subseteq Nat
  BY RecoveryConstants
<1> HIDE DEF H
<1>5. ASSUME f < Recovery!Highest(g) PROVE Behind(g, f)
  <2>1. Recovery!Max(H) > f /\ Recovery!Max(H) # 0
    BY <1>2, <1>3, <1>4, <1>5, <1>1
  <2>2. Recovery!Max(H) \in Recovery!Frame /\ g[Recovery!Max(H)] # {}
    BY <1>2, <2>1 DEF H
  <2> QED
    BY <2>1, <2>2 DEF Behind
<1>6. ASSUME Behind(g, f) PROVE f < Recovery!Highest(g)
  <2>1. PICK k \in Recovery!Frame : k > f /\ g[k] # {}
    BY <1>6 DEF Behind
  <2>2. k \in H
    BY <2>1 DEF H
  <2>3. k <= Recovery!Max(H)
    BY ONLY <1>2, <2>2
  <2>4. Recovery!Max(H) \in Nat
    <3>1. \A x \in 0 .. RecoveryMaxFrames : x \in Nat
      OBVIOUS
    <3> QED
      BY ONLY <3>1, <1>1, <1>2
  <2> QED
    BY <1>3, <1>4, <2>1, <2>3, <2>4
<1> QED
  BY <1>5, <1>6

\* What is missing of a frame: all that is not here, once a later frame is, and
\* else what comes before a fragment that is.
LEMMA MissingIs ==
  ASSUME NEW g \in [Recovery!Frame -> SUBSET Recovery!Frag], NEW f \in Recovery!Frame
  PROVE  Recovery!Missing(g, f) =
           {i \in Recovery!Frag \ g[f] : Behind(g, f) \/ \E j \in g[f] : i < j}
<1> DEFINE M == {i \in Recovery!Frag \ g[f] : Behind(g, f) \/ \E j \in g[f] : i < j}
<1>1. CASE f < Recovery!Highest(g)
  BY <1>1, HighestBehind DEF Recovery!Missing
<1>2. CASE ~(f < Recovery!Highest(g)) /\ g[f] = {}
  BY <1>2, HighestBehind DEF Recovery!Missing
<1>3. CASE ~(f < Recovery!Highest(g)) /\ g[f] # {}
  <2>1. Recovery!Missing(g, f) = (1 .. Recovery!Max(g[f])) \ g[f]
    BY <1>3 DEF Recovery!Missing
  <2>2. g[f] \in SUBSET (0 .. Fragments) /\ Fragments \in Nat /\ g[f] \in SUBSET (1 .. Fragments)
    BY RecoveryConstants
  <2>3. Recovery!Max(g[f]) \in g[f] /\ \A x \in g[f] : x <= Recovery!Max(g[f])
    BY <1>3, <2>2, Greatest
  <2>4. ~Behind(g, f)
    BY <1>3, HighestBehind
  <2>5. Recovery!Frag = 1 .. Fragments
    BY RecoveryConstants
  <2>6. ASSUME NEW i \in (1 .. Recovery!Max(g[f])) \ g[f] PROVE i \in M
    <3>1. i \in Recovery!Frag \ g[f] /\ i < Recovery!Max(g[f])
      BY <2>2, <2>3, <2>5, <2>6
    <3> QED
      BY <3>1, <2>3
  <2>7. ASSUME NEW i \in M PROVE i \in (1 .. Recovery!Max(g[f])) \ g[f]
    <3>1. PICK j \in g[f] : i < j
      BY <2>4
    <3> QED
      BY <2>2, <2>3, <2>5, <3>1
  <2> QED
    BY <2>1, <2>6, <2>7
<1> QED
  BY <1>1, <1>2, <1>3

LEMMA ReleasedIs ==
  ASSUME NEW g, NEW n \in 1 .. RecoveryMaxFrames + 1, NEW need
  PROVE  Recovery!Released(g, n, need) \in n .. RecoveryMaxFrames + 1
<1> DEFINE start == IF need THEN {f \in Recovery!Frame : f >= n /\ f \in keys /\ Recovery!Complete(g, f)} ELSE {n}
           from == IF start = {} THEN 0 ELSE Recovery!Min(start)
           S == {f \in from .. RecoveryMaxFrames : ~Recovery!Complete(g, f)} \cup {RecoveryMaxFrames + 1}
<1>1. Recovery!Released(g, n, need) = IF from = 0 THEN n ELSE Recovery!Min(S)
  BY DEF Recovery!Released
<1>2. start \in SUBSET (n .. RecoveryMaxFrames + 1) /\ RecoveryMaxFrames \in Nat
  BY RecoveryConstants
<1> HIDE DEF start
<1>3. CASE start = {}
  BY <1>1, <1>2, <1>3
<1>4. CASE start # {}
  <2>1. start \in SUBSET Nat
    BY <1>2
  <2>2. Recovery!Min(start) \in start
    BY <1>4, <2>1, Least
  <2>3. from \in n .. RecoveryMaxFrames + 1
    BY <1>2, <1>4, <2>2
  <2> HIDE DEF from
  <2>4. S \in SUBSET (n .. RecoveryMaxFrames + 1) /\ S # {} /\ from # 0
    BY <1>2, <2>3
  <2> HIDE DEF S
  <2>5. S \in SUBSET Nat
    BY <2>4, <1>2
  <2>6. Recovery!Min(S) \in S
    BY <2>4, <2>5, Least
  <2> QED
    BY <1>1, <2>4, <2>6
<1> QED
  BY <1>3, <1>4

\* What is asked about one frame.
Asks(g, n, need, due, f) ==
  LET again == f = due /\ rounds[f] < MaxRounds
      ask == Recovery!Missing(g, f) \ (IF again THEN {} ELSE recoveryAsked[f])
  IN IF ~Recovery!Useful(g, n, need, f) THEN {}
     ELSE IF g[f] = {} /\ Recovery!Missing(g, f) # {}
          THEN IF (f \in whole /\ ~again) \/ rounds[f] = MaxRounds THEN {}
               ELSE {[frame |-> f, frags |-> {}]}
     ELSE IF ask = {} THEN {} ELSE {[frame |-> f, frags |-> ask]}

LEMMA RequestsAre ==
  ASSUME NEW g, NEW n, NEW need, NEW due
  PROVE  /\ Recovery!Requests(g, n, need, due) = UNION {Asks(g, n, need, due, f) : f \in Recovery!Frame}
         /\ \A f \in Recovery!Frame :
              {r \in Recovery!Requests(g, n, need, due) : r.frame = f} = Asks(g, n, need, due, f)
<1>1. Recovery!Requests(g, n, need, due) = UNION {Asks(g, n, need, due, f) : f \in Recovery!Frame}
  BY DEF Recovery!Requests, Asks
<1>2. \A f \in Recovery!Frame : \A r \in Asks(g, n, need, due, f) : r.frame = f
  BY DEF Asks
<1> QED
  BY ONLY <1>1, <1>2

LEMMA AsksFor ==
  ASSUME NEW g \in [Recovery!Frame -> SUBSET Recovery!Frag], NEW n, NEW need, NEW due,
         NEW f \in Recovery!Frame, NEW r \in Asks(g, n, need, due, f)
  PROVE  /\ r \in [frame : Recovery!Frame, frags : SUBSET Recovery!Frag]
         /\ r.frame = f /\ Recovery!Missing(g, f) # {}
         /\ r.frags \subseteq Recovery!Missing(g, f)
         /\ r.frags = {} <=> g[f] = {}
         /\ g[f] = {} => f \notin whole \/ f = due
<1>1. Recovery!Missing(g, f) \subseteq Recovery!Frag
  BY MissingIs
<1>2. Recovery!Missing(g, f) # {}
  BY DEF Asks
<1>3. CASE g[f] = {}
  <2>1. r = [frame |-> f, frags |-> {}] /\ (f \notin whole \/ f = due)
    BY <1>2, <1>3 DEF Asks
  <2> QED
    BY <1>2, <1>3, <2>1
<1>4. CASE g[f] # {}
  <2>1. PICK ask \in SUBSET Recovery!Missing(g, f) : ask # {} /\ r = [frame |-> f, frags |-> ask]
    BY <1>4 DEF Asks
  <2> QED
    BY <1>1, <1>2, <1>4, <2>1
<1> QED
  BY <1>3, <1>4

\* All that is missing is asked for, if it was not already, and what is due is again.
LEMMA AsksAll ==
  ASSUME NEW g \in [Recovery!Frame -> SUBSET Recovery!Frag], NEW n, NEW due,
         NEW f \in Recovery!Frame, Recovery!Missing(g, f) # {}, Recovery!Useful(g, n, FALSE, f)
  PROVE  /\ g[f] = {} /\ rounds[f] # MaxRounds /\ (f \in whole => f = due /\ rounds[f] < MaxRounds) =>
              [frame |-> f, frags |-> {}] \in Asks(g, n, FALSE, due, f)
         /\ g[f] # {} => \A i \in Recovery!Missing(g, f) :
              (i \in recoveryAsked[f] => f = due /\ rounds[f] < MaxRounds) =>
                \E r \in Asks(g, n, FALSE, due, f) : i \in r.frags
<1>1. CASE g[f] = {}
  BY <1>1 DEF Asks
<1>2. ASSUME g[f] # {}, NEW i \in Recovery!Missing(g, f),
             i \in recoveryAsked[f] => f = due /\ rounds[f] < MaxRounds
      PROVE  \E r \in Asks(g, n, FALSE, due, f) : i \in r.frags
  <2> DEFINE ask == Recovery!Missing(g, f) \ (IF f = due /\ rounds[f] < MaxRounds THEN {} ELSE recoveryAsked[f])
  <2>1. i \in ask
    BY <1>2
  <2>2. Asks(g, n, FALSE, due, f) = {[frame |-> f, frags |-> ask]}
    BY <1>2, <2>1 DEF Asks
  <2> HIDE DEF ask
  <2>3. [frame |-> f, frags |-> ask].frags = ask
    OBVIOUS
  <2> QED
    BY <2>1, <2>2, <2>3
<1> QED
  BY <1>1, <1>2

\* What a request leaves behind.
Asking(g, n, due) ==
  \A f \in Recovery!Frame :
    /\ recoveryAsked[f] \subseteq recoveryAsked'[f]
    /\ recoveryAsked'[f] \subseteq recoveryAsked[f] \cup Recovery!Missing(g, f)
    /\ f \in whole => f \in whole'
    /\ f \in whole' \ whole => g[f] = {} /\ Recovery!Missing(g, f) # {}
    /\ \A i \in Recovery!Frag : i \in recoveryAsked'[f] \ recoveryAsked[f] => InRequest(control', f, i)
    /\ f \in whole' \ whole => \A i \in Recovery!Frag : InRequest(control', f, i)
    /\ rounds'[f] # rounds[f] =>
         /\ Recovery!Missing(g, f) # {}
         /\ rounds'[f] = rounds[f] + 1
         /\ f = due \/ rounds'[f] = 1 \/ (g[f] = {} /\ f \notin whole)
    /\ g[f] = {} /\ f \notin whole' => rounds'[f] = rounds[f]

LEMMA RequestTypes ==
  ASSUME NEW g \in [Recovery!Frame -> SUBSET Recovery!Frag], NEW n, NEW need, NEW due, NEW more,
         RecoveryTypes, Recovery!Request(g, n, need, due, more),
         more \in SUBSET [frame : Recovery!Frame \cup {0}, frags : SUBSET Recovery!Frag]
  PROVE  /\ control' \in SUBSET [frame : Recovery!Frame \cup {0}, frags : SUBSET Recovery!Frag]
         /\ recoveryAsked' \in [Recovery!Frame -> SUBSET Recovery!Frag]
         /\ whole' \in SUBSET Recovery!Frame
         /\ rounds' \in [Recovery!Frame -> 0 .. MaxRounds]
<1> DEFINE reqs == Recovery!Requests(g, n, need, due)
           of(f) == {r \in reqs : r.frame = f}
           C == [frame : Recovery!Frame \cup {0}, frags : SUBSET Recovery!Frag]
<1>1. /\ control' = control \cup reqs \cup more
      /\ recoveryAsked' = [f \in Recovery!Frame |-> recoveryAsked[f] \cup UNION {r.frags : r \in of(f)}]
      /\ whole' = whole \cup {r.frame : r \in {q \in reqs : q.frags = {}}}
      /\ rounds' = [f \in Recovery!Frame |->
                     IF of(f) # {} /\ (f = due \/ g[f] = {}) /\ rounds[f] < MaxRounds THEN rounds[f] + 1
                     ELSE IF of(f) # {} /\ rounds[f] = 0 THEN 1 ELSE rounds[f]]
  BY DEF Recovery!Request
<1>2. \A r \in reqs : r.frame \in Recovery!Frame /\ r.frags \in SUBSET Recovery!Frag /\ r \in C
  <2>1. \A f \in Recovery!Frame : \A r \in Asks(g, n, need, due, f) :
          r \in [frame : Recovery!Frame, frags : SUBSET Recovery!Frag]
    BY AsksFor
  <2> QED
    BY <2>1, RequestsAre
<1> HIDE DEF reqs
<1>3. control' \in SUBSET C
  BY <1>1, <1>2 DEF RecoveryTypes
<1>4. recoveryAsked' \in [Recovery!Frame -> SUBSET Recovery!Frag]
  BY <1>1, <1>2 DEF RecoveryTypes
<1>5. whole' \in SUBSET Recovery!Frame
  BY <1>1, <1>2 DEF RecoveryTypes
<1>6. rounds' \in [Recovery!Frame -> 0 .. MaxRounds]
  <2> HIDE DEF of
  <2>1. rounds \in [Recovery!Frame -> 0 .. MaxRounds] /\ MaxRounds \in Nat \ {0}
    BY RecoveryConstants DEF RecoveryTypes
  <2> QED
    BY ONLY <1>1, <2>1
<1> QED
  BY <1>3, <1>4, <1>5, <1>6

LEMMA RequestAsks ==
  ASSUME NEW g \in [Recovery!Frame -> SUBSET Recovery!Frag], NEW n, NEW need, NEW due, NEW more,
         RecoveryTypes, Recovery!Request(g, n, need, due, more)
  PROVE  /\ Asking(g, n, due)
         /\ control \subseteq control'
         /\ \A r \in control' :
              \/ r \in control \cup more
              \/ r.frame \in Recovery!Frame /\ Recovery!Missing(g, r.frame) # {}
         /\ \A f \in Recovery!Frame : \A r \in Asks(g, n, need, due, f) :
              /\ r \in control' /\ r.frame = f
              /\ IF r.frags = {} THEN f \in whole' ELSE r.frags \subseteq recoveryAsked'[f]
<1> DEFINE reqs == Recovery!Requests(g, n, need, due)
           of(f) == {r \in reqs : r.frame = f}
<1>1. /\ control' = control \cup reqs \cup more
      /\ recoveryAsked' = [f \in Recovery!Frame |-> recoveryAsked[f] \cup UNION {r.frags : r \in of(f)}]
      /\ whole' = whole \cup {r.frame : r \in {q \in reqs : q.frags = {}}}
      /\ rounds' = [f \in Recovery!Frame |->
                     IF of(f) # {} /\ (f = due \/ g[f] = {}) /\ rounds[f] < MaxRounds THEN rounds[f] + 1
                     ELSE IF of(f) # {} /\ rounds[f] = 0 THEN 1 ELSE rounds[f]]
  BY DEF Recovery!Request
<1>2. reqs = UNION {Asks(g, n, need, due, f) : f \in Recovery!Frame}
  BY RequestsAre
<1>3. \A f \in Recovery!Frame : of(f) = Asks(g, n, need, due, f)
  BY RequestsAre
<1>4. \A f \in Recovery!Frame : \A r \in of(f) :
        /\ r \in control' /\ r.frame = f /\ Recovery!Missing(g, f) # {}
        /\ r.frags \subseteq Recovery!Missing(g, f)
        /\ r.frags = {} <=> g[f] = {}
        /\ g[f] = {} => f \notin whole \/ f = due
  <2>1. \A f \in Recovery!Frame : \A r \in Asks(g, n, need, due, f) :
          /\ r.frame = f /\ Recovery!Missing(g, f) # {}
          /\ r.frags \subseteq Recovery!Missing(g, f)
          /\ r.frags = {} <=> g[f] = {}
          /\ g[f] = {} => f \notin whole \/ f = due
    BY AsksFor
  <2>2. \A f \in Recovery!Frame : of(f) \subseteq control'
    BY <1>1
  <2> QED
    BY ONLY <2>1, <2>2, <1>3
<1>5. \A f \in Recovery!Frame : f \in whole' <=> f \in whole \/ \E r \in of(f) : r.frags = {}
  BY <1>1
<1>6. \A f \in Recovery!Frame : \A i :
        i \in recoveryAsked'[f] <=> i \in recoveryAsked[f] \/ \E r \in of(f) : i \in r.frags
  BY <1>1
<1>7. \A f \in Recovery!Frame : rounds'[f] # rounds[f] =>
        /\ of(f) # {} /\ rounds'[f] = rounds[f] + 1
        /\ f = due \/ g[f] = {} \/ rounds'[f] = 1
  <2> HIDE DEF of
  <2> QED
    BY ONLY <1>1
<1> HIDE DEF reqs, of
<1>8. ASSUME NEW f \in Recovery!Frame
      PROVE  /\ recoveryAsked[f] \subseteq recoveryAsked'[f]
             /\ recoveryAsked'[f] \subseteq recoveryAsked[f] \cup Recovery!Missing(g, f)
             /\ f \in whole => f \in whole'
             /\ f \in whole' \ whole => g[f] = {} /\ Recovery!Missing(g, f) # {}
  BY ONLY <1>4, <1>5, <1>6, <1>8
<1>9. ASSUME NEW f \in Recovery!Frame
      PROVE  /\ \A i \in Recovery!Frag : i \in recoveryAsked'[f] \ recoveryAsked[f] => InRequest(control', f, i)
             /\ f \in whole' \ whole => \A i \in Recovery!Frag : InRequest(control', f, i)
  BY ONLY <1>4, <1>5, <1>6, <1>9 DEF InRequest
<1>10. ASSUME NEW f \in Recovery!Frame
      PROVE  /\ rounds'[f] # rounds[f] =>
                  /\ Recovery!Missing(g, f) # {}
                  /\ rounds'[f] = rounds[f] + 1
                  /\ f = due \/ rounds'[f] = 1 \/ (g[f] = {} /\ f \notin whole)
             /\ g[f] = {} /\ f \notin whole' => rounds'[f] = rounds[f]
  BY ONLY <1>4, <1>5, <1>7, <1>10
<1>11. Asking(g, n, due)
  BY ONLY <1>8, <1>9, <1>10 DEF Asking
<1>12. \A f \in Recovery!Frame : \A r \in Asks(g, n, need, due, f) :
         /\ r \in control' /\ r.frame = f
         /\ IF r.frags = {} THEN f \in whole' ELSE r.frags \subseteq recoveryAsked'[f]
  BY ONLY <1>3, <1>4, <1>5, <1>6
<1>13. control \subseteq control'
  BY <1>1
<1>14. \A r \in control' :
         \/ r \in control \cup more
         \/ r.frame \in Recovery!Frame /\ Recovery!Missing(g, r.frame) # {}
  <2>1. \A r \in reqs : \E f \in Recovery!Frame : r \in of(f)
    BY ONLY <1>2, <1>3
  <2> QED
    BY ONLY <1>1, <1>4, <2>1
<1> QED
  BY ONLY <1>11, <1>12, <1>13, <1>14

LEMMA RequestAlone ==
  ASSUME NEW g \in [Recovery!Frame -> SUBSET Recovery!Frag], NEW n, NEW due,
         RecoveryTypes, Recovery!Request(g, n, FALSE, due, {})
  PROVE  /\ control \subseteq control'
         /\ \A r \in control' \ control : r.frame \in Recovery!Frame /\ Recovery!Missing(g, r.frame) # {}
         /\ \A f \in Recovery!Frame : \A r \in Asks(g, n, FALSE, due, f) : r \in control' /\ r.frame = f
<1>1. PICK none : none = {}
  OBVIOUS
<1>2. PICK need : need = FALSE
  OBVIOUS
<1>3. Recovery!Request(g, n, need, due, none)
  BY <1>1, <1>2
<1>4. /\ control \subseteq control'
      /\ \A r \in control' :
           \/ r \in control \cup none
           \/ r.frame \in Recovery!Frame /\ Recovery!Missing(g, r.frame) # {}
      /\ \A f \in Recovery!Frame : \A r \in Asks(g, n, need, due, f) : r \in control' /\ r.frame = f
  BY <1>3, RequestAsks
<1> QED
  BY ONLY <1>1, <1>2, <1>4

-----------------------------------------------------------------------------
(* StreamRecovery: the types are kept.                                     *)

LEMMA RecoveryTypesKept ==
  ASSUME RecoveryTypes, CacheInOrder, Recovery!Next
  PROVE  RecoveryTypes'
<1> USE DEF RecoveryTypes, Recovery!host, Recovery!viewer, Recovery!network
<1>0. RecoveryMaxFrames \in Nat
  BY RecoveryConstants
<1>1. CASE Recovery!Burst
  <2>1. sent + 1 \in Recovery!Frame
    BY <1>1, RecoveryConstants DEF Recovery!Burst
  <2>2. Recovery!Of(sent + 1) \in SUBSET Recovery!Datagram
    BY <2>1, OfFrame
  <2>3. sent' \in 0 .. RecoveryMaxFrames /\ sent' > 0
    BY <1>1, <1>0 DEF Recovery!Burst
  <2> QED
    BY <1>1, <2>2, <2>3 DEF Recovery!Burst
<1>2. CASE Recovery!Insert
  BY <1>2 DEF Recovery!Insert
<1>3. CASE Recovery!TailProbe
  <2> DEFINE d == [frame |-> Recovery!Last(cache), frag |-> Fragments]
  <2>1. sent > 0 /\ recoveryAt # "out"
    BY <1>3 DEF Recovery!TailProbe
  <2>2. cache # <<>> /\ cache \in Seq(Recovery!Frame)
    BY <2>1, <1>0 DEF CacheInOrder, Kept
  <2>3. Recovery!Last(cache) \in Recovery!Frame
    BY <2>2 DEF Recovery!Last
  <2>4. d \in Recovery!Datagram
    BY <2>3, RecoveryConstants
  <2>5. wire' = wire \cup {d} /\ probe' = FALSE
    BY <1>3 DEF Recovery!TailProbe
  <2>6. wire' \in SUBSET Recovery!Datagram
    BY ONLY <2>4, <2>5, RecoveryTypes
  <2> QED
    BY <1>3, <2>1, <2>6 DEF Recovery!TailProbe
<1>4. CASE Recovery!AnswerKeyframe
  BY <1>4 DEF Recovery!AnswerKeyframe
<1>5. ASSUME NEW nack \in control, Recovery!AnswerNack(nack) PROVE RecoveryTypes'
  <2> DEFINE answer == IF nack.frame \in Recovery!ToSet(cache) THEN Recovery!Wanted(nack) \ resent ELSE {}
  <2>1. /\ control' = control \ {nack} /\ wire' = wire \cup answer /\ resent' = resent \cup answer
        /\ nack.frame # 0
    BY <1>5 DEF Recovery!AnswerNack
  <2>2. nack.frame \in Recovery!Frame /\ nack.frags \in SUBSET Recovery!Frag
    BY <2>1
  <2>3. Recovery!Wanted(nack) \in SUBSET Recovery!Datagram
    <3>1. {[frame |-> nack.frame, frag |-> i] : i \in nack.frags} \in SUBSET Recovery!Datagram
      BY <2>2, RecoveryConstants
    <3>2. Recovery!Of(nack.frame) \in SUBSET Recovery!Datagram
      BY <2>2, OfFrame
    <3> QED
      BY <3>1, <3>2 DEF Recovery!Wanted
  <2>4. answer \in SUBSET Recovery!Datagram
    BY <2>3
  <2> HIDE DEF answer
  <2> QED
    BY <1>5, <2>1, <2>4 DEF Recovery!AnswerNack
<1>6. ASSUME NEW f \in Recovery!Frame, Recovery!Retry(f) PROVE RecoveryTypes'
  <2>1. Recovery!Request(got, nextId, needKeyframe, f, {})
    BY <1>6 DEF Recovery!Retry
  <2>2. /\ control' \in SUBSET [frame : Recovery!Frame \cup {0}, frags : SUBSET Recovery!Frag]
        /\ recoveryAsked' \in [Recovery!Frame -> SUBSET Recovery!Frag]
        /\ whole' \in SUBSET Recovery!Frame
        /\ rounds' \in [Recovery!Frame -> 0 .. MaxRounds]
    BY <2>1, RequestTypes
  <2> QED
    BY <1>6, <2>2 DEF Recovery!Retry
<1>7. ASSUME NEW f \in Recovery!Frame, Recovery!GiveUp(f) PROVE RecoveryTypes'
  <2> DEFINE n == Recovery!Released(got, f + 1, TRUE)
             more == IF needKeyframe THEN {} ELSE {Recovery!KeyframeRequest}
  <2>1. nextId' = n /\ Recovery!Request(got, n, n = f + 1, 0, more)
    BY <1>7 DEF Recovery!GiveUp
  <2>2. n \in 1 .. RecoveryMaxFrames + 1
    <3>1. f + 1 \in 1 .. RecoveryMaxFrames + 1
      BY RecoveryConstants
    <3>2. n \in f + 1 .. RecoveryMaxFrames + 1
      BY <3>1, ReleasedIs
    <3>3. f + 1 > 0 /\ f + 1 \in Nat
      BY RecoveryConstants
    <3> HIDE DEF n
    <3> QED
      BY ONLY <3>2, <3>3, <1>0
  <2>3. more \in SUBSET [frame : Recovery!Frame \cup {0}, frags : SUBSET Recovery!Frag]
    BY DEF Recovery!KeyframeRequest
  <2> HIDE DEF n, more
  <2>4. /\ control' \in SUBSET [frame : Recovery!Frame \cup {0}, frags : SUBSET Recovery!Frag]
        /\ recoveryAsked' \in [Recovery!Frame -> SUBSET Recovery!Frag]
        /\ whole' \in SUBSET Recovery!Frame
        /\ rounds' \in [Recovery!Frame -> 0 .. MaxRounds]
    BY <2>1, <2>3, RequestTypes
  <2> QED
    BY <1>7, <2>1, <2>2, <2>4 DEF Recovery!GiveUp
<1>8. ASSUME NEW d \in wire, Recovery!Receive(d) PROVE RecoveryTypes'
  <2> DEFINE g == IF d.frame < nextId THEN got ELSE [got EXCEPT ![d.frame] = @ \cup {d.frag}]
             n == Recovery!Released(g, nextId, needKeyframe)
             need == needKeyframe /\ n = nextId
  <2>1. /\ got' = g /\ nextId' = n /\ wire' = wire \ {d}
        /\ Recovery!Request(g, n, need, 0, {})
    BY <1>8 DEF Recovery!Receive, Recovery!Deliver
  <2>2. n \in 1 .. RecoveryMaxFrames + 1
    BY ReleasedIs, <1>0
  <2>3. g \in [Recovery!Frame -> SUBSET Recovery!Frag]
    BY Datagrams
  <2> HIDE DEF g, n, need
  <2>4. /\ control' \in SUBSET [frame : Recovery!Frame \cup {0}, frags : SUBSET Recovery!Frag]
        /\ recoveryAsked' \in [Recovery!Frame -> SUBSET Recovery!Frag]
        /\ whole' \in SUBSET Recovery!Frame
        /\ rounds' \in [Recovery!Frame -> 0 .. MaxRounds]
    BY <2>1, <2>3, RequestTypes
  <2> QED
    BY <1>8, <2>1, <2>2, <2>3, <2>4 DEF Recovery!Receive
<1>9. ASSUME NEW d \in wire, Recovery!Lose(d) PROVE RecoveryTypes'
  <2>1. losses' \in [Recovery!Datagram -> Nat]
    BY <1>9 DEF Recovery!Lose
  <2>2. wire' \in SUBSET Recovery!Datagram
    BY <1>9 DEF Recovery!Lose
  <2> QED
    BY <1>9, <2>1, <2>2 DEF Recovery!Lose
<1> QED
  BY <1>1, <1>2, <1>3, <1>4, <1>5, <1>6, <1>7, <1>8, <1>9 DEF Recovery!Next, Recovery!Step

LEMMA CacheKept ==
  ASSUME RecoveryTypes, CacheInOrder, Recovery!Next
  PROVE  CacheInOrder'
<1>0. sent \in Nat /\ (recoveryAt = "out" => sent > 0)
  BY RecoveryConstants DEF RecoveryTypes
<1>1. CASE Recovery!Burst
  <2>1. Kept' = Kept /\ cache' = cache
    BY <1>0, <1>1 DEF Recovery!Burst, Kept
  <2> QED
    BY <2>1 DEF CacheInOrder
<1>2. CASE Recovery!Insert
  <2>1. Kept = sent - 1 /\ Kept' = sent /\ sent > 0 /\ sent \in Recovery!Frame
    BY <1>0, <1>2, RecoveryConstants DEF Recovery!Insert, Kept, RecoveryTypes
  <2>2. PICK old \in 0 .. Len(cache) : cache' = Append(SubSeq(cache, old + 1, Len(cache)), sent)
    BY <1>2 DEF Recovery!Insert
  <2> DEFINE s == SubSeq(cache, old + 1, Len(cache))
  <2>3. cache \in Seq(Recovery!Frame) /\ Len(cache) \in Nat /\ Len(cache) <= sent - 1
        /\ \A k \in 1 .. Len(cache) : cache[k] = sent - 1 - Len(cache) + k
    BY <2>1 DEF CacheInOrder
  <2>4. /\ s \in Seq(Recovery!Frame) /\ Len(s) = Len(cache) - old
        /\ \A k \in 1 .. Len(cache) - old : s[k] = cache[old + k]
    BY <2>3
  <2> HIDE DEF s
  <2>5. /\ cache' \in Seq(Recovery!Frame) /\ Len(cache') = Len(cache) - old + 1
        /\ \A k \in 1 .. Len(cache) - old : cache'[k] = s[k]
        /\ cache'[Len(cache) - old + 1] = sent
    BY <2>1, <2>2, <2>4 DEF s
  <2>6. ASSUME NEW k \in 1 .. Len(cache') PROVE cache'[k] = sent - Len(cache') + k
    <3>1. CASE k = Len(cache) - old + 1
      BY <3>1, <2>5, <1>0, <2>3
    <3>2. CASE k \in 1 .. Len(cache) - old
      <4>1. cache'[k] = cache[old + k] /\ old + k \in 1 .. Len(cache)
        BY <3>2, <2>3, <2>4, <2>5
      <4>2. cache[old + k] = sent - 1 - Len(cache) + (old + k)
        BY <4>1, <2>3
      <4> QED
        BY <3>2, <4>1, <4>2, <2>3, <2>5, <1>0
    <3> QED
      BY <3>1, <3>2, <2>3, <2>5
  <2>7. cache' # <<>> /\ Len(cache') <= sent
    BY <2>3, <2>5, <1>0
  <2> QED
    BY <2>1, <2>5, <2>6, <2>7 DEF CacheInOrder
<1>3. CASE UNCHANGED <<cache, recoveryAt, sent>>
  BY <1>3 DEF CacheInOrder, Kept
<1>4. Recovery!Next => Recovery!Burst \/ Recovery!Insert \/ UNCHANGED <<cache, recoveryAt, sent>>
  BY DEF Recovery!Next, Recovery!Step, Recovery!host, Recovery!TailProbe, Recovery!AnswerKeyframe,
    Recovery!AnswerNack, Recovery!Retry, Recovery!GiveUp, Recovery!Receive, Recovery!Lose
<1> QED
  BY <1>1, <1>2, <1>3, <1>4

-----------------------------------------------------------------------------
(* StreamRecovery: while each datagram is lost once at most, no keyframe is *)
(* asked for.                                                              *)

\* More of a frame leaves less of it missing.
LEMMA MoreIsHere ==
  ASSUME NEW g \in [Recovery!Frame -> SUBSET Recovery!Frag],
         NEW h \in [Recovery!Frame -> SUBSET Recovery!Frag],
         \A f \in Recovery!Frame : g[f] \subseteq h[f], NEW f \in Recovery!Frame
  PROVE  /\ Behind(g, f) => Behind(h, f)
         /\ g[f] \cup Recovery!Missing(g, f) \subseteq h[f] \cup Recovery!Missing(h, f)
<1>1. Behind(g, f) => Behind(h, f)
  BY DEF Behind
<1>2. Recovery!Missing(g, f) = {i \in Recovery!Frag \ g[f] : Behind(g, f) \/ \E j \in g[f] : i < j}
  BY MissingIs
<1>3. Recovery!Missing(h, f) = {i \in Recovery!Frag \ h[f] : Behind(h, f) \/ \E j \in h[f] : i < j}
  BY MissingIs
<1> QED
  BY ONLY <1>1, <1>2, <1>3, g[f] \subseteq h[f]

LEMMA MissingNotHere ==
  ASSUME NEW g \in [Recovery!Frame -> SUBSET Recovery!Frag], NEW f \in Recovery!Frame
  PROVE  /\ Recovery!Missing(g, f) \subseteq Recovery!Frag \ g[f]
         /\ Behind(g, f) => Recovery!Missing(g, f) = Recovery!Frag \ g[f]
         /\ Recovery!Missing(g, f) # {} => Behind(g, f) \/ g[f] # {}
  BY MissingIs

\* A frame that is asked about was sent.
LEMMA MissingSent ==
  ASSUME RecoveryTypes, NEW g \in [Recovery!Frame -> SUBSET Recovery!Frag],
         \A f \in Recovery!Frame : f > sent => g[f] = {},
         NEW f \in Recovery!Frame, Recovery!Missing(g, f) # {}
  PROVE  f <= sent
<1>1. Behind(g, f) \/ g[f] # {}
  BY MissingNotHere
<1>2. \E k \in Recovery!Frame : k >= f /\ g[k] # {}
  BY <1>1, RecoveryConstants DEF Behind
<1> QED
  BY <1>2, RecoveryConstants DEF RecoveryTypes

\* What a step of the window keeps, be it because a datagram came or a request is
\* due again.
LEMMA AskedKept ==
  ASSUME RecoveryTypes, AskedMissing,
         NEW g \in [Recovery!Frame -> SUBSET Recovery!Frag],
         \A f \in Recovery!Frame : got[f] \subseteq g[f],
         NEW n, NEW due, NEW more, Recovery!Request(g, n, FALSE, due, more),
         NEW f \in Recovery!Frame
  PROVE  /\ recoveryAsked'[f] \subseteq g[f] \cup Recovery!Missing(g, f)
         /\ f \in whole' => Behind(g, f)
         /\ g[f] = {} /\ f \notin whole' => rounds'[f] = 0
         /\ f # due /\ rounds'[f] > 1 => rounds[f] > 1
         /\ Recovery!Missing(g, f) # {} /\ Recovery!Useful(g, n, FALSE, f) =>
              IF g[f] = {} THEN f \in whole' ELSE Recovery!Missing(g, f) \subseteq recoveryAsked'[f]
<1>1. Asking(g, n, due)
  BY RequestAsks
<1>2. /\ recoveryAsked[f] \subseteq recoveryAsked'[f]
      /\ recoveryAsked'[f] \subseteq recoveryAsked[f] \cup Recovery!Missing(g, f)
      /\ f \in whole => f \in whole'
      /\ f \in whole' \ whole => g[f] = {} /\ Recovery!Missing(g, f) # {}
  BY ONLY <1>1, f \in Recovery!Frame DEF Asking
<1>3. /\ rounds'[f] # rounds[f] =>
           /\ rounds'[f] = rounds[f] + 1
           /\ f = due \/ rounds'[f] = 1 \/ (g[f] = {} /\ f \notin whole)
      /\ g[f] = {} /\ f \notin whole' => rounds'[f] = rounds[f]
  BY ONLY <1>1, f \in Recovery!Frame DEF Asking
<1>4. /\ recoveryAsked[f] \subseteq got[f] \cup Recovery!Missing(got, f)
      /\ f \in whole => Behind(got, f)
      /\ got[f] = {} /\ f \notin whole => rounds[f] = 0
  BY DEF AskedMissing
<1>5. /\ Behind(got, f) => Behind(g, f)
      /\ got[f] \cup Recovery!Missing(got, f) \subseteq g[f] \cup Recovery!Missing(g, f)
      /\ got[f] \subseteq g[f]
  BY MoreIsHere DEF RecoveryTypes
<1>6. recoveryAsked'[f] \subseteq g[f] \cup Recovery!Missing(g, f)
  BY ONLY <1>2, <1>4, <1>5
<1>7. f \in whole' => Behind(g, f)
  BY ONLY <1>2, <1>4, <1>5, MissingNotHere, g \in [Recovery!Frame -> SUBSET Recovery!Frag], f \in Recovery!Frame
<1>8. g[f] = {} /\ f \notin whole' => rounds'[f] = 0
  BY ONLY <1>2, <1>3, <1>4, <1>5
<1>9. f # due /\ rounds'[f] > 1 => rounds[f] > 1
  <2>1. g[f] = {} /\ f \notin whole => rounds[f] = 0
    BY ONLY <1>4, <1>5
  <2>2. CASE rounds'[f] = rounds[f]
    BY <2>2
  <2>3. CASE rounds'[f] = 1
    BY <2>3
  <2>4. CASE g[f] = {} /\ f \notin whole /\ rounds'[f] # rounds[f]
    BY <2>1, <2>4, <1>3
  <2> QED
    BY ONLY <2>2, <2>3, <2>4, <1>3
<1>10. \A r \in Asks(g, n, FALSE, due, f) :
         IF r.frags = {} THEN f \in whole' ELSE r.frags \subseteq recoveryAsked'[f]
  BY RequestAsks
<1>11. ASSUME Recovery!Missing(g, f) # {}, Recovery!Useful(g, n, FALSE, f), g[f] = {} PROVE f \in whole'
  <2>1. CASE f \in whole
    BY <2>1, <1>2
  <2>2. CASE f \notin whole
    <3>1. rounds[f] # MaxRounds
      BY <2>2, <1>4, <1>5, <1>11, RecoveryConstants
    <3>2. [frame |-> f, frags |-> {}] \in Asks(g, n, FALSE, due, f)
      BY <2>2, <3>1, <1>11, AsksAll
    <3> QED
      BY <3>2, <1>10
  <2> QED
    BY <2>1, <2>2
<1>12. ASSUME Recovery!Missing(g, f) # {}, Recovery!Useful(g, n, FALSE, f), g[f] # {},
              NEW i \in Recovery!Missing(g, f)
       PROVE  i \in recoveryAsked'[f]
  <2>1. CASE i \in recoveryAsked[f]
    BY <2>1, <1>2
  <2>2. CASE i \notin recoveryAsked[f]
    <3>1. PICK r \in Asks(g, n, FALSE, due, f) : i \in r.frags
      BY <2>2, <1>12, AsksAll
    <3> QED
      BY ONLY <3>1, <1>10
  <2> QED
    BY <2>1, <2>2
<1>13. Recovery!Missing(g, f) # {} /\ Recovery!Useful(g, n, FALSE, f) =>
         IF g[f] = {} THEN f \in whole' ELSE Recovery!Missing(g, f) \subseteq recoveryAsked'[f]
  BY <1>11, <1>12
<1> QED
  BY ONLY <1>6, <1>7, <1>8, <1>9, <1>13

\* A step of the host or the network leaves the window alone.
LEMMA WindowIdle ==
  ASSUME UNCHANGED Recovery!viewer, keys \subseteq keys', ~needKeyframe, AskedMissing, AllAsked
  PROVE  ~needKeyframe' /\ AskedMissing' /\ AllAsked'
<1>1. /\ got' = got /\ nextId' = nextId /\ needKeyframe' = needKeyframe
      /\ recoveryAsked' = recoveryAsked /\ whole' = whole /\ rounds' = rounds
  BY DEF Recovery!viewer
<1>2. ~needKeyframe'
  BY ONLY <1>1, ~needKeyframe
<1>3. AskedMissing'
  BY ONLY <1>1, AskedMissing DEF AskedMissing
<1>4. ASSUME NEW f, Recovery!Useful(got, nextId, FALSE, f)' PROVE Recovery!Useful(got, nextId, FALSE, f)
  BY <1>1, <1>4 DEF Recovery!Useful
<1>5. AllAsked'
  BY ONLY <1>1, <1>4, AllAsked DEF AllAsked
<1> QED
  BY ONLY <1>2, <1>3, <1>5

LEMMA BurstKeeps ==
  ASSUME RecoveryTypes, RecoveryGood, Recovery!Burst
  PROVE  RecoveryGood'
<1>1. /\ sent' = sent + 1 /\ wire' = wire \cup Recovery!Of(sent + 1) /\ recoveryAt' = "out"
      /\ control' = control /\ resent' = resent /\ losses' = losses /\ keys \subseteq keys'
      /\ UNCHANGED Recovery!viewer
  BY DEF Recovery!Burst, Recovery!network
<1>2. /\ got' = got /\ nextId' = nextId /\ recoveryAsked' = recoveryAsked /\ whole' = whole
      /\ rounds' = rounds
  BY <1>1 DEF Recovery!viewer
<1>3. ~needKeyframe' /\ AskedMissing' /\ AllAsked'
  BY <1>1, WindowIdle DEF RecoveryGood
<1>4. sent \in Nat /\ sent + 1 \in Recovery!Frame /\ Recovery!Frame \subseteq Nat
  BY RecoveryConstants DEF RecoveryTypes, Recovery!Burst
<1>5. /\ \A i \in Recovery!Frag : Fragment(sent + 1, i) \in Recovery!Of(sent + 1)
      /\ \A f \in Recovery!Frame, i \in Recovery!Frag :
           Fragment(f, i) \in Recovery!Of(sent + 1) => f = sent + 1
  BY <1>4, OfFrame, Datagrams
<1>6. Unsent'
  <2>1. \A f \in Recovery!Frame : f > sent + 1 => f > sent /\ f # sent + 1
    BY ONLY <1>4
  <2>2. \A r \in control : r.frame <= sent /\ r.frame \in Nat
    BY RecoveryConstants DEF RecoveryTypes, RecoveryGood, Unsent
  <2>3. \A r \in control : r.frame <= sent + 1
    BY ONLY <2>2, <1>4
  <2> QED
    BY ONLY <1>1, <1>2, <1>5, <2>1, <2>3, RecoveryGood DEF Unsent, RecoveryGood
<1>7. Traced'
  BY ONLY <1>1, <1>2, <1>4, <1>5, RecoveryGood DEF Traced, RecoveryGood
<1>8. Repeated'
  <2>1. \A f \in Recovery!Frame : rounds[f] > 1 => f # sent + 1
    BY <1>4 DEF RecoveryGood, Unsent
  <2>2. \A f, i : Again(f, i) => Again(f, i)'
    BY ONLY <1>1, <1>2 DEF Again
  <2> QED
    BY ONLY <1>1, <1>2, <2>1, <2>2, RecoveryGood DEF Repeated, RecoveryGood
<1> QED
  BY ONLY <1>3, <1>6, <1>7, <1>8 DEF RecoveryGood

LEMMA InsertKeeps ==
  ASSUME RecoveryGood, Recovery!Insert
  PROVE  RecoveryGood'
<1>1. /\ recoveryAt' = "waiting" /\ sent' = sent /\ wire' = wire /\ keys' = keys
      /\ control' = control /\ resent' = resent /\ losses' = losses
      /\ UNCHANGED Recovery!viewer
  BY DEF Recovery!Insert, Recovery!network
<1>2. /\ got' = got /\ nextId' = nextId /\ recoveryAsked' = recoveryAsked /\ whole' = whole
      /\ rounds' = rounds
  BY <1>1 DEF Recovery!viewer
<1>3. ~needKeyframe' /\ AskedMissing' /\ AllAsked'
  BY <1>1, WindowIdle DEF RecoveryGood
<1>4. Unsent' /\ Traced' /\ Repeated'
  BY ONLY <1>1, <1>2, RecoveryGood DEF Unsent, Traced, Repeated, Again, RecoveryGood
<1> QED
  BY ONLY <1>3, <1>4 DEF RecoveryGood

LEMMA TailProbeKeeps ==
  ASSUME RecoveryTypes, CacheInOrder, RecoveryGood, Recovery!TailProbe
  PROVE  RecoveryGood'
<1> DEFINE d == [frame |-> Recovery!Last(cache), frag |-> Fragments]
<1>1. /\ recoveryAt' = recoveryAt /\ sent' = sent /\ wire' = wire \cup {d} /\ keys' = keys
      /\ control' = control /\ resent' = resent /\ losses' = losses
      /\ UNCHANGED Recovery!viewer
  BY DEF Recovery!TailProbe, Recovery!network
<1>2. /\ got' = got /\ nextId' = nextId /\ recoveryAsked' = recoveryAsked /\ whole' = whole
      /\ rounds' = rounds
  BY <1>1 DEF Recovery!viewer
<1>3. ~needKeyframe' /\ AskedMissing' /\ AllAsked'
  BY <1>1, WindowIdle DEF RecoveryGood
<1>4. d.frame = sent
  <2>1. recoveryAt = "waiting" /\ sent > 0 /\ sent \in Nat
    BY RecoveryConstants DEF Recovery!TailProbe, RecoveryTypes
  <2>2. Kept = sent
    BY <2>1 DEF Kept
  <2>3. cache # <<>> /\ cache \in Seq(Recovery!Frame) /\ \A k \in 1 .. Len(cache) : cache[k] = sent - Len(cache) + k
    BY <2>1, <2>2 DEF CacheInOrder
  <2>4. cache[Len(cache)] = sent
    BY <2>1, <2>3
  <2> QED
    BY <2>4 DEF Recovery!Last
<1> HIDE DEF d
<1>5. Unsent'
  <2>1. \A f \in Recovery!Frame, i \in Recovery!Frag : f > sent => Fragment(f, i) # d
    BY <1>4, RecoveryConstants, Datagrams DEF RecoveryTypes
  <2> QED
    BY ONLY <1>1, <1>2, <2>1, RecoveryGood DEF Unsent, RecoveryGood
<1>6. Traced' /\ Repeated'
  BY ONLY <1>1, <1>2, RecoveryGood DEF Traced, Repeated, Again, RecoveryGood
<1> QED
  BY ONLY <1>3, <1>5, <1>6 DEF RecoveryGood

LEMMA AnswerKeyframeKeeps ==
  ASSUME RecoveryGood, Recovery!AnswerKeyframe
  PROVE  RecoveryGood'
<1>1. /\ recoveryAt' = recoveryAt /\ sent' = sent /\ wire' = wire /\ keys' = keys
      /\ control' = control \ {Recovery!KeyframeRequest} /\ resent' = resent /\ losses' = losses
      /\ UNCHANGED Recovery!viewer
  BY DEF Recovery!AnswerKeyframe, Recovery!network
<1>2. /\ got' = got /\ nextId' = nextId /\ recoveryAsked' = recoveryAsked /\ whole' = whole
      /\ rounds' = rounds
  BY <1>1 DEF Recovery!viewer
<1>3. ~needKeyframe' /\ AskedMissing' /\ AllAsked'
  BY <1>1, WindowIdle DEF RecoveryGood
<1>4. Unsent' /\ Traced'
  BY ONLY <1>1, <1>2, RecoveryGood DEF Unsent, Traced, RecoveryGood
<1>5. \A f \in Recovery!Frame : \A i : InRequest(control, f, i) => InRequest(control', f, i)
  BY <1>1, RecoveryConstants DEF InRequest, Recovery!KeyframeRequest
<1>6. \A f \in Recovery!Frame : \A i : Again(f, i) => Again(f, i)'
  BY ONLY <1>1, <1>2, <1>5 DEF Again
<1>7. Repeated'
  BY ONLY <1>1, <1>2, <1>6, RecoveryGood DEF Repeated, RecoveryGood
<1> QED
  BY ONLY <1>3, <1>4, <1>7 DEF RecoveryGood

\* An answer has all that was asked for of a frame that is in the cache.
LEMMA AnswerNackKeeps ==
  ASSUME RecoveryTypes, CacheInOrder, RecoveryGood, NEW nack \in control,
         Recovery!AnswerNack(nack), ~evicted'
  PROVE  RecoveryGood'
<1> DEFINE answer == IF nack.frame \in Recovery!ToSet(cache) THEN Recovery!Wanted(nack) \ resent ELSE {}
<1>1. /\ recoveryAt' = recoveryAt /\ sent' = sent /\ keys' = keys
      /\ wire' = wire \cup answer /\ resent' = resent \cup answer
      /\ control' = control \ {nack} /\ losses' = losses
      /\ UNCHANGED Recovery!viewer
  BY DEF Recovery!AnswerNack, Recovery!network
<1>2. /\ got' = got /\ nextId' = nextId /\ recoveryAsked' = recoveryAsked /\ whole' = whole
      /\ rounds' = rounds
  BY <1>1 DEF Recovery!viewer
<1>3. ~needKeyframe' /\ AskedMissing' /\ AllAsked'
  BY <1>1, WindowIdle DEF RecoveryGood
<1>4. nack.frame \in Recovery!Frame /\ nack.frags \in SUBSET Recovery!Frag /\ nack.frame <= sent
  BY DEF Recovery!AnswerNack, RecoveryTypes, RecoveryGood, Unsent
<1>5. /\ \A d \in Recovery!Wanted(nack) : d.frame = nack.frame
      /\ \A i \in Recovery!Frag : nack.frags = {} \/ i \in nack.frags =>
           Fragment(nack.frame, i) \in Recovery!Wanted(nack)
  <2>1. CASE nack.frags = {}
    BY <1>4, <2>1, OfFrame DEF Recovery!Wanted
  <2>2. CASE nack.frags # {}
    BY <1>4, <2>2 DEF Recovery!Wanted, Fragment
  <2> QED
    BY <2>1, <2>2
<1>6. ASSUME ~(recoveryAt = "out" /\ nack.frame = sent) PROVE nack.frame \in Recovery!ToSet(cache)
  <2>1. sent \in Nat /\ nack.frame \in Nat \ {0}
    BY <1>4, RecoveryConstants DEF RecoveryTypes
  <2>2. nack.frame <= Kept /\ Kept \in Nat /\ Kept # 0
    BY <1>4, <1>6, <2>1 DEF Kept
  <2>3. /\ cache # <<>> /\ cache \in Seq(Recovery!Frame) /\ Len(cache) \in Nat /\ Len(cache) <= Kept
        /\ \A k \in 1 .. Len(cache) : cache[k] = Kept - Len(cache) + k
    BY <2>2 DEF CacheInOrder
  <2>4. ~(nack.frame < cache[1])
    BY <2>3 DEF Recovery!AnswerNack
  <2>5. cache[1] = Kept - Len(cache) + 1
    BY <2>3
  <2> DEFINE k == nack.frame - (Kept - Len(cache))
  <2>6. k \in 1 .. Len(cache) /\ cache[k] = nack.frame
    BY <2>1, <2>2, <2>3, <2>4, <2>5
  <2> HIDE DEF k
  <2>7. DOMAIN cache = 1 .. Len(cache)
    BY <2>3
  <2> QED
    BY ONLY <2>6, <2>7 DEF Recovery!ToSet
<1> HIDE DEF answer
<1>7. \A f \in Recovery!Frame, i \in Recovery!Frag : Fragment(f, i) \in answer => f = nack.frame
  BY <1>5, Datagrams DEF answer
<1>8. Unsent'
  <2>1. \A f \in Recovery!Frame, i \in Recovery!Frag : f > sent => Fragment(f, i) \notin answer
    BY <1>4, <1>7, RecoveryConstants DEF RecoveryTypes
  <2> QED
    BY ONLY <1>1, <1>2, <2>1, RecoveryGood DEF Unsent, RecoveryGood
<1>9. Traced'
  BY ONLY <1>1, <1>2, RecoveryGood DEF Traced, RecoveryGood
<1>10. ASSUME NEW f \in Recovery!Frame, rounds[f] > 1, NEW i \in Recovery!Frag PROVE Again(f, i)'
  <2>1. ~(recoveryAt = "out" /\ f = sent) /\ Again(f, i)
    BY <1>10 DEF RecoveryGood, Repeated
  <2>2. Fragment(f, i) \in resent => Fragment(f, i) \in wire'
        \/ ~(nextId <= f /\ i \notin got[f])
    BY <1>1, <2>1 DEF Again
  <2>3. InRequest(control, f, i) => InRequest(control', f, i) \/ Fragment(f, i) \in answer \cup resent
    <3>1. ASSUME nack.frame = f, nack.frags = {} \/ i \in nack.frags
          PROVE  Fragment(f, i) \in answer \cup resent
      BY <1>5, <1>6, <2>1, <3>1 DEF answer
    <3> QED
      BY ONLY <3>1, <1>1 DEF InRequest
  <2> QED
    BY ONLY <1>1, <1>2, <2>1, <2>2, <2>3 DEF Again
<1>11. Repeated'
  BY ONLY <1>1, <1>2, <1>10, RecoveryGood DEF Repeated, RecoveryGood
<1> QED
  BY ONLY <1>3, <1>8, <1>9, <1>11 DEF RecoveryGood

LEMMA LoseKeeps ==
  ASSUME RecoveryTypes, RecoveryGood, NEW d \in wire, Recovery!Lose(d),
         \A e \in Recovery!Datagram : losses'[e] <= 1
  PROVE  RecoveryGood'
<1>1. /\ recoveryAt' = recoveryAt /\ sent' = sent /\ wire' = wire \ {d} /\ keys' = keys
      /\ control' = control /\ resent' = resent /\ losses' = [losses EXCEPT ![d] = @ + 1]
      /\ UNCHANGED Recovery!viewer
  BY DEF Recovery!Lose, Recovery!host
<1>2. /\ got' = got /\ nextId' = nextId /\ recoveryAsked' = recoveryAsked /\ whole' = whole
      /\ rounds' = rounds
  BY <1>1 DEF Recovery!viewer
<1>3. ~needKeyframe' /\ AskedMissing' /\ AllAsked'
  BY <1>1, WindowIdle DEF RecoveryGood
<1>4. d \in Recovery!Datagram /\ losses \in [Recovery!Datagram -> Nat]
  BY DEF RecoveryTypes
<1>5. losses[d] = 0 /\ losses'[d] = 1 /\ \A e \in Recovery!Datagram : e # d => losses'[e] = losses[e]
  <2>1. losses'[d] = losses[d] + 1 /\ losses'[d] <= 1 /\ losses[d] \in Nat
    BY <1>1, <1>4
  <2>2. \A e \in Recovery!Datagram : e # d => losses'[e] = losses[e]
    BY <1>1, <1>4
  <2> QED
    BY ONLY <2>1, <2>2
<1>6. Unsent'
  BY ONLY <1>1, <1>2, RecoveryGood DEF Unsent, RecoveryGood
<1>7. \A f \in Recovery!Frame, i \in Recovery!Frag : Fragment(f, i) \in Recovery!Datagram
  BY Datagrams
<1>8. Traced'
  BY ONLY <1>1, <1>2, <1>5, <1>7, RecoveryGood DEF Traced, RecoveryGood
<1>9. ASSUME NEW f \in Recovery!Frame, NEW i \in Recovery!Frag, Again(f, i) PROVE Again(f, i)'
  <2>1. nextId <= f /\ i \notin got[f] => Fragment(f, i) # d
    BY <1>5, <1>9 DEF Again
  <2> QED
    BY ONLY <1>1, <1>2, <1>5, <1>7, <1>9, <2>1 DEF Again
<1>10. Repeated'
  BY ONLY <1>1, <1>2, <1>9, RecoveryGood DEF Repeated, RecoveryGood
<1> QED
  BY ONLY <1>3, <1>6, <1>8, <1>10 DEF RecoveryGood

\* What comes in, or is due again, is asked for in time.
LEMMA ReceiveKeeps ==
  ASSUME RecoveryTypes, RecoveryGood, NEW d \in wire, Recovery!Receive(d)
  PROVE  RecoveryGood'
<1> DEFINE g == IF d.frame < nextId THEN got ELSE [got EXCEPT ![d.frame] = @ \cup {d.frag}]
           n == Recovery!Released(g, nextId, needKeyframe)
           need == needKeyframe /\ n = nextId
<1>1. /\ got' = g /\ nextId' = n /\ wire' = wire \ {d} /\ needKeyframe' = need
      /\ Recovery!Request(g, n, need, 0, {})
  BY DEF Recovery!Receive, Recovery!Deliver
<1>2. /\ recoveryAt' = recoveryAt /\ sent' = sent /\ keys' = keys /\ resent' = resent
      /\ losses' = losses
  BY DEF Recovery!Receive, Recovery!host, Recovery!network
<1>3. n \in nextId .. RecoveryMaxFrames + 1 /\ nextId \in Nat
  BY ReleasedIs, RecoveryConstants DEF RecoveryTypes
<1>4. need = FALSE
  BY DEF RecoveryGood
<1>5. /\ d \in Recovery!Datagram /\ d.frame \in Recovery!Frame /\ d.frag \in Recovery!Frag
      /\ d = Fragment(d.frame, d.frag)
  BY Datagrams DEF RecoveryTypes
<1>6. /\ g \in [Recovery!Frame -> SUBSET Recovery!Frag]
      /\ \A f \in Recovery!Frame : got[f] \subseteq g[f] /\ (f # d.frame => g[f] = got[f])
      /\ d.frame >= nextId => d.frag \in g[d.frame]
  BY <1>5, RecoveryConstants DEF RecoveryTypes
<1> HIDE DEF g, n, need
<1>7. Recovery!Request(g, n, FALSE, 0, {})
  BY <1>1, <1>4
<1>8. AskedMissing /\ Unsent /\ Traced /\ Repeated
  BY DEF RecoveryGood
<1>9. d.frame <= sent
  BY <1>5, <1>8, RecoveryConstants DEF Unsent, RecoveryTypes
<1>10. \A f \in Recovery!Frame : f > sent => g[f] = {}
  <2>1. \A f \in Recovery!Frame : f > sent => f # d.frame
    BY <1>9, RecoveryConstants DEF RecoveryTypes
  <2> QED
    BY <2>1, <1>6, <1>8 DEF Unsent
<1>11. ASSUME NEW f \in Recovery!Frame
       PROVE  /\ recoveryAsked'[f] \subseteq g[f] \cup Recovery!Missing(g, f)
              /\ f \in whole' => Behind(g, f)
              /\ g[f] = {} /\ f \notin whole' => rounds'[f] = 0
              /\ f # 0 /\ rounds'[f] > 1 => rounds[f] > 1
              /\ Recovery!Missing(g, f) # {} /\ Recovery!Useful(g, n, FALSE, f) =>
                   IF g[f] = {} THEN f \in whole' ELSE Recovery!Missing(g, f) \subseteq recoveryAsked'[f]
  BY <1>6, <1>7, <1>8, AskedKept
<1>12. AskedMissing'
  BY ONLY <1>1, <1>11 DEF AskedMissing
<1>13. AllAsked'
  <2>1. ASSUME NEW f \in Recovery!Frame, Recovery!Useful(got, nextId, FALSE, f)'
        PROVE  Recovery!Useful(g, n, FALSE, f)
    BY <1>1, <1>2, <2>1 DEF Recovery!Useful
  <2> QED
    BY ONLY <1>1, <1>11, <2>1 DEF AllAsked
<1>14. Asking(g, n, 0)
  BY <1>6, <1>7, RequestAsks
<1>15. /\ control \subseteq control'
       /\ \A r \in control' \ control : r.frame \in Recovery!Frame /\ Recovery!Missing(g, r.frame) # {}
  BY <1>6, <1>7, RequestAlone
<1>16. Unsent'
  <2>1. \A f \in Recovery!Frame : Recovery!Missing(g, f) # {} => f <= sent
    BY <1>6, <1>10, MissingSent
  <2>2. \A r \in control' : r.frame <= sent
    BY ONLY <2>1, <1>15, <1>8 DEF Unsent
  <2>3. \A f \in Recovery!Frame : rounds'[f] # rounds[f] => Recovery!Missing(g, f) # {}
    BY ONLY <1>14 DEF Asking
  <2>4. \A f \in Recovery!Frame : f > sent => ~(f <= sent)
    BY RecoveryConstants DEF RecoveryTypes
  <2> QED
    BY ONLY <1>1, <1>2, <1>8, <1>10, <2>1, <2>2, <2>3, <2>4 DEF Unsent
<1>17. ASSUME NEW f \in Recovery!Frame, NEW i \in Recovery!Frag, n <= f, i \notin g[f]
       PROVE  /\ nextId <= f /\ i \notin got[f]
              /\ Fragment(f, i) \in wire => Fragment(f, i) \in wire'
  <2>1. nextId <= f
    BY <1>3, <1>17, RecoveryConstants
  <2>2. i \notin got[f]
    BY <1>6, <1>17
  <2>3. Fragment(f, i) # d
    BY <1>6, <1>17, <2>1, Datagrams
  <2> QED
    BY ONLY <2>1, <2>2, <2>3, <1>1
<1>18. Traced'
  BY ONLY <1>1, <1>2, <1>8, <1>17 DEF Traced
<1>19. ASSUME NEW f \in Recovery!Frame, rounds'[f] > 1 PROVE rounds[f] > 1
  <2>1. f # 0
    BY RecoveryConstants
  <2> QED
    BY ONLY <1>11, <1>19, <2>1
<1>20. ASSUME NEW f \in Recovery!Frame, NEW i \in Recovery!Frag, Again(f, i) PROVE Again(f, i)'
  <2>1. InRequest(control, f, i) => InRequest(control', f, i)
    BY ONLY <1>15 DEF InRequest
  <2>2. i \in recoveryAsked'[f] \/ f \in whole' =>
          i \in recoveryAsked[f] \/ f \in whole \/ InRequest(control', f, i)
    BY ONLY <1>14, <1>20 DEF Asking
  <2> QED
    BY ONLY <1>1, <1>2, <1>17, <1>20, <2>1, <2>2 DEF Again
<1>21. Repeated'
  BY ONLY <1>2, <1>8, <1>19, <1>20 DEF Repeated
<1>22. ~needKeyframe'
  BY <1>1, <1>4
<1> QED
  BY ONLY <1>12, <1>13, <1>16, <1>18, <1>21, <1>22 DEF RecoveryGood

LEMMA RetryKeeps ==
  ASSUME RecoveryTypes, RecoveryGood, NEW due \in Recovery!Frame, Recovery!Retry(due)
  PROVE  RecoveryGood'
<1>1. /\ Recovery!Overdue(due) /\ rounds[due] < MaxRounds
      /\ Recovery!Request(got, nextId, needKeyframe, due, {})
      /\ resent' = {d \in resent : d.frame # due}
      /\ recoveryAt' = recoveryAt /\ sent' = sent /\ keys' = keys /\ wire' = wire /\ got' = got
      /\ nextId' = nextId /\ needKeyframe' = needKeyframe /\ losses' = losses
  BY DEF Recovery!Retry, Recovery!network
<1>2. /\ recoveryAt = "waiting" /\ Recovery!Missing(got, due) # {}
      /\ Recovery!Useful(got, nextId, needKeyframe, due)
      /\ \A d \in wire : d.frame # due
  BY <1>1 DEF Recovery!Overdue
<1>3. needKeyframe = FALSE
  BY DEF RecoveryGood, Recovery!Retry, Recovery!Useful
<1>4. got \in [Recovery!Frame -> SUBSET Recovery!Frag]
  BY DEF RecoveryTypes
<1>5. Recovery!Request(got, nextId, FALSE, due, {}) /\ Recovery!Useful(got, nextId, FALSE, due)
  BY <1>1, <1>2, <1>3
<1>6. AskedMissing /\ Unsent /\ Traced /\ Repeated
  BY DEF RecoveryGood
<1>7. ASSUME NEW f \in Recovery!Frame
      PROVE  /\ recoveryAsked'[f] \subseteq got[f] \cup Recovery!Missing(got, f)
             /\ f \in whole' => Behind(got, f)
             /\ got[f] = {} /\ f \notin whole' => rounds'[f] = 0
             /\ f # due /\ rounds'[f] > 1 => rounds[f] > 1
             /\ Recovery!Missing(got, f) # {} /\ Recovery!Useful(got, nextId, FALSE, f) =>
                  IF got[f] = {} THEN f \in whole' ELSE Recovery!Missing(got, f) \subseteq recoveryAsked'[f]
  BY <1>4, <1>5, <1>6, AskedKept
<1>8. AskedMissing'
  BY ONLY <1>1, <1>7 DEF AskedMissing
<1>9. AllAsked'
  <2>1. ASSUME NEW f \in Recovery!Frame, Recovery!Useful(got, nextId, FALSE, f)'
        PROVE  Recovery!Useful(got, nextId, FALSE, f)
    BY <1>1, <2>1 DEF Recovery!Useful
  <2> QED
    BY ONLY <1>1, <1>7, <2>1 DEF AllAsked
<1>10. Asking(got, nextId, due)
  BY <1>4, <1>5, RequestAsks
<1>11. /\ control \subseteq control'
       /\ \A r \in control' \ control : r.frame \in Recovery!Frame /\ Recovery!Missing(got, r.frame) # {}
  BY <1>4, <1>5, RequestAlone
<1>12. \A f \in Recovery!Frame : Recovery!Missing(got, f) # {} => f <= sent
  BY <1>4, <1>6, MissingSent DEF Unsent
<1>13. \A r \in Asks(got, nextId, FALSE, due, due) : r \in control' /\ r.frame = due
  BY <1>4, <1>5, RequestAlone
<1>14. Unsent'
  <2>1. \A r \in control' : r.frame <= sent
    BY ONLY <1>6, <1>11, <1>12 DEF Unsent
  <2>2. \A f \in Recovery!Frame : rounds'[f] # rounds[f] => Recovery!Missing(got, f) # {}
    BY ONLY <1>10 DEF Asking
  <2>3. \A f \in Recovery!Frame : f > sent => ~(f <= sent)
    BY RecoveryConstants DEF RecoveryTypes
  <2> QED
    BY ONLY <1>1, <1>6, <1>12, <2>1, <2>2, <2>3 DEF Unsent
<1>15. Traced'
  BY ONLY <1>1, <1>6 DEF Traced
<1>16. ASSUME NEW f \in Recovery!Frame, NEW i \in Recovery!Frag, Again(f, i) PROVE Again(f, i)'
  <2>1. InRequest(control, f, i) => InRequest(control', f, i)
    BY ONLY <1>11 DEF InRequest
  <2>2. i \in recoveryAsked'[f] \/ f \in whole' =>
          i \in recoveryAsked[f] \/ f \in whole \/ InRequest(control', f, i)
    BY ONLY <1>10, <1>16 DEF Asking
  <2>3. Fragment(f, i) \in resent' => Fragment(f, i) \in resent
    BY <1>1
  <2> QED
    BY ONLY <1>1, <1>16, <2>1, <2>2, <2>3 DEF Again
<1>17. ASSUME NEW i \in Recovery!Frag, nextId <= due, i \notin got[due]
       PROVE  /\ losses[Fragment(due, i)] >= 1
              /\ Fragment(due, i) \notin resent'
              /\ i \in recoveryAsked'[due] \/ due \in whole' => InRequest(control', due, i)
  <2>1. Fragment(due, i).frame = due
    BY Datagrams
  <2>2. Fragment(due, i) \notin resent' /\ Fragment(due, i) \notin wire
    BY <1>1, <1>2, <2>1
  <2>3. losses[Fragment(due, i)] >= 1
    BY <1>2, <1>6, <1>12, <1>17, <2>2 DEF Traced
  <2>4. CASE got[due] = {}
    <3>1. rounds[due] # MaxRounds
      BY <1>1, RecoveryConstants DEF RecoveryTypes
    <3>2. [frame |-> due, frags |-> {}] \in Asks(got, nextId, FALSE, due, due)
      BY <1>1, <1>2, <1>4, <1>5, <2>4, <3>1, AsksAll
    <3>3. InRequest(control', due, i)
      BY ONLY <1>13, <3>2 DEF InRequest
    <3> QED
      BY <2>2, <2>3, <3>3
  <2>5. CASE got[due] # {}
    <3>1. ASSUME i \in recoveryAsked'[due] \/ due \in whole' PROVE i \in Recovery!Missing(got, due)
      BY <1>4, <1>7, <1>17, <3>1, MissingNotHere
    <3>2. ASSUME i \in Recovery!Missing(got, due) PROVE InRequest(control', due, i)
      <4>1. PICK r \in Asks(got, nextId, FALSE, due, due) : i \in r.frags
        BY <1>1, <1>2, <1>4, <1>5, <2>5, <3>2, AsksAll
      <4>2. r.frame = due /\ r \in control'
        BY ONLY <1>13, <4>1
      <4> QED
        BY <4>1, <4>2 DEF InRequest
    <3> QED
      BY <2>2, <2>3, <3>1, <3>2
  <2> QED
    BY <2>4, <2>5
<1>18. \A i \in Recovery!Frag : Again(due, i)'
  BY ONLY <1>1, <1>17 DEF Again
<1>19. Repeated'
  <2>1. recoveryAt # "out"
    BY <1>2
  <2>2. \A f \in Recovery!Frame : f # due /\ rounds'[f] > 1 => rounds[f] > 1
    BY ONLY <1>7
  <2> QED
    BY ONLY <1>1, <1>6, <1>16, <1>18, <2>1, <2>2 DEF Repeated
<1>20. ~needKeyframe'
  BY <1>1, <1>3
<1> QED
  BY ONLY <1>8, <1>9, <1>14, <1>15, <1>19, <1>20 DEF RecoveryGood

\* A frame is given up only if something of it was lost twice.
LEMMA NoGiveUp ==
  ASSUME RecoveryTypes, RecoveryGood, MaxRounds > 1, NEW f \in Recovery!Frame, Recovery!GiveUp(f)
  PROVE  FALSE
<1>1. /\ Recovery!Missing(got, f) # {} /\ Recovery!Useful(got, nextId, needKeyframe, f)
      /\ nextId <= f /\ rounds[f] = MaxRounds
      /\ \A d \in wire : d.frame # f
      /\ \A r \in control : r.frame # f
  BY RecoveryConstants DEF Recovery!GiveUp, Recovery!Overdue, RecoveryTypes
<1>2. Recovery!Useful(got, nextId, FALSE, f)
  BY <1>1 DEF Recovery!Useful
<1>3. Recovery!Missing(got, f) \subseteq Recovery!Frag \ got[f]
  BY MissingNotHere DEF RecoveryTypes
<1>4. PICK i \in Recovery!Missing(got, f) : i \in recoveryAsked[f] \/ f \in whole
  BY <1>1, <1>2 DEF RecoveryGood, AllAsked
<1>5. Again(f, i)
  BY <1>1, <1>3 DEF RecoveryGood, Repeated
<1>6. Fragment(f, i) \in wire \/ InRequest(control, f, i)
  BY ONLY <1>1, <1>3, <1>4, <1>5 DEF Again
<1>7. Fragment(f, i).frame = f
  BY <1>3, Datagrams
<1> QED
  BY ONLY <1>1, <1>6, <1>7 DEF InRequest

LEMMA RecoveryInit ==
  ASSUME Recovery!Init
  PROVE  RecoveryInv
<1> USE DEF Recovery!Init
<1>1. RecoveryTypes
  BY RecoveryConstants DEF RecoveryTypes
<1>2. CacheInOrder
  BY DEF CacheInOrder, Kept
<1>3. /\ got = [f \in Recovery!Frame |-> {}] /\ recoveryAsked = [f \in Recovery!Frame |-> {}]
      /\ whole = {} /\ rounds = [f \in Recovery!Frame |-> 0] /\ sent = 0 /\ wire = {} /\ control = {}
      /\ got \in [Recovery!Frame -> SUBSET Recovery!Frag]
  OBVIOUS
<1>4. \A f \in Recovery!Frame : Recovery!Missing(got, f) = {}
  <2>1. \A f \in Recovery!Frame : ~Behind(got, f) /\ got[f] = {}
    BY <1>3 DEF Behind
  <2> QED
    BY ONLY <1>3, <2>1, MissingNotHere
<1>5. Unsent /\ AskedMissing
  BY ONLY <1>3 DEF Unsent, AskedMissing
<1>6. Traced
  BY <1>3, RecoveryConstants DEF Traced
<1>7. AllAsked
  BY ONLY <1>4 DEF AllAsked
<1>8. Repeated
  BY ONLY <1>3 DEF Repeated
<1>9. ~needKeyframe
  OBVIOUS
<1> QED
  BY ONLY <1>1, <1>2, <1>5, <1>6, <1>7, <1>8, <1>9 DEF RecoveryInv, RecoveryGood

LEMMA RecoveryStep ==
  ASSUME RecoveryInv, MaxRounds > 1, Recovery!Next
  PROVE  RecoveryInv'
<1>1. RecoveryTypes' /\ CacheInOrder'
  BY RecoveryTypesKept, CacheKept DEF RecoveryInv
<1>2. RecoveryTypes /\ CacheInOrder
  BY DEF RecoveryInv
<1>3. Once' => Once
  <2>1. evicted => evicted'
    BY DEF Recovery!Next, Recovery!Step, Recovery!Burst, Recovery!Insert, Recovery!TailProbe,
      Recovery!AnswerKeyframe, Recovery!AnswerNack, Recovery!Retry, Recovery!GiveUp,
      Recovery!Receive, Recovery!Lose
  <2>2. losses' = losses \/ \E d \in wire : losses' = [losses EXCEPT ![d] = @ + 1]
    BY DEF Recovery!Next, Recovery!Step, Recovery!Burst, Recovery!Insert, Recovery!TailProbe,
      Recovery!AnswerKeyframe, Recovery!AnswerNack, Recovery!Retry, Recovery!GiveUp,
      Recovery!Receive, Recovery!Lose, Recovery!network
  <2>3. \A d \in Recovery!Datagram : losses'[d] <= 1 => losses[d] <= 1
    BY <1>2, <2>2 DEF RecoveryTypes
  <2> QED
    BY ONLY <2>1, <2>3 DEF Once
<1>4. ASSUME Once' PROVE RecoveryGood'
  <2>1. RecoveryGood /\ ~evicted' /\ \A d \in Recovery!Datagram : losses'[d] <= 1
    BY <1>3, <1>4 DEF RecoveryInv, Once
  <2>2. ASSUME NEW f \in Recovery!Frame, Recovery!Retry(f) \/ Recovery!GiveUp(f) PROVE RecoveryGood'
    BY <1>2, <2>1, <2>2, RetryKeeps, NoGiveUp
  <2>3. ASSUME NEW d \in wire, Recovery!Receive(d) \/ Recovery!Lose(d) PROVE RecoveryGood'
    BY <1>2, <2>1, <2>3, ReceiveKeeps, LoseKeeps
  <2>4. ASSUME NEW nack \in control, Recovery!AnswerNack(nack) PROVE RecoveryGood'
    BY <1>2, <2>1, <2>4, AnswerNackKeeps
  <2>5. CASE Recovery!Burst \/ Recovery!Insert \/ Recovery!TailProbe \/ Recovery!AnswerKeyframe
    BY <1>2, <2>1, <2>5, BurstKeeps, InsertKeeps, TailProbeKeeps, AnswerKeyframeKeeps
  <2> QED
    BY <2>2, <2>3, <2>4, <2>5 DEF Recovery!Next, Recovery!Step
<1> QED
  BY ONLY <1>1, <1>4 DEF RecoveryInv

LEMMA RecoveryStutter ==
  ASSUME RecoveryInv, UNCHANGED recovery
  PROVE  RecoveryInv'
<1>1. /\ recoveryAt' = recoveryAt /\ sent' = sent /\ keys' = keys /\ cache' = cache
      /\ resent' = resent /\ probe' = probe /\ wire' = wire /\ control' = control /\ got' = got
      /\ nextId' = nextId /\ needKeyframe' = needKeyframe /\ recoveryAsked' = recoveryAsked
      /\ whole' = whole /\ rounds' = rounds /\ losses' = losses /\ evicted' = evicted
  BY DEF recovery
<1>2. RecoveryTypes' = RecoveryTypes
  BY ONLY <1>1 DEF RecoveryTypes
<1>3. CacheInOrder' = CacheInOrder
  BY ONLY <1>1 DEF CacheInOrder, Kept
<1>4. Once' = Once
  BY ONLY <1>1 DEF Once
<1>5. \A f : Recovery!Useful(got, nextId, FALSE, f)' = Recovery!Useful(got, nextId, FALSE, f)
  BY ONLY <1>1 DEF Recovery!Useful
<1>6. RecoveryGood => RecoveryGood'
  <2> SUFFICES ASSUME RecoveryGood PROVE RecoveryGood'
    OBVIOUS
  <2>1. Unsent' /\ Traced' /\ AskedMissing'
    BY ONLY <1>1, RecoveryGood DEF RecoveryGood, Unsent, Traced, AskedMissing
  <2>2. AllAsked'
    BY ONLY <1>1, <1>5, RecoveryGood DEF RecoveryGood, AllAsked
  <2>3. Repeated'
    BY ONLY <1>1, RecoveryGood DEF RecoveryGood, Repeated, Again
  <2>4. ~needKeyframe'
    BY ONLY <1>1, RecoveryGood DEF RecoveryGood
  <2> QED
    BY ONLY <2>1, <2>2, <2>3, <2>4 DEF RecoveryGood
<1> QED
  BY ONLY <1>2, <1>3, <1>4, <1>6, RecoveryInv DEF RecoveryInv

LEMMA OneLossEnough ==
  ASSUME RecoveryInv
  PROVE  Recovery!LossRecovered
<1>1. ASSUME needKeyframe PROVE ~Once
  BY <1>1 DEF RecoveryInv, RecoveryGood
<1>2. \A d \in Recovery!Datagram : ~(losses[d] <= 1) => losses[d] > 1
  BY DEF RecoveryInv, RecoveryTypes
<1> QED
  BY ONLY <1>1, <1>2 DEF Once, Recovery!LossRecovered

LEMMA RecoveryKept ==
  ASSUME MaxRounds > 1
  PROVE  Spec => []RecoveryInv
<1>1. Init => RecoveryInv
  BY RecoveryInit DEF Init
<1>2. RecoveryInv /\ [Next]_vars => RecoveryInv'
  <2>1. [Next]_vars => [Recovery!Next]_recovery
    BY DEF Next, vars
  <2> QED
    BY <2>1, RecoveryStep, RecoveryStutter
<1> QED
  BY <1>1, <1>2, PTL DEF Spec

\* A datagram lost once never costs a keyframe, however datagrams, requests and the
\* sender's bookkeeping are ordered, if the cache still holds its frame: for any
\* number of frames, datagrams of a frame and losses, as long as a frame is asked for
\* twice at least before it is given up.
THEOREM OneLossRecovers ==
  ASSUME MaxRounds > 1
  PROVE  Spec => []LossRecovered
<1>1. RecoveryInv => LossRecovered
  BY OneLossEnough DEF LossRecovered
<1> QED
  BY <1>1, RecoveryKept, PTL

-----------------------------------------------------------------------------
(* Presenter: the window shows the newest frame, through views that fit.   *)

\* An element of a sequence is of the set the sequence is over.
LEMMA Element ==
  ASSUME NEW S, NEW q \in Seq(S), NEW t \in 1 .. Len(q)
  PROVE  q[t] \in S
OBVIOUS

Viewed == [at : Addresses, slice : Presenter!Slice, of : Nat, by : {0, 1}]

\* What draw leaves behind fits a set of textures of which no two are at one address:
\* each view is of the one at its address, and for the processor in use.
Fits(p, all, H) ==
  /\ p = [processor |-> p.processor, built |-> p.built, views |-> p.views]
  /\ p.built \in {0, 1} /\ p.views \in Seq(Viewed)
  /\ p.processor # Presenter!None => p.processor.number \in {0, 1}
  /\ \A i \in DOMAIN p.views :
       /\ p.views[i].of \in H /\ all[p.views[i].of].at = p.views[i].at
       /\ p.processor # Presenter!None /\ p.views[i].by = p.processor.number

Apart(all, H) ==
  /\ H \in SUBSET (1 .. Len(all))
  /\ \A t, u \in H : all[t].at = all[u].at => t = u

LEMMA PresenterConstants ==
  /\ MaxViews \in Nat \ {0} /\ MaxTextures \in Nat \ {0}
  /\ Presenter!Slice \in SUBSET Nat /\ PresenterWindows \in SUBSET (Nat \ {0})
  /\ Presenter!None = <<>> /\ Presenter!Minimised = 0
  BY PartsAssumption DEF Presenter!Assumption, Presenter!Slice, Presenter!None, Presenter!Minimised

LEMMA ProcessorMade ==
  ASSUME NEW a, NEW b, NEW n
  PROVE  [input |-> a, output |-> b, number |-> n] # Presenter!None
<1>1. [input |-> a, output |-> b, number |-> n] # <<>>
  <2>1. DOMAIN [input |-> a, output |-> b, number |-> n] # {}
    OBVIOUS
  <2>2. DOMAIN <<>> = {}
    OBVIOUS
  <2> QED
    BY <2>1, <2>2
<1> QED
  BY <1>1 DEF Presenter!None

LEMMA ProcessorFits ==
  ASSUME NEW all, NEW H, NEW p, Fits(p, all, H), NEW coded, NEW w
  PROVE  /\ Fits(Presenter!EnsureProcessor(p, coded, w), all, H)
         /\ Presenter!EnsureProcessor(p, coded, w).processor # Presenter!None
         /\ Presenter!EnsureProcessor(p, coded, w).processor.input = coded
         /\ Presenter!EnsureProcessor(p, coded, w).processor.output = w
<1> DEFINE q == Presenter!EnsureProcessor(p, coded, w)
<1>1. CASE p.processor # Presenter!None /\ p.processor.input = coded /\ p.processor.output = w
  <2>1. q = p
    BY <1>1 DEF Presenter!EnsureProcessor
  <2> QED
    BY <1>1, <2>1
<1>2. CASE ~(p.processor # Presenter!None /\ p.processor.input = coded /\ p.processor.output = w)
  <2>1. q = [processor |-> [input |-> coded, output |-> w, number |-> 1 - p.built],
             built |-> 1 - p.built, views |-> <<>>]
    BY <1>2 DEF Presenter!EnsureProcessor
  <2>2. 1 - p.built \in {0, 1}
    BY DEF Fits
  <2>3. /\ q.processor = [input |-> coded, output |-> w, number |-> 1 - p.built]
        /\ q.built = 1 - p.built /\ q.views = <<>>
        /\ q = [processor |-> q.processor, built |-> q.built, views |-> q.views]
    BY <2>1
  <2>4. q.processor # Presenter!None /\ q.processor.number = 1 - p.built
        /\ q.processor.input = coded /\ q.processor.output = w
    BY <2>3, ProcessorMade
  <2>5. q.views \in Seq(Viewed) /\ DOMAIN q.views = {}
    BY <2>3
  <2> HIDE DEF q
  <2>6. Fits(q, all, H)
    BY <2>2, <2>3, <2>4, <2>5 DEF Fits
  <2> QED
    BY <2>4, <2>6 DEF q
<1> QED
  BY <1>1, <1>2

LEMMA NoProcessorFits ==
  ASSUME NEW all, NEW H, NEW p, Fits(p, all, H)
  PROVE  Fits(Presenter!NoProcessor(p), all, H)
<1> DEFINE q == Presenter!NoProcessor(p)
<1>1. q = [processor |-> Presenter!None, built |-> p.built, views |-> <<>>]
  <2>1. PICK a, b, c : p = [processor |-> a, built |-> b, views |-> c]
    BY DEF Fits
  <2>2. p.built = b
    BY <2>1
  <2>3. [p EXCEPT !.processor = Presenter!None] = [processor |-> Presenter!None, built |-> b, views |-> c]
    BY <2>1
  <2>4. \A r : r = [processor |-> Presenter!None, built |-> b, views |-> c] =>
          [r EXCEPT !.views = <<>>] = [processor |-> Presenter!None, built |-> b, views |-> <<>>]
    OBVIOUS
  <2>5. q = [[p EXCEPT !.processor = Presenter!None] EXCEPT !.views = <<>>]
    BY DEF Presenter!NoProcessor
  <2> QED
    BY ONLY <2>2, <2>3, <2>4, <2>5
<1>2. /\ q.processor = Presenter!None /\ q.built = p.built /\ q.views = <<>>
      /\ q = [processor |-> q.processor, built |-> q.built, views |-> q.views]
  BY <1>1
<1>3. q.views \in Seq(Viewed) /\ DOMAIN q.views = {}
  BY <1>2
<1> HIDE DEF q
<1>4. Fits(q, all, H)
  BY <1>2, <1>3 DEF Fits
<1> QED
  BY <1>4 DEF q

LEMMA RoomFits ==
  ASSUME NEW all, NEW H, NEW p, Fits(p, all, H)
  PROVE  Fits(Presenter!Room(p), all, H) /\ Presenter!Room(p).processor = p.processor
<1> DEFINE q == Presenter!Room(p)
           v == IF Len(p.views) >= MaxViews THEN <<>> ELSE p.views
<1>1. q = [processor |-> p.processor, built |-> p.built, views |-> v]
  BY DEF Fits, Presenter!Room
<1>2. /\ q.processor = p.processor /\ q.built = p.built /\ q.views = v
      /\ q = [processor |-> q.processor, built |-> q.built, views |-> q.views]
  BY <1>1
<1>3. v \in Seq(Viewed) /\ (DOMAIN v = {} \/ v = p.views)
  BY DEF Fits
<1> HIDE DEF q, v
<1>4. Fits(q, all, H)
  BY <1>2, <1>3 DEF Fits
<1> QED
  BY <1>2, <1>4 DEF q

\* The view that is drawn through, an old one or one made now, is of the texture
\* that is drawn.
LEMMA InputViewFits ==
  ASSUME NEW all, NEW H, Apart(all, H), NEW p, Fits(p, all, H), NEW t \in H,
         NEW slice \in Presenter!Slice, all[t].at \in Addresses, p.processor # Presenter!None,
         NEW buffers
  PROVE  /\ Fits(Presenter!InputView(p, t, slice, all), all, H)
         /\ Presenter!Blt(Presenter!InputView(p, t, slice, all), t, slice, all, buffers) =
              [texture |-> t, slice |-> slice,
               by |-> [input |-> p.processor.input, output |-> p.processor.output],
               size |-> buffers]
<1> DEFINE q == Presenter!InputView(p, t, slice, all)
           new == [at |-> all[t].at, slice |-> slice, of |-> t, by |-> p.processor.number]
           found == Presenter!ViewFor(q, all[t].at, slice)
<1>1. Fits(q, all, H) /\ q.processor = p.processor /\ found # {}
  <2>1. CASE Presenter!ViewFor(p, all[t].at, slice) # {}
    BY <2>1 DEF Presenter!InputView
  <2>2. CASE Presenter!ViewFor(p, all[t].at, slice) = {}
    <3> DEFINE old == Presenter!Room(p).views
    <3>1. q = [processor |-> p.processor, built |-> p.built, views |-> Append(old, new)]
      BY <2>2 DEF Fits, Presenter!InputView
    <3>2. /\ q.processor = p.processor /\ q.built = p.built /\ q.views = Append(old, new)
          /\ q = [processor |-> q.processor, built |-> q.built, views |-> q.views]
      BY <3>1
    <3>3. Fits(Presenter!Room(p), all, H) /\ Presenter!Room(p).processor = p.processor
      BY RoomFits
    <3>4. new \in Viewed
      BY DEF Viewed, Fits, Apart
    <3>5. /\ old \in Seq(Viewed)
          /\ \A i \in DOMAIN old :
               /\ old[i].of \in H /\ all[old[i].of].at = old[i].at
               /\ old[i].by = p.processor.number
      BY <3>3 DEF Fits
    <3>6. new.of = t /\ new.at = all[t].at /\ new.by = p.processor.number /\ new.slice = slice
      OBVIOUS
    <3> HIDE DEF q, old, new
    <3>7. /\ q.views \in Seq(Viewed) /\ DOMAIN q.views = 1 .. Len(old) + 1
          /\ \A i \in 1 .. Len(old) : q.views[i] = old[i]
          /\ q.views[Len(old) + 1] = new /\ DOMAIN old = 1 .. Len(old) /\ Len(old) \in Nat
      BY <3>2, <3>4, <3>5
    <3>8. \A i \in DOMAIN q.views : q.views[i] = new \/ \E j \in DOMAIN old : q.views[i] = old[j]
      BY <3>7
    <3>9. \A i \in DOMAIN q.views :
            /\ q.views[i].of \in H /\ all[q.views[i].of].at = q.views[i].at
            /\ q.views[i].by = p.processor.number
      BY ONLY <3>5, <3>6, <3>8, t \in H
    <3>10. Fits(q, all, H)
      BY ONLY <3>2, <3>7, <3>9, Fits(p, all, H), p.processor # Presenter!None DEF Fits
    <3>11. Len(old) + 1 \in found
      BY <3>6, <3>7 DEF Presenter!ViewFor
    <3> QED
      BY <3>2, <3>10, <3>11 DEF q
  <2> QED
    BY <2>1, <2>2
<1> HIDE DEF q
<1>2. /\ found \in SUBSET Nat
      /\ \A i \in found : i \in DOMAIN q.views /\ q.views[i].at = all[t].at /\ q.views[i].slice = slice
  BY <1>1 DEF Presenter!ViewFor, Fits
<1>3. PICK m \in found : \A j \in found : m <= j
  BY <1>1, <1>2, LeastElement
<1> DEFINE first == CHOOSE i \in found : \A j \in found : i <= j
           seen == q.views[first]
<1>4. first \in found
  BY <1>3
<1>5. first \in DOMAIN q.views /\ seen.at = all[t].at /\ seen.slice = slice
  BY <1>2, <1>4
<1>6. /\ seen.of \in H /\ all[seen.of].at = seen.at /\ seen.by = q.processor.number
  BY <1>1, <1>5 DEF Fits
<1>7. seen.of = t
  BY <1>5, <1>6 DEF Apart
<1>8. Presenter!Blt(q, t, slice, all, buffers) =
        [texture |-> IF seen.by = q.processor.number THEN seen.of ELSE 0, slice |-> seen.slice,
         by |-> [input |-> q.processor.input, output |-> q.processor.output],
         size |-> buffers]
  BY DEF Presenter!Blt
<1> HIDE DEF seen
<1>9. Presenter!Blt(q, t, slice, all, buffers) =
        [texture |-> t, slice |-> slice,
         by |-> [input |-> p.processor.input, output |-> p.processor.output],
         size |-> buffers]
  BY <1>1, <1>5, <1>6, <1>7, <1>8
<1> QED
  BY <1>1, <1>9 DEF q

\* What is left of the presenter by a call.
NowNext == [processor |-> processor', built |-> built', views |-> views']

LEMMA LeftIs ==
  ASSUME NEW p, p = [processor |-> p.processor, built |-> p.built, views |-> p.views], Presenter!Left(p)
  PROVE  NowNext = p
  BY DEF Presenter!Left, NowNext

LEMMA FitsIs ==
  ASSUME NEW p, NEW all, NEW H, Fits(p, all, H)
  PROVE  p = [processor |-> p.processor, built |-> p.built, views |-> p.views]
  BY DEF Fits

LEMMA DrawFits ==
  ASSUME NEW all, NEW H, Apart(all, H), Fits(Presenter!Now, all, H), NEW s, s.texture \in H,
         s.slice \in Presenter!Slice, all[s.texture].at \in Addresses, NEW buffers, NEW wanted,
         Presenter!Draw(s, all, buffers, wanted)
  PROVE  /\ Fits(NowNext, all, H)
         /\ screen' = [texture |-> s.texture, slice |-> s.slice,
                       by |-> [input |-> all[s.texture].size, output |-> wanted], size |-> buffers]
<1> DEFINE p == Presenter!EnsureProcessor(Presenter!Now, all[s.texture].size, wanted)
           q == Presenter!InputView(p, s.texture, s.slice, all)
<1>1. Presenter!Left(q) /\ screen' = Presenter!Blt(q, s.texture, s.slice, all, buffers)
  BY DEF Presenter!Draw
<1>2. /\ Fits(p, all, H) /\ p.processor # Presenter!None
      /\ p.processor.input = all[s.texture].size /\ p.processor.output = wanted
  BY ProcessorFits
<1> HIDE DEF p
<1>3. /\ Fits(q, all, H)
      /\ Presenter!Blt(q, s.texture, s.slice, all, buffers) =
           [texture |-> s.texture, slice |-> s.slice,
            by |-> [input |-> p.processor.input, output |-> p.processor.output], size |-> buffers]
  BY <1>2, InputViewFits
<1> HIDE DEF q
<1>4. NowNext = q
  BY <1>1, <1>3, FitsIs, LeftIs
<1> QED
  BY <1>1, <1>2, <1>3, <1>4

LEMMA DrawFailsFits ==
  ASSUME NEW all, NEW H, Apart(all, H), Fits(Presenter!Now, all, H), NEW s, s.texture \in H,
         s.slice \in Presenter!Slice, all[s.texture].at \in Addresses, NEW wanted,
         Presenter!DrawFails(s, all, wanted)
  PROVE  Fits(NowNext, all, H)
<1> DEFINE p == Presenter!EnsureProcessor(Presenter!Now, all[s.texture].size, wanted)
           q == Presenter!InputView(p, s.texture, s.slice, all)
<1>1. PICK r \in {Presenter!NoProcessor(p), p, Presenter!Room(p), q} : Presenter!Left(r)
  BY DEF Presenter!DrawFails
<1>2. Fits(p, all, H) /\ p.processor # Presenter!None
  BY ProcessorFits
<1> HIDE DEF p
<1>3. Fits(Presenter!NoProcessor(p), all, H) /\ Fits(Presenter!Room(p), all, H)
  BY <1>2, NoProcessorFits, RoomFits
<1>4. Fits(q, all, H)
  BY <1>2, InputViewFits
<1> HIDE DEF q
<1>5. Fits(r, all, H)
  BY <1>1, <1>2, <1>3, <1>4
<1>6. NowNext = r
  BY <1>1, <1>5, FitsIs, LeftIs
<1> QED
  BY <1>5, <1>6

TexturesFit ==
  /\ presenterMade \in Nat /\ Len(textures) = presenterMade
  /\ textures \in Seq([at : Addresses, size : Codeds])
  /\ decoders \in 0 .. presenterMade /\ presenterUpload \in 0 .. presenterMade
  /\ presenterShown # Presenter!None =>
       presenterShown.texture \in 1 .. presenterMade /\ presenterShown.slice \in Presenter!Slice

InUse == Presenter!Held \ {0}

\* The window's size is the presenter's, and the buffers', unless a resize failed.
SizesAgree ==
  /\ Presenter!Running /\ presenterWindow # Presenter!Minimised => size = presenterWindow
  /\ Presenter!Running /\ ~missed => chain = size
  /\ chain = 0 => presenterShown = Presenter!None

PresenterInv ==
  /\ TexturesFit /\ Fits(Presenter!Now, textures, InUse) /\ Apart(textures, InUse)
  /\ SizesAgree /\ Presenter!ScreenCurrent

\* A texture that is made is at an address of its own.
LEMMA Created ==
  ASSUME TexturesFit, Apart(textures, InUse), Fits(Presenter!Now, textures, InUse),
         NEW coded \in Codeds, Presenter!CreateTexture(coded)
  PROVE  /\ textures' \in Seq([at : Addresses, size : Codeds]) /\ Len(textures') = presenterMade'
         /\ presenterMade' = presenterMade + 1
         /\ \A t \in 1 .. presenterMade : textures'[t] = textures[t]
         /\ Apart(textures', InUse \cup {presenterMade + 1})
         /\ Fits(Presenter!Now, textures', InUse \cup {presenterMade + 1})
<1>1. PICK a \in Presenter!Vacant : textures' = Append(textures, [at |-> a, size |-> coded])
  BY DEF Presenter!CreateTexture
<1>2. a \in Addresses /\ \A t \in InUse : textures[t].at # a
  BY <1>1 DEF Presenter!Vacant, InUse
<1> DEFINE new == [at |-> a, size |-> coded]
<1>3. new \in [at : Addresses, size : Codeds] /\ new.at = a
  BY <1>2
<1> HIDE DEF new
<1>4. presenterMade' = presenterMade + 1 /\ textures' = Append(textures, new)
  BY <1>1 DEF Presenter!CreateTexture, new
<1>5. presenterMade \in Nat /\ Len(textures) = presenterMade /\ textures \in Seq([at : Addresses, size : Codeds])
  BY DEF TexturesFit
<1>6. /\ textures' \in Seq([at : Addresses, size : Codeds]) /\ Len(textures') = presenterMade + 1
      /\ \A t \in 1 .. presenterMade : textures'[t] = textures[t]
      /\ textures'[presenterMade + 1] = new
  BY <1>3, <1>4, <1>5
<1>7. InUse \in SUBSET (1 .. presenterMade)
  BY <1>5 DEF Apart
<1>8. Apart(textures', InUse \cup {presenterMade + 1})
  <2>1. InUse \cup {presenterMade + 1} \in SUBSET (1 .. Len(textures'))
    BY <1>5, <1>6, <1>7
  <2>2. ASSUME NEW t \in InUse \cup {presenterMade + 1}, NEW u \in InUse \cup {presenterMade + 1},
               textures'[t].at = textures'[u].at
        PROVE  t = u
    <3>1. \A v \in InUse : textures'[v] = textures[v] /\ textures[v].at # a
      BY <1>2, <1>6, <1>7
    <3> QED
      BY <1>3, <1>6, <2>2, <3>1 DEF Apart
  <2> QED
    BY <2>1, <2>2 DEF Apart
<1>9. Fits(Presenter!Now, textures', InUse \cup {presenterMade + 1})
  <2>1. \A v \in InUse : textures'[v] = textures[v]
    BY <1>6, <1>7
  <2> QED
    BY ONLY <2>1, Fits(Presenter!Now, textures, InUse) DEF Fits
<1> QED
  BY <1>4, <1>6, <1>8, <1>9

\* What is in use after a step is of a set that is apart.
LEMMA UseFits ==
  ASSUME NEW H, Apart(textures', H), Fits(NowNext, textures', H),
         decoders' \in H \cup {0}, presenterUpload' \in H \cup {0},
         presenterShown' # Presenter!None => presenterShown'.texture \in H
  PROVE  Fits(Presenter!Now, textures, InUse)' /\ Apart(textures, InUse)'
<1>1. views' = NowNext.views
  BY DEF NowNext
<1>2. \A i \in DOMAIN views' : views'[i].of \in H
  BY <1>1 DEF Fits
<1>3. 0 \notin H
  BY DEF Apart
<1> DEFINE D == {decoders', presenterUpload'}
           S == IF presenterShown' = Presenter!None THEN {} ELSE {presenterShown'.texture}
           V == {views'[i].of : i \in DOMAIN views'}
<1>4. InUse' = (D \cup S \cup V) \ {0}
  BY DEF InUse, Presenter!Held
<1>5. InUse' \subseteq H /\ \A i \in DOMAIN views' : views'[i].of \in InUse'
  BY <1>2, <1>3, <1>4
<1>6. Apart(textures', InUse')
  BY ONLY <1>5, Apart(textures', H) DEF Apart
<1>7. Fits(NowNext, textures', InUse')
  BY ONLY <1>1, <1>5, Fits(NowNext, textures', H) DEF Fits
<1>8. Presenter!Now' = NowNext
  BY DEF Presenter!Now, NowNext
<1> QED
  BY <1>6, <1>7, <1>8

LEMMA PresenterInit ==
  ASSUME Presenter!Init
  PROVE  PresenterInv
<1> USE DEF Presenter!Init
<1>1. TexturesFit
  BY DEF TexturesFit
<1>2. Presenter!Now = [processor |-> <<>>, built |-> 0, views |-> <<>>]
  BY DEF Presenter!Now, Presenter!None
<1>3. /\ Presenter!Now.processor = Presenter!None /\ Presenter!Now.built = 0 /\ Presenter!Now.views = <<>>
      /\ Presenter!Now = [processor |-> Presenter!Now.processor, built |-> Presenter!Now.built, views |-> Presenter!Now.views]
  BY <1>2 DEF Presenter!None
<1>4. Presenter!Now.views \in Seq(Viewed) /\ DOMAIN Presenter!Now.views = {}
  BY <1>3
<1>5. Fits(Presenter!Now, textures, InUse)
  BY ONLY <1>3, <1>4 DEF Fits
<1>6. InUse = {}
  BY DEF InUse, Presenter!Held
<1>7. Apart(textures, InUse)
  BY <1>6 DEF Apart
<1>8. SizesAgree /\ Presenter!ScreenCurrent
  BY DEF SizesAgree, Presenter!Running, Presenter!ScreenCurrent
<1> QED
  BY <1>1, <1>5, <1>7, <1>8 DEF PresenterInv

LEMMA DecoderBeginsKeeps ==
  ASSUME PresenterInv, Presenter!DecoderBegins
  PROVE  PresenterInv'
<1>1. PICK coded \in Codeds : Presenter!CreateTexture(coded)
  BY DEF Presenter!DecoderBegins
<1>2. /\ decoders' = presenterMade + 1
      /\ chain' = chain /\ size' = size /\ processor' = processor /\ built' = built /\ views' = views
      /\ presenterUpload' = presenterUpload /\ presenterShown' = presenterShown
      /\ presenterWindow' = presenterWindow /\ screen' = screen /\ missed' = missed /\ gone' = gone
  BY DEF Presenter!DecoderBegins, Presenter!presenter
<1>3. TexturesFit /\ Fits(Presenter!Now, textures, InUse) /\ Apart(textures, InUse)
  BY DEF PresenterInv
<1>4. /\ textures' \in Seq([at : Addresses, size : Codeds]) /\ Len(textures') = presenterMade'
      /\ presenterMade' = presenterMade + 1
      /\ \A t \in 1 .. presenterMade : textures'[t] = textures[t]
      /\ Apart(textures', InUse \cup {presenterMade + 1})
      /\ Fits(Presenter!Now, textures', InUse \cup {presenterMade + 1})
  BY <1>1, <1>3, Created
<1>5. NowNext = Presenter!Now
  BY <1>2 DEF NowNext, Presenter!Now
<1>6. presenterUpload \in InUse \cup {0} /\ (presenterShown # Presenter!None => presenterShown.texture \in InUse)
  BY <1>3 DEF InUse, Presenter!Held, TexturesFit
<1>7. Fits(Presenter!Now, textures, InUse)' /\ Apart(textures, InUse)'
  BY <1>2, <1>4, <1>5, <1>6, UseFits
<1>8. TexturesFit'
  BY <1>2, <1>3, <1>4 DEF TexturesFit
<1>9. SizesAgree'
  BY ONLY <1>2, PresenterInv DEF PresenterInv, SizesAgree, Presenter!Running
<1>10. Presenter!ScreenCurrent'
  <2>1. presenterShown # Presenter!None => textures'[presenterShown.texture] = textures[presenterShown.texture]
    BY <1>3, <1>4 DEF TexturesFit
  <2> QED
    BY ONLY <1>2, <2>1, PresenterInv DEF PresenterInv, Presenter!ScreenCurrent, Presenter!Running
<1> QED
  BY <1>7, <1>8, <1>9, <1>10 DEF PresenterInv

\* Where the frame that is to be shown is: in the decoder's texture, or uploaded.
LEMMA GivenFits ==
  ASSUME TexturesFit, Apart(textures, InUse), Fits(Presenter!Now, textures, InUse),
         NEW s, Presenter!Given(s)
  PROVE  \E H : /\ Apart(textures', H) /\ Fits(Presenter!Now, textures', H) /\ InUse \subseteq H
                /\ s.texture \in H /\ presenterUpload' \in H \cup {0}
                /\ presenterMade' \in Nat /\ Len(textures') = presenterMade'
                /\ presenterMade <= presenterMade'
                /\ textures' \in Seq([at : Addresses, size : Codeds])
                /\ \A t \in H : textures'[t].at \in Addresses
<1>1. /\ decoders \in InUse \cup {0} /\ presenterUpload \in InUse \cup {0}
      /\ decoders # 0 => decoders \in InUse
      /\ presenterUpload # 0 => presenterUpload \in InUse
  BY DEF InUse, Presenter!Held
<1>2. /\ presenterMade \in Nat /\ Len(textures) = presenterMade
      /\ textures \in Seq([at : Addresses, size : Codeds])
  BY DEF TexturesFit
<1>3. \A H : Apart(textures', H) /\ textures' \in Seq([at : Addresses, size : Codeds]) =>
        \A t \in H : textures'[t].at \in Addresses
  <2>1. ASSUME NEW H, Apart(textures', H), textures' \in Seq([at : Addresses, size : Codeds]), NEW t \in H
        PROVE  textures'[t].at \in Addresses
    <3>1. t \in 1 .. Len(textures')
      BY <2>1 DEF Apart
    <3>2. textures'[t] \in [at : Addresses, size : Codeds]
      BY ONLY <2>1, <3>1, Element
    <3> QED
      BY <3>2
  <2> QED
    BY <2>1
<1>4. CASE /\ s.texture \in InUse /\ presenterUpload' = presenterUpload
           /\ textures' = textures /\ presenterMade' = presenterMade
  <2>1. Apart(textures', InUse) /\ Fits(Presenter!Now, textures', InUse)
    BY ONLY <1>4, Apart(textures, InUse), Fits(Presenter!Now, textures, InUse)
  <2>2. textures' \in Seq([at : Addresses, size : Codeds]) /\ Len(textures') = presenterMade'
    BY ONLY <1>2, <1>4
  <2>3. \A t \in InUse : textures'[t].at \in Addresses
    BY ONLY <1>3, <2>1, <2>2
  <2>4. presenterMade' \in Nat /\ presenterMade <= presenterMade' /\ presenterUpload' \in InUse \cup {0}
    BY ONLY <1>1, <1>2, <1>4
  <2> QED
    BY ONLY <1>4, <2>1, <2>2, <2>3, <2>4
<1>5. ASSUME NEW coded \in Codeds, Presenter!CreateTexture(coded),
             s.texture = presenterMade + 1, presenterUpload' = presenterMade + 1
      PROVE  \E H : /\ Apart(textures', H) /\ Fits(Presenter!Now, textures', H) /\ InUse \subseteq H
                    /\ s.texture \in H /\ presenterUpload' \in H \cup {0}
                    /\ presenterMade' \in Nat /\ Len(textures') = presenterMade'
                    /\ presenterMade <= presenterMade'
                    /\ textures' \in Seq([at : Addresses, size : Codeds])
                    /\ \A t \in H : textures'[t].at \in Addresses
  <2> DEFINE H == InUse \cup {presenterMade + 1}
  <2>1. /\ textures' \in Seq([at : Addresses, size : Codeds]) /\ Len(textures') = presenterMade'
        /\ presenterMade' = presenterMade + 1
        /\ Apart(textures', H) /\ Fits(Presenter!Now, textures', H)
    BY <1>5, Created
  <2>2. \A t \in H : textures'[t].at \in Addresses
    BY <1>3, <2>1
  <2>3. InUse \subseteq H /\ s.texture \in H /\ presenterUpload' \in H
    BY <1>5
  <2>4. presenterMade' \in Nat /\ presenterMade <= presenterMade'
    BY <1>2, <2>1
  <2> HIDE DEF H
  <2> QED
    BY <2>1, <2>2, <2>3, <2>4
<1>6. CASE s.slice = 0
  <2>1. PICK coded \in Codeds : Presenter!Upload(coded)
    BY <1>6 DEF Presenter!Given, Presenter!Uploaded
  <2>2. s.texture = presenterUpload'
    BY <1>6 DEF Presenter!Given, Presenter!Uploaded
  <2>3. CASE presenterUpload # 0 /\ textures[presenterUpload].size = coded
    <3>1. presenterUpload' = presenterUpload /\ textures' = textures /\ presenterMade' = presenterMade
      BY <2>1, <2>3 DEF Presenter!Upload
    <3> QED
      BY <1>1, <1>4, <2>2, <2>3, <3>1
  <2>4. CASE ~(presenterUpload # 0 /\ textures[presenterUpload].size = coded)
    <3>1. Presenter!CreateTexture(coded) /\ presenterUpload' = presenterMade + 1
      BY <2>1, <2>4 DEF Presenter!Upload
    <3> QED
      BY <1>5, <2>2, <3>1
  <2> QED
    BY <2>3, <2>4
<1>7. CASE s.slice # 0
  <2>1. /\ decoders # 0 /\ s.texture = decoders
        /\ presenterUpload' = presenterUpload /\ textures' = textures /\ presenterMade' = presenterMade
    BY <1>7 DEF Presenter!Given, Presenter!OnGpu
  <2> QED
    BY <1>1, <1>4, <2>1
<1> QED
  BY <1>6, <1>7

LEMMA RenderFrameKeeps ==
  ASSUME PresenterInv, Presenter!RenderFrame
  PROVE  PresenterInv'
<1>1. PICK s \in [texture : Presenter!Texture, slice : Presenter!Slice] :
        /\ Presenter!Given(s) /\ presenterShown' = s
        /\ Presenter!Draw(s, textures', chain, size)
  BY DEF Presenter!RenderFrame
<1>2. /\ decoders' = decoders /\ chain' = chain /\ size' = size /\ presenterWindow' = presenterWindow
      /\ gone' = gone /\ Presenter!Running /\ missed' = (missed /\ chain # size)
  BY DEF Presenter!RenderFrame
<1>3. TexturesFit /\ Fits(Presenter!Now, textures, InUse) /\ Apart(textures, InUse) /\ SizesAgree
  BY DEF PresenterInv
<1>4. PICK H : /\ Apart(textures', H) /\ Fits(Presenter!Now, textures', H) /\ InUse \subseteq H
               /\ s.texture \in H /\ presenterUpload' \in H \cup {0}
               /\ presenterMade' \in Nat /\ Len(textures') = presenterMade'
               /\ presenterMade <= presenterMade'
               /\ textures' \in Seq([at : Addresses, size : Codeds])
               /\ \A t \in H : textures'[t].at \in Addresses
  BY <1>1, <1>3, GivenFits
<1>5. s.slice \in Presenter!Slice
  OBVIOUS
<1>6. /\ Fits(NowNext, textures', H)
      /\ screen' = [texture |-> s.texture, slice |-> s.slice,
                    by |-> [input |-> textures'[s.texture].size, output |-> size], size |-> chain]
  BY <1>1, <1>4, <1>5, DrawFits
<1>7. decoders' \in H \cup {0}
  BY <1>2, <1>4 DEF InUse, Presenter!Held
<1>8. Fits(Presenter!Now, textures, InUse)' /\ Apart(textures, InUse)'
  BY <1>1, <1>4, <1>6, <1>7, UseFits
<1>9. TexturesFit'
  <2>1. H \in SUBSET (1 .. presenterMade')
    BY <1>4 DEF Apart
  <2>2. presenterUpload' \in 0 .. presenterMade' /\ s.texture \in 1 .. presenterMade'
    <3>1. s.texture \in H /\ presenterUpload' \in H \cup {0} /\ presenterMade' \in Nat
      BY ONLY <1>4
    <3>2. s.texture \in 1 .. presenterMade'
      BY ONLY <2>1, <3>1
    <3>3. CASE presenterUpload' = 0
      BY ONLY <3>1, <3>2, <3>3
    <3>4. CASE presenterUpload' # 0
      <4>1. presenterUpload' \in 1 .. presenterMade'
        BY ONLY <2>1, <3>1, <3>4
      <4> QED
        BY ONLY <3>1, <3>2, <4>1
    <3> QED
      BY <3>3, <3>4
  <2>3. decoders' \in 0 .. presenterMade'
    BY <1>4, <1>7, <2>1
  <2> QED
    BY <1>1, <1>4, <1>5, <2>2, <2>3 DEF TexturesFit
<1>10. SizesAgree'
  <2>1. chain # 0 /\ Presenter!Running' = Presenter!Running
    BY <1>2 DEF Presenter!Running
  <2>2. ~missed' => chain = size
    BY ONLY <1>2, <1>3 DEF SizesAgree
  <2> QED
    BY ONLY <1>2, <1>3, <2>1, <2>2 DEF SizesAgree
<1>11. Presenter!ScreenCurrent'
  BY ONLY <1>1, <1>2, <1>6, <1>10 DEF Presenter!ScreenCurrent, SizesAgree
<1> QED
  BY <1>8, <1>9, <1>10, <1>11 DEF PresenterInv

LEMMA RenderFailsKeeps ==
  ASSUME Presenter!RenderFails
  PROVE  PresenterInv'
<1>1. /\ gone' = TRUE /\ presenterMade' = 0 /\ textures' = <<>> /\ decoders' = 0
      /\ chain' = 0 /\ processor' = Presenter!None /\ built' = 0 /\ views' = <<>>
      /\ presenterUpload' = 0 /\ presenterShown' = Presenter!None
  BY DEF Presenter!RenderFails
<1>2. TexturesFit'
  BY <1>1 DEF TexturesFit
<1>3. NowNext = [processor |-> Presenter!None, built |-> 0, views |-> <<>>]
  BY <1>1 DEF NowNext
<1>4. /\ NowNext.processor = Presenter!None /\ NowNext.built = 0 /\ NowNext.views = <<>>
      /\ NowNext = [processor |-> NowNext.processor, built |-> NowNext.built, views |-> NowNext.views]
  BY <1>3
<1>5. NowNext.views \in Seq(Viewed) /\ DOMAIN NowNext.views = {}
  BY <1>4
<1>6. Fits(NowNext, textures', {}) /\ Apart(textures', {})
  BY ONLY <1>4, <1>5 DEF Fits, Apart
<1>7. Fits(Presenter!Now, textures, InUse)' /\ Apart(textures, InUse)'
  BY <1>1, <1>6, UseFits
<1>8. SizesAgree' /\ Presenter!ScreenCurrent'
  BY <1>1 DEF SizesAgree, Presenter!Running, Presenter!ScreenCurrent
<1> QED
  BY <1>2, <1>7, <1>8 DEF PresenterInv

\* The window's steps leave the textures alone.
LEMMA TexturesStay ==
  ASSUME PresenterInv, Fits(NowNext, textures, InUse),
         UNCHANGED <<presenterMade, textures, decoders, presenterUpload, presenterShown>>
  PROVE  TexturesFit' /\ Fits(Presenter!Now, textures, InUse)' /\ Apart(textures, InUse)'
<1>1. /\ decoders' \in InUse \cup {0} /\ presenterUpload' \in InUse \cup {0}
      /\ presenterShown' # Presenter!None => presenterShown'.texture \in InUse
  BY DEF InUse, Presenter!Held, PresenterInv, TexturesFit
<1>2. Apart(textures', InUse) /\ Fits(NowNext, textures', InUse)
  BY DEF PresenterInv
<1>3. TexturesFit'
  BY DEF PresenterInv, TexturesFit
<1> QED
  BY <1>1, <1>2, <1>3, UseFits

LEMMA NothingDrawn ==
  ASSUME PresenterInv, UNCHANGED <<processor, built, views>>
  PROVE  Fits(NowNext, textures, InUse)
<1>1. NowNext = Presenter!Now
  BY DEF NowNext, Presenter!Now
<1> QED
  BY <1>1 DEF PresenterInv

\* What is shown is drawn again, from where it is.
LEMMA ShownFits ==
  ASSUME PresenterInv, presenterShown # Presenter!None
  PROVE  /\ presenterShown.texture \in InUse /\ presenterShown.slice \in Presenter!Slice
         /\ textures[presenterShown.texture].at \in Addresses
<1>1. presenterShown.texture \in 1 .. Len(textures) /\ textures \in Seq([at : Addresses, size : Codeds])
  BY DEF PresenterInv, TexturesFit
<1>2. textures[presenterShown.texture] \in [at : Addresses, size : Codeds]
  BY ONLY <1>1, Element
<1> QED
  BY <1>1, <1>2 DEF PresenterInv, TexturesFit, InUse, Presenter!Held

LEMMA WindowKeeps ==
  ASSUME PresenterInv,
         Presenter!Initialize \/ Presenter!Resize \/ Presenter!ResizeFails \/ Presenter!Minimise
  PROVE  PresenterInv'
<1> USE DEF Presenter!gpu
<1>0. SizesAgree /\ Presenter!ScreenCurrent /\ Fits(Presenter!Now, textures, InUse) /\ Apart(textures, InUse)
  BY DEF PresenterInv
<1>1. CASE Presenter!Initialize
  <2>1. /\ chain = 0 /\ chain' = presenterWindow /\ size' = presenterWindow
        /\ presenterWindow' = presenterWindow /\ presenterShown' = presenterShown
        /\ UNCHANGED <<processor, built, views>>
        /\ UNCHANGED <<presenterMade, textures, decoders, presenterUpload, presenterShown>>
    BY <1>1 DEF Presenter!Initialize, Presenter!Swapchain
  <2>2. TexturesFit' /\ Fits(Presenter!Now, textures, InUse)' /\ Apart(textures, InUse)'
    BY <2>1, NothingDrawn, TexturesStay
  <2>3. presenterShown' = Presenter!None
    BY <1>0, <2>1 DEF SizesAgree
  <2>4. SizesAgree' /\ Presenter!ScreenCurrent'
    BY ONLY <2>1, <2>3 DEF SizesAgree, Presenter!ScreenCurrent
  <2> QED
    BY <2>2, <2>4 DEF PresenterInv
<1>2. CASE Presenter!Resize
  <2>1. PICK w \in PresenterWindows :
          presenterWindow' = w /\ size' = w /\ chain' = w /\ Presenter!Redraw(w)
    BY <1>2 DEF Presenter!Resize, Presenter!Swapchain
  <2>2. /\ UNCHANGED <<presenterMade, textures, decoders, presenterUpload, presenterShown>>
        /\ gone' = gone /\ Presenter!Running
    BY <1>2 DEF Presenter!Resize
  <2>3. w # 0
    BY PresenterConstants
  <2>4. SizesAgree'
    BY ONLY <2>1, <2>3 DEF SizesAgree
  <2>5. CASE presenterShown = Presenter!None
    <3>1. UNCHANGED <<processor, built, views>>
      BY <2>1, <2>5 DEF Presenter!Redraw
    <3>2. TexturesFit' /\ Fits(Presenter!Now, textures, InUse)' /\ Apart(textures, InUse)'
      BY <2>2, <3>1, NothingDrawn, TexturesStay
    <3>3. Presenter!ScreenCurrent'
      BY <2>2, <2>5 DEF Presenter!ScreenCurrent
    <3> QED
      BY <2>4, <3>2, <3>3 DEF PresenterInv
  <2>6. CASE presenterShown # Presenter!None
    <3>1. Presenter!Draw(presenterShown, textures, w, w)
      BY <2>1, <2>6 DEF Presenter!Redraw
    <3>2. /\ Fits(NowNext, textures, InUse)
          /\ screen' = [texture |-> presenterShown.texture, slice |-> presenterShown.slice,
                        by |-> [input |-> textures[presenterShown.texture].size, output |-> w], size |-> w]
      BY <1>0, <2>6, <3>1, ShownFits, DrawFits
    <3>3. TexturesFit' /\ Fits(Presenter!Now, textures, InUse)' /\ Apart(textures, InUse)'
      BY <2>2, <3>2, TexturesStay
    <3>4. Presenter!ScreenCurrent'
      BY ONLY <2>1, <2>2, <3>2 DEF Presenter!ScreenCurrent
    <3> QED
      BY <2>4, <3>3, <3>4 DEF PresenterInv
  <2> QED
    BY <2>5, <2>6
<1>3. CASE Presenter!ResizeFails
  <2>1. PICK w \in PresenterWindows :
          /\ presenterWindow' = w /\ size' = w
          /\ \/ UNCHANGED <<chain, processor, built, views>>
             \/ chain' = w /\ presenterShown # Presenter!None /\ Presenter!DrawFails(presenterShown, textures, w)
    BY <1>3 DEF Presenter!ResizeFails
  <2>2. /\ UNCHANGED <<presenterMade, textures, decoders, presenterUpload, presenterShown>>
        /\ gone' = gone /\ Presenter!Running /\ missed' = TRUE
    BY <1>3 DEF Presenter!ResizeFails
  <2>3. w # 0
    BY PresenterConstants
  <2>4. chain' # 0
    BY ONLY <2>1, <2>2, <2>3 DEF Presenter!Running
  <2>5. SizesAgree' /\ Presenter!ScreenCurrent'
    BY ONLY <2>1, <2>2, <2>4 DEF SizesAgree, Presenter!ScreenCurrent
  <2>6. Fits(NowNext, textures, InUse)
    <3>1. CASE UNCHANGED <<chain, processor, built, views>>
      BY <3>1, NothingDrawn
    <3>2. CASE presenterShown # Presenter!None /\ Presenter!DrawFails(presenterShown, textures, w)
      BY <1>0, <3>2, ShownFits, DrawFailsFits
    <3> QED
      BY <2>1, <3>1, <3>2
  <2>7. TexturesFit' /\ Fits(Presenter!Now, textures, InUse)' /\ Apart(textures, InUse)'
    BY <2>2, <2>6, TexturesStay
  <2> QED
    BY <2>5, <2>7 DEF PresenterInv
<1>4. CASE Presenter!Minimise
  <2>1. /\ presenterWindow' = Presenter!Minimised /\ chain' = chain /\ size' = size /\ gone' = gone
        /\ missed' = missed
        /\ UNCHANGED <<processor, built, views>>
        /\ UNCHANGED <<presenterMade, textures, decoders, presenterUpload, presenterShown>>
    BY <1>4 DEF Presenter!Minimise, Presenter!presenter
  <2>2. TexturesFit' /\ Fits(Presenter!Now, textures, InUse)' /\ Apart(textures, InUse)'
    BY <2>1, NothingDrawn, TexturesStay
  <2>3. Presenter!ScreenCurrent'
    BY <2>1 DEF Presenter!ScreenCurrent
  <2>4. presenterShown' = presenterShown
    BY <2>1
  <2>5. SizesAgree'
    BY ONLY <1>0, <2>1, <2>4 DEF SizesAgree, Presenter!Running
  <2> QED
    BY <2>2, <2>3, <2>5 DEF PresenterInv
<1> QED
  BY <1>1, <1>2, <1>3, <1>4

LEMMA PresenterStep ==
  ASSUME PresenterInv, Presenter!Next
  PROVE  PresenterInv'
  BY DecoderBeginsKeeps, RenderFrameKeeps, RenderFailsKeeps, WindowKeeps DEF Presenter!Next

LEMMA PresenterStutter ==
  ASSUME PresenterInv, UNCHANGED presenter
  PROVE  PresenterInv'
<1>1. /\ UNCHANGED <<processor, built, views>>
      /\ UNCHANGED <<presenterMade, textures, decoders, presenterUpload, presenterShown>>
      /\ presenterShown' = presenterShown /\ textures' = textures /\ chain' = chain /\ size' = size
      /\ gone' = gone /\ missed' = missed /\ presenterWindow' = presenterWindow /\ screen' = screen
  BY DEF presenter
<1>2. TexturesFit' /\ Fits(Presenter!Now, textures, InUse)' /\ Apart(textures, InUse)'
  BY <1>1, NothingDrawn, TexturesStay
<1>3. SizesAgree' /\ Presenter!ScreenCurrent'
  BY ONLY <1>1, PresenterInv DEF PresenterInv, SizesAgree, Presenter!Running, Presenter!ScreenCurrent
<1> QED
  BY <1>2, <1>3 DEF PresenterInv

LEMMA ScreenIsTrue ==
  ASSUME PresenterInv
  PROVE  Presenter!ScreenTrue
<1>1. views = Presenter!Now.views /\ processor = Presenter!Now.processor
  BY DEF Presenter!Now
<1>2. Presenter!ViewsTrue
  BY ONLY <1>1, PresenterInv DEF PresenterInv, Fits, Presenter!ViewsTrue
<1> QED
  BY <1>2 DEF PresenterInv, Presenter!ScreenTrue

-----------------------------------------------------------------------------
(* Arithmetic                                                              *)

LEMMA ColumnsShown ==
  ASSUME NEW n \in Nat \ {0}, NEW m \in Nat \ {0}, NEW shown1, shown1 = [i \in 0 .. m - 1 |-> (i * n) \div m]
  PROVE  Pixels!InOrder(shown1, n, m) /\ \A i \in 0 .. m - 1 : shown1[i] \in 0 .. n - 1
<1>1. ASSUME NEW i \in 0 .. m - 1
      PROVE  /\ shown1[i] \in Nat /\ m * shown1[i] <= i * n /\ i * n < m * shown1[i] + m
             /\ i * n \in Nat
  <2>1. i * n \in Nat
    OBVIOUS
  <2> DEFINE a == i * n
  <2>2. shown1[i] = a \div m
    OBVIOUS
  <2> HIDE DEF a
  <2>3. a \div m \in Nat /\ a % m \in 0 .. m - 1 /\ a = m * (a \div m) + (a % m)
    BY <2>1, DivisionIs DEF a
  <2> QED
    BY ONLY <2>1, <2>2, <2>3, m \in Nat \ {0} DEF a
<1>2. ASSUME NEW i \in 0 .. m - 1
      PROVE  shown1[i] < n
  <2>1. m * shown1[i] < m * n
    <3>1. i * n <= (m - 1) * n
      OBVIOUS
    <3>2. (m - 1) * n = m * n - n /\ m * n \in Nat
      OBVIOUS
    <3>3. /\ m * shown1[i] \in Nat /\ m * shown1[i] <= i * n /\ i * n \in Nat
      BY <1>1
    <3> QED
      BY ONLY <3>1, <3>2, <3>3, n \in Nat \ {0}
  <2>2. ~(n <= shown1[i])
    <3>1. CASE n = shown1[i]
      BY <2>1, <3>1
    <3>2. CASE n < shown1[i]
      BY <1>1, <2>1, <3>2, Multiples
    <3> QED
      BY <1>1, <3>1, <3>2
  <2> QED
    BY <1>1, <2>2
<1>3. ASSUME NEW i \in 1 .. m - 1
      PROVE  shown1[i] >= shown1[i - 1]
  <2>1. i - 1 \in 0 .. m - 1 /\ i \in 0 .. m - 1
    OBVIOUS
  <2>2. (i - 1) * n <= i * n
    OBVIOUS
  <2>3. m * shown1[i - 1] < m * shown1[i] + m
    <3>1. m * shown1[i - 1] <= (i - 1) * n /\ shown1[i - 1] \in Nat /\ (i - 1) * n \in Nat
      BY <1>1, <2>1
    <3>2. i * n < m * shown1[i] + m /\ shown1[i] \in Nat /\ i * n \in Nat
      BY <1>1, <2>1
    <3>3. m * shown1[i - 1] \in Nat /\ m * shown1[i] \in Nat
      BY <3>1, <3>2
    <3> QED
      BY ONLY <2>2, <3>1, <3>2, <3>3, m \in Nat
  <2>4. ~(shown1[i] < shown1[i - 1])
    BY <1>1, <2>1, <2>3, Multiples
  <2> QED
    BY <1>1, <2>1, <2>4
<1>4. shown1[0] = 0
  <2>1. 0 \in 0 .. m - 1 /\ 0 * n = 0
    OBVIOUS
  <2>2. m * shown1[0] <= 0 /\ shown1[0] \in Nat
    BY <1>1, <2>1
  <2>3. ~(0 < shown1[0])
    BY <2>2, Multiples
  <2> QED
    BY <2>2, <2>3
<1>5. shown1[m - 1] + (n \div m) + 1 >= n
  <2>1. m - 1 \in 0 .. m - 1
    OBVIOUS
  <2>2. PICK q \in Nat : q = shown1[m - 1]
    BY <1>1, <2>1
  <2>3. (m - 1) * n < m * q + m
    BY <1>1, <2>1, <2>2
  <2>4. PICK e \in Nat : e = n \div m /\ n < m * e + m
    <3>1. n \div m \in Nat /\ n % m \in 0 .. m - 1 /\ n = m * (n \div m) + (n % m)
      BY DivisionIs
    <3>2. PICK e \in Nat : e = n \div m
      BY <3>1
    <3>3. m * e \in Nat
      OBVIOUS
    <3> QED
      BY ONLY <3>1, <3>2, <3>3, n \in Nat, m \in Nat
  <2>5. m * n < m * (q + e + 2)
    <3>1. m * n = (m - 1) * n + n
      OBVIOUS
    <3>4. m * (q + e + 2) = m * q + m * e + m + m
      BY ONLY q \in Nat, e \in Nat, m \in Nat
    <3>2. (m - 1) * n \in Nat /\ m * q \in Nat /\ m * e \in Nat
      OBVIOUS
    <3> QED
      BY ONLY <2>3, <2>4, <3>1, <3>2, <3>4, n \in Nat, m \in Nat
  <2>6. ~(q + e + 2 <= n)
    <3>1. CASE q + e + 2 = n
      BY <2>5, <3>1
    <3>2. CASE q + e + 2 < n
      BY <2>5, <3>2, Multiples
    <3> QED
      BY <3>1, <3>2
  <2> QED
    BY <2>2, <2>4, <2>6
<1>6. \A i \in 0 .. m - 1 : shown1[i] \in 0 .. n - 1
  BY <1>1, <1>2
<1>7. \A i \in 1 .. m - 1 : shown1[i] >= shown1[i - 1] /\ shown1[i] < n
  <2>1. \A i \in 1 .. m - 1 : i \in 0 .. m - 1
    OBVIOUS
  <2> QED
    BY ONLY <1>2, <1>3, <2>1
<1> QED
  BY ONLY <1>4, <1>5, <1>6, <1>7 DEF Pixels!InOrder

\* A size scaled to the nearest whole number, and kept within a window.
LEMMA Nearest ==
  ASSUME NEW a \in Nat \ {0}, NEW b \in Nat \ {0}, NEW c \in Nat \ {0}, NEW limit \in Nat \ {0},
         a * b <= limit * c
  PROVE  /\ Pixels!Clamp(Pixels!Scaled(a, b, c), limit) \in 1 .. limit
         /\ \/ Pixels!Clamp(Pixels!Scaled(a, b, c), limit) = 1
            \/ 2 * (b * a - Pixels!Clamp(Pixels!Scaled(a, b, c), limit) * c) \in -c .. c
<1>1. PICK ab \in Nat : ab = a * b /\ ab = b * a
  OBVIOUS
<1>2. PICK n : n = Pixels!Scaled(a, b, c)
  OBVIOUS
<1>3. n = (2 * ab + c) \div (2 * c)
  <2>1. 2 * a * b = 2 * ab
    BY <1>1
  <2> QED
    BY <1>2, <2>1 DEF Pixels!Scaled
<1>4. n \in Nat /\ (2 * c) * n <= 2 * ab + c /\ 2 * ab + c < (2 * c) * n + 2 * c
  <2>1. PICK u \in Nat, v \in Nat \ {0} : u = 2 * ab + c /\ v = 2 * c
    OBVIOUS
  <2>2. u \div v \in Nat /\ u % v \in 0 .. v - 1 /\ u = v * (u \div v) + (u % v)
    BY DivisionIs
  <2>3. n = u \div v
    BY <1>3, <2>1
  <2>4. v * n \in Nat
    BY <2>2, <2>3
  <2> QED
    BY ONLY <2>1, <2>2, <2>3, <2>4, ab \in Nat, c \in Nat
<1>5. PICK cn \in Nat, cl \in Nat : cn = c * n /\ cl = c * limit
  BY <1>4
<1>6. 2 * cn <= 2 * ab + c /\ 2 * ab + c < 2 * cn + 2 * c /\ ab <= cl
  <2>1. (2 * c) * n = 2 * cn /\ limit * c = cl
    BY <1>4, <1>5
  <2> QED
    BY ONLY <1>1, <1>4, <1>5, <2>1, a * b <= limit * c
<1>7. n <= limit
  <2>1. ~(limit < n)
    <3>1. ASSUME limit < n PROVE FALSE
      <4>1. c * limit + c <= c * n
        BY ONLY <1>4, <3>1, c \in Nat \ {0}, limit \in Nat, Multiples
      <4> QED
        BY ONLY <4>1, <1>5, <1>6, ab \in Nat, c \in Nat \ {0}
    <3> QED
      BY <3>1
  <2> QED
    BY <1>4, <2>1
<1>8. Pixels!Clamp(n, limit) = IF n < 1 THEN 1 ELSE n
  BY <1>4, <1>7 DEF Pixels!Clamp, Pixels!Min2
<1>9. CASE n < 1
  BY <1>2, <1>8, <1>9
<1>10. CASE ~(n < 1)
  <2>1. n * c = cn
    BY <1>4, <1>5
  <2>2. 2 * (ab - cn) \in -c .. c
    BY ONLY <1>6, ab \in Nat, cn \in Nat, c \in Nat
  <2> QED
    BY <1>1, <1>2, <1>4, <1>7, <1>8, <1>10, <2>1, <2>2
<1> QED
  BY <1>9, <1>10

\* What is left of a window beside a picture is shared by its sides.
LEMMA Centred ==
  ASSUME NEW n \in Nat \ {0}, NEW m \in 1 .. n
  PROVE  (n - m) \div 2 \in 0 .. n - 1 /\ n - m - 2 * ((n - m) \div 2) \in {0, 1}
         /\ (m = n => (n - m) \div 2 = 0) /\ (n - m) \div 2 + m <= n
OBVIOUS

Sized(f) == f.w \in Nat \ {0} /\ f.h \in Nat \ {0}

\* The rectangle that a picture is fitted into.
LEMMA FittedInto ==
  ASSUME NEW f, f.w = picture.w, f.h = picture.h, Sized(f), Sized(window),
         NEW r, r = Pixels!AspectFit(f, window)
  PROVE  /\ r \in [x : 0 .. window.w - 1, y : 0 .. window.h - 1, w : 1 .. window.w, h : 1 .. window.h]
         /\ Pixels!InShape(r) /\ (r.w = window.w \/ r.h = window.h)
         /\ window.w - r.w - 2 * r.x \in {0, 1} /\ window.h - r.h - 2 * r.y \in {0, 1}
         /\ (r.w = window.w => r.x = 0) /\ (r.h = window.h => r.y = 0)
         /\ r.x + r.w <= window.w /\ r.y + r.h <= window.h
<1> DEFINE byWidth == window.w * f.h <= window.h * f.w
           w == IF byWidth THEN window.w ELSE Pixels!Clamp(Pixels!Scaled(f.w, window.h, f.h), window.w)
           h == IF byWidth THEN Pixels!Clamp(Pixels!Scaled(f.h, window.w, f.w), window.h) ELSE window.h
<1>1. r = [x |-> (window.w - w) \div 2, y |-> (window.h - h) \div 2, w |-> w, h |-> h]
  BY DEF Pixels!AspectFit
<1>2. PICK W \in Nat \ {0}, H \in Nat \ {0} : W = window.w /\ H = window.h
  BY DEF Sized
<1>3. PICK p \in Nat \ {0}, q \in Nat \ {0} : p = f.w /\ q = f.h
  BY DEF Sized
<1>4. /\ w \in 1 .. W /\ h \in 1 .. H /\ (w = W \/ h = H)
      /\ \/ w = W /\ 2 * (w * q - h * p) \in -p .. p
         \/ h = H /\ 2 * (w * q - h * p) \in -q .. q
         \/ w = 1 \/ h = 1
  <2>1. CASE byWidth
    <3>1. w = W /\ h = Pixels!Clamp(Pixels!Scaled(q, W, p), H)
      BY <1>2, <1>3, <2>1
    <3>2. q * W <= H * p
      <4>1. q * W = W * q
        OBVIOUS
      <4> QED
        BY <1>2, <1>3, <2>1, <4>1
    <3> HIDE DEF w, h, byWidth
    <3>3. h \in 1 .. H /\ (h = 1 \/ 2 * (W * q - h * p) \in -p .. p)
      BY ONLY <3>1, <3>2, Nearest, p \in Nat \ {0}, q \in Nat \ {0}, W \in Nat \ {0}, H \in Nat \ {0}
    <3> QED
      BY ONLY <3>1, <3>3, W \in Nat \ {0}
  <2>2. CASE ~byWidth
    <3>1. h = H /\ w = Pixels!Clamp(Pixels!Scaled(p, H, q), W)
      BY <1>2, <1>3, <2>2
    <3>2. p * H <= W * q
      <4>1. p * H = H * p /\ p * H \in Nat /\ W * q \in Nat
        OBVIOUS
      <4> QED
        BY <1>2, <1>3, <2>2, <4>1
    <3> HIDE DEF w, h, byWidth
    <3>3. w \in 1 .. W /\ (w = 1 \/ 2 * (H * p - w * q) \in -q .. q)
      BY ONLY <3>1, <3>2, Nearest, p \in Nat \ {0}, q \in Nat \ {0}, W \in Nat \ {0}, H \in Nat \ {0}
    <3>4. H * p \in Nat /\ w * q \in Nat
      BY <3>3
    <3>5. 2 * (H * p - w * q) \in -q .. q => 2 * (w * q - H * p) \in -q .. q
      BY ONLY <3>4, q \in Nat
    <3> QED
      BY ONLY <3>1, <3>3, <3>5, H \in Nat \ {0}
  <2> QED
    BY <2>1, <2>2
<1> HIDE DEF w, h, byWidth
<1>5. /\ (W - w) \div 2 \in 0 .. W - 1 /\ W - w - 2 * ((W - w) \div 2) \in {0, 1}
      /\ (w = W => (W - w) \div 2 = 0) /\ (W - w) \div 2 + w <= W
      /\ (H - h) \div 2 \in 0 .. H - 1 /\ H - h - 2 * ((H - h) \div 2) \in {0, 1}
      /\ (h = H => (H - h) \div 2 = 0) /\ (H - h) \div 2 + h <= H
  BY <1>4, Centred
<1>6. r.x = (W - w) \div 2 /\ r.y = (H - h) \div 2 /\ r.w = w /\ r.h = h
  BY <1>1, <1>2
<1>7. Pixels!InShape(r)
  BY ONLY <1>2, <1>3, <1>4, <1>6, f.w = picture.w, f.h = picture.h DEF Pixels!InShape
<1>8. r \in [x : 0 .. W - 1, y : 0 .. H - 1, w : 1 .. W, h : 1 .. H]
  BY ONLY <1>1, <1>2, <1>4, <1>5
<1> QED
  BY ONLY <1>2, <1>4, <1>5, <1>6, <1>7, <1>8

-----------------------------------------------------------------------------
(* Picture: what is painted is the host's picture.                         *)

LEMMA PixelsConstants ==
  /\ Block \in Nat \ {0} /\ Block % 2 = 0
  /\ \A s \in SessionSizes : Sized(s) /\ s.w % 2 = 0 /\ s.h % 2 = 0 /\ s = [w |-> s.w, h |-> s.h]
  /\ \A s \in Windows : Sized(s) /\ s = [w |-> s.w, h |-> s.h]
  /\ RowPadding \in SUBSET Nat
  /\ \A S : Pixels!Cardinality(S) = Cardinality(S)
<1>1. \A s \in Pixels!Size : Sized(s) /\ s = [w |-> s.w, h |-> s.h]
  BY DEF Pixels!Size, Sized
<1>2. \A S : Pixels!Cardinality(S) = Cardinality(S)
  BY DEF Pixels!Cardinality, Cardinality
<1> QED
  BY <1>1, <1>2, PartsAssumption DEF Pixels!Assumption

\* The coded size is not smaller, and by less than a block not larger.
LEMMA WholeBlocks ==
  ASSUME NEW n \in Nat \ {0}
  PROVE  /\ Pixels!Blocks(n) \in Nat /\ Pixels!Blocks(n) - n \in 0 .. Block - 1
         /\ \A i \in Nat \ {0} : Pixels!Blocks(Block * i) = Block * i
         /\ Pixels!Blocks(n) % 2 = 0
<1>1. PICK b \in Nat \ {0} : b = Block
  BY PixelsConstants
<1>2. PICK a \in Nat : a = n + b - 1
  OBVIOUS
<1>3. /\ a \div b \in Nat /\ a % b \in 0 .. b - 1
      /\ a = b * (a \div b) + (a % b)
  BY DivisionIs
<1>4. PICK q \in Nat : q = a \div b
  BY <1>3
<1>5. Pixels!Blocks(n) = q * b /\ q * b = b * q /\ b * q \in Nat
  BY <1>1, <1>2, <1>4 DEF Pixels!Blocks
<1>6. Pixels!Blocks(n) - n \in 0 .. b - 1
  BY ONLY <1>2, <1>3, <1>4, <1>5, n \in Nat, b \in Nat \ {0}
<1>7. ASSUME NEW i \in Nat \ {0}
      PROVE  Pixels!Blocks(Block * i) = Block * i
  <2>1. Block * i + Block - 1 = b * i + (b - 1) /\ b - 1 \in 0 .. b - 1
    BY <1>1
  <2>2. (b * i + (b - 1)) \div b = i
    BY DivisionOnly, <2>1
  <2>3. i * b = b * i
    OBVIOUS
  <2> QED
    BY <1>1, <2>1, <2>2, <2>3 DEF Pixels!Blocks
<1>8. Pixels!Blocks(n) % 2 = 0
  <2>1. PICK k \in Nat : b = 2 * k
    <3>1. b \div 2 \in Nat /\ b % 2 = 0 /\ b = 2 * (b \div 2) + (b % 2)
      BY <1>1, PixelsConstants, DivisionIs
    <3> QED
      BY <3>1
  <2>2. b * q = 2 * (k * q) /\ k * q \in Nat
    BY <2>1
  <2> QED
    <3>1. (2 * (k * q) + 0) % 2 = 0
      BY ONLY <2>2, 2 \in Nat \ {0}, 0 \in 0 .. 2 - 1, DivisionOnly
    <3>2. 2 * (k * q) + 0 = 2 * (k * q)
      BY ONLY <2>2
    <3> QED
      BY ONLY <1>5, <2>2, <3>1, <3>2
<1> QED
  BY <1>1, <1>5, <1>6, <1>7, <1>8

\* A rung of the ladder is of whole blocks, and lower than its session.
LEMMA RungIs ==
  ASSUME NEW s \in SessionSizes, NEW r \in Pixels!Rungs(s)
  PROVE  /\ Sized(r) /\ r.w % 2 = 0 /\ r.h % 2 = 0 /\ r.h < s.h
         /\ Pixels!Blocks(r.w) = r.w /\ Pixels!Blocks(r.h) = r.h
         /\ r = [w |-> r.w, h |-> r.h]
<1>1. /\ r \in [w : {Block * i : i \in 1 .. s.w}, h : {Block * i : i \in 1 .. s.h}] /\ r.h < s.h
  BY DEF Pixels!Rungs
<1>2. s.w \in Nat /\ s.h \in Nat /\ Block \in Nat \ {0}
  BY PixelsConstants DEF Sized
<1>3. PICK i \in Nat \ {0}, j \in Nat \ {0} : r.w = Block * i /\ r.h = Block * j
  <2>1. r.w \in {Block * i : i \in 1 .. s.w} /\ r.h \in {Block * i : i \in 1 .. s.h}
    BY ONLY <1>1
  <2> QED
    BY ONLY <1>2, <2>1
<1>4. Block * i \in Nat \ {0} /\ Block * j \in Nat \ {0}
  BY <1>2, <1>3
<1>5. Pixels!Blocks(r.w) = r.w /\ Pixels!Blocks(r.h) = r.h
  BY <1>3, <1>4, WholeBlocks
<1>6. r.w % 2 = 0 /\ r.h % 2 = 0
  BY <1>3, <1>4, <1>5, WholeBlocks
<1>7. r = [w |-> r.w, h |-> r.h]
  BY ONLY <1>1
<1> QED
  BY <1>1, <1>3, <1>4, <1>5, <1>6, <1>7 DEF Sized

\* What a session's stream is like.
StreamFits ==
  /\ decoder \in {"mf", "d3d12", "vt"} /\ pixelsSession \in SessionSizes
  /\ picture = pixelsSession \/ picture \in Pixels!Rungs(pixelsSession)
  /\ decoder = "d3d12" => picture = pixelsSession
  /\ aperture = Pixels!NoFrame \/ aperture = picture
  /\ pitch \in Nat /\ pitch >= Pixels!Coded.w
  /\ window \in Windows

LEMMA StreamIs ==
  ASSUME StreamFits
  PROVE  /\ Sized(picture) /\ picture.w % 2 = 0 /\ picture.h % 2 = 0
         /\ picture = [w |-> picture.w, h |-> picture.h]
         /\ Pixels!Coded.w \in Nat /\ Pixels!Coded.h \in Nat
         /\ picture.w <= Pixels!Coded.w /\ picture.h <= Pixels!Coded.h
         /\ Pixels!Coded.h % 2 = 0
         /\ decoder = "mf" => Pixels!Coded.w = Pixels!Blocks(picture.w) /\ Pixels!Coded.h = Pixels!Blocks(picture.h)
         /\ decoder # "mf" => Pixels!Coded = picture
         /\ Sized(window) /\ window = [w |-> window.w, h |-> window.h]
<1>1. /\ Sized(picture) /\ picture.w % 2 = 0 /\ picture.h % 2 = 0
      /\ picture = [w |-> picture.w, h |-> picture.h]
  BY RungIs, PixelsConstants DEF StreamFits
<1>2. Sized(window) /\ window = [w |-> window.w, h |-> window.h]
  BY PixelsConstants DEF StreamFits
<1>3. CASE decoder = "mf"
  <2>1. Pixels!Coded = [w |-> Pixels!Blocks(picture.w), h |-> Pixels!Blocks(picture.h)]
    BY <1>3 DEF Pixels!Coded
  <2>2. /\ Pixels!Blocks(picture.w) \in Nat /\ Pixels!Blocks(picture.w) - picture.w \in 0 .. Block - 1
        /\ Pixels!Blocks(picture.h) \in Nat /\ Pixels!Blocks(picture.h) - picture.h \in 0 .. Block - 1
        /\ Pixels!Blocks(picture.h) % 2 = 0
    BY <1>1, WholeBlocks DEF Sized
  <2>3. picture.w \in Nat /\ picture.h \in Nat /\ Block \in Nat
    BY <1>1, PixelsConstants DEF Sized
  <2> QED
    BY <1>1, <1>2, <1>3, <2>1, <2>2, <2>3
<1>4. CASE decoder # "mf"
  <2>1. Pixels!Coded = picture
    BY <1>4 DEF Pixels!Coded
  <2> QED
    BY <1>1, <1>2, <1>4, <2>1 DEF Sized
<1> QED
  BY <1>3, <1>4

\* The part of the coded picture that is shown is the host's picture.
LEMMA VisibleIs ==
  ASSUME StreamFits, decoder = "mf"
  PROVE  Pixels!VisibleSize(pixelsSession, Pixels!Coded, aperture) = picture
<1> DEFINE c == Pixels!Coded
<1>1. /\ Sized(picture) /\ c.w = Pixels!Blocks(picture.w) /\ c.h = Pixels!Blocks(picture.h)
      /\ picture.w <= c.w /\ picture.h <= c.h
      /\ c = [w |-> c.w, h |-> c.h] /\ picture = [w |-> picture.w, h |-> picture.h]
  <2>1. c = [w |-> Pixels!Blocks(picture.w), h |-> Pixels!Blocks(picture.h)]
    BY DEF Pixels!Coded
  <2> QED
    BY <2>1, StreamIs
<1>2. picture # Pixels!NoFrame
  <2>1. picture.w # 0
    BY <1>1 DEF Sized
  <2>2. Pixels!NoFrame.w = 0
    BY DEF Pixels!NoFrame
  <2> QED
    BY <2>1, <2>2
<1> HIDE DEF c
<1>3. CASE aperture = picture
  BY ONLY <1>1, <1>2, <1>3 DEF Pixels!VisibleSize, c
<1>4. CASE aperture = Pixels!NoFrame
  <2>1. Pixels!VisibleSize(pixelsSession, c, aperture)
          = IF c.w - pixelsSession.w \in 0 .. Block - 1 /\ c.h - pixelsSession.h \in 0 .. Block - 1
            THEN pixelsSession ELSE c
    BY <1>4 DEF Pixels!VisibleSize
  <2>2. CASE picture = pixelsSession
    <3>1. c.w - pixelsSession.w \in 0 .. Block - 1 /\ c.h - pixelsSession.h \in 0 .. Block - 1
      BY <1>1, <2>2, WholeBlocks DEF Sized
    <3> QED
      BY <2>1, <2>2, <3>1 DEF c
  <2>3. CASE picture \in Pixels!Rungs(pixelsSession)
    <3>1. picture.h < pixelsSession.h /\ c.w = picture.w /\ c.h = picture.h
      BY <1>1, <2>3, RungIs DEF StreamFits
    <3>2. pixelsSession.h \in Nat /\ picture.h \in Nat
      BY <1>1, PixelsConstants DEF StreamFits, Sized
    <3>3. ~(c.h - pixelsSession.h \in 0 .. Block - 1)
      BY <3>1, <3>2
    <3>4. c = picture
      BY ONLY <1>1, <3>1
    <3> QED
      BY <2>1, <3>3, <3>4 DEF c
  <2> QED
    BY <2>2, <2>3 DEF StreamFits
<1> QED
  BY <1>3, <1>4 DEF StreamFits

\* A row and a column of rows of a width, by address.
LEMMA Address ==
  ASSUME NEW n \in Nat, NEW width \in Nat \ {0}, NEW row \in 0 .. n - 1, NEW col \in 0 .. width - 1
  PROVE  /\ row * width + col \in 0 .. (n * width) - 1
         /\ (row * width + col) \div width = row /\ (row * width + col) % width = col
         /\ n * width \in Nat
<1>1. row * width = width * row /\ n * width = width * n /\ width * row \in Nat /\ width * n \in Nat
  OBVIOUS
<1>2. width * row + width <= width * n
  BY Multiples
<1>3. (width * row + col) \div width = row /\ (width * row + col) % width = col
  BY DivisionOnly
<1> QED
  BY ONLY <1>1, <1>2, <1>3, width \in Nat \ {0}, col \in 0 .. width - 1

\* Rows of a plane out of memory.
AreRows(copy, memory, offset, n, width) ==
  /\ \A row \in 0 .. n - 1, col \in 0 .. width - 1 :
       copy[row * width + col] = memory[offset + row * pitch + col]
  /\ DOMAIN copy = 0 .. (n * width) - 1
  /\ Cardinality(0 .. (n * width) - 1) = n * width

LEMMA RowsAre ==
  ASSUME NEW memory, NEW offset \in Nat, NEW n \in Nat, NEW width \in Nat \ {0}
  PROVE  AreRows(Pixels!Rows(memory, offset, n, width), memory, offset, n, width)
<1>1. ASSUME NEW row \in 0 .. n - 1, NEW col \in 0 .. width - 1
      PROVE  Pixels!Rows(memory, offset, n, width)[row * width + col] = memory[offset + row * pitch + col]
  <2>1. PICK i : i = row * width + col
    OBVIOUS
  <2>2. i \in 0 .. (n * width) - 1 /\ i \div width = row /\ i % width = col
    BY <2>1, Address
  <2>3. Pixels!Rows(memory, offset, n, width)[i] = memory[offset + (i \div width) * pitch + (i % width)]
    BY ONLY <2>2 DEF Pixels!Rows
  <2> QED
    BY ONLY <2>1, <2>2, <2>3
<1>2. n * width \in Nat
  OBVIOUS
<1>3. Cardinality(0 .. (n * width) - 1) = n * width
  <2>1. PICK k \in Nat : k = n * width
    BY <1>2
  <2>2. Cardinality(0 .. k - 1) = IF 0 > k - 1 THEN 0 ELSE k - 1 - 0 + 1
    <3>1. 0 \in Int /\ k - 1 \in Int
      OBVIOUS
    <3> QED
      BY ONLY <3>1, FS_Interval
  <2> QED
    BY ONLY <2>1, <2>2
<1> QED
  BY <1>1, <1>3 DEF Pixels!Rows, AreRows

\* One plane after another.
LEMMA JoinedIs ==
  ASSUME NEW a, NEW b, NEW m \in Nat, NEW n \in Nat,
         DOMAIN a = 0 .. m - 1, DOMAIN b = 0 .. n - 1,
         Cardinality(0 .. m - 1) = m, Cardinality(0 .. n - 1) = n
  PROVE  /\ DOMAIN Pixels!Joined(a, b) = 0 .. m + n - 1
         /\ \A i \in 0 .. m - 1 : Pixels!Joined(a, b)[i] = a[i]
         /\ \A i \in 0 .. n - 1 : Pixels!Joined(a, b)[m + i] = b[i]
<1>1. Pixels!Cardinality(DOMAIN a) = m /\ Pixels!Cardinality(DOMAIN b) = n
  BY PixelsConstants
<1>2. Pixels!Joined(a, b) = [i \in 0 .. m + n - 1 |-> IF i < m THEN a[i] ELSE b[i - m]]
  BY <1>1 DEF Pixels!Joined
<1>3. ASSUME NEW i \in 0 .. n - 1
      PROVE  Pixels!Joined(a, b)[m + i] = b[i]
  <2>1. m + i \in 0 .. m + n - 1 /\ ~(m + i < m) /\ m + i - m = i
    OBVIOUS
  <2> QED
    BY ONLY <1>2, <2>1
<1> QED
  BY <1>2, <1>3

\* The decoder's memory, by row and column.
LEMMA MemoryIs ==
  ASSUME StreamFits, NEW col \in 0 .. Pixels!Coded.w - 1
  PROVE  /\ \A row \in 0 .. Pixels!Coded.h - 1 :
              /\ Pixels!Nv12Memory[row * pitch + col] = Pixels!Plane("Y", col, row)
              /\ Pixels!BgraMemory[row * pitch + col] = Pixels!Plane("BGRA", col, row)
         /\ \A row \in 0 .. (Pixels!Coded.h \div 2) - 1 :
              Pixels!Nv12Memory[Pixels!Coded.h * pitch + row * pitch + col] = Pixels!Plane("UV", col, row)
<1>1. PICK h \in Nat : h = Pixels!Coded.h
  BY StreamIs
<1>2. pitch \in Nat \ {0} /\ col \in 0 .. pitch - 1 /\ h % 2 = 0
  BY <1>1, StreamIs DEF StreamFits
<1>3. h = 2 * (h \div 2) /\ h \div 2 \in Nat
  <2>1. h \div 2 \in Nat /\ h = 2 * (h \div 2) + (h % 2)
    BY ONLY DivisionIs, h \in Nat, 2 \in Nat \ {0}
  <2> QED
    BY ONLY <1>2, <2>1
<1>4. PICK half \in Nat : half = h \div 2
  BY <1>3
<1>5. (h * 3) \div 2 = h + half
  <2>1. h * 3 = 2 * (h + half) + 0
    BY ONLY <1>3, <1>4, h \in Nat
  <2>2. (2 * (h + half) + 0) \div 2 = h + half
    BY ONLY DivisionOnly, h \in Nat, half \in Nat, 2 \in Nat \ {0}, 0 \in 0 .. 2 - 1, h + half \in Nat
  <2> QED
    BY ONLY <2>1, <2>2
<1>6. ASSUME NEW row \in 0 .. h + half - 1
      PROVE  Pixels!Nv12Memory[row * pitch + col] =
               IF row < h THEN Pixels!Plane("Y", col, row) ELSE Pixels!Plane("UV", col, row - h)
  <2>1. PICK a : a = row * pitch + col
    OBVIOUS
  <2>2. a \in 0 .. ((h + half) * pitch) - 1 /\ a \div pitch = row /\ a % pitch = col
    BY ONLY <1>2, <2>1, Address, row \in 0 .. h + half - 1, h + half \in Nat
  <2>3. (h + half) * pitch = pitch * (h + half)
    BY <1>2
  <2>4. Pixels!Nv12Memory = [x \in 0 .. (pitch * (h + half)) - 1 |->
          LET r == x \div pitch
          IN IF r < h THEN Pixels!Plane("Y", x % pitch, r) ELSE Pixels!Plane("UV", x % pitch, r - h)]
    BY ONLY <1>1, <1>5 DEF Pixels!Nv12Memory
  <2>5. Pixels!Nv12Memory[a] = IF row < h THEN Pixels!Plane("Y", col, row) ELSE Pixels!Plane("UV", col, row - h)
    BY ONLY <2>2, <2>3, <2>4
  <2> QED
    BY ONLY <2>1, <2>5
<1>7. ASSUME NEW row \in 0 .. h - 1
      PROVE  /\ Pixels!Nv12Memory[row * pitch + col] = Pixels!Plane("Y", col, row)
             /\ Pixels!BgraMemory[row * pitch + col] = Pixels!Plane("BGRA", col, row)
  <2>1. row \in 0 .. h + half - 1 /\ row < h
    OBVIOUS
  <2>2. PICK a : a = row * pitch + col
    OBVIOUS
  <2>3. a \in 0 .. (h * pitch) - 1 /\ a \div pitch = row /\ a % pitch = col
    BY <1>2, <2>2, Address
  <2>4. h * pitch = pitch * h
    BY <1>2
  <2>5. Pixels!BgraMemory[a] = Pixels!Plane("BGRA", col, row)
    BY ONLY <1>1, <2>3, <2>4 DEF Pixels!BgraMemory
  <2> QED
    BY ONLY <1>6, <2>1, <2>2, <2>5
<1>8. ASSUME NEW row \in 0 .. half - 1
      PROVE  Pixels!Nv12Memory[h * pitch + row * pitch + col] = Pixels!Plane("UV", col, row)
  <2>1. h + row \in 0 .. h + half - 1 /\ ~(h + row < h) /\ h + row - h = row
    OBVIOUS
  <2>2. h * pitch + row * pitch + col = (h + row) * pitch + col
    BY <1>2
  <2>3. Pixels!Nv12Memory[(h + row) * pitch + col] = Pixels!Plane("UV", col, row)
    BY ONLY <1>6, <2>1
  <2> QED
    BY ONLY <2>2, <2>3
<1> QED
  BY ONLY <1>1, <1>4, <1>7, <1>8

\* A frame that is all of the picture and nothing but it: each of its cells is where
\* the renderer looks for it.
FrameWhole ==
  /\ pixelsFrame.w = picture.w /\ pixelsFrame.h = picture.h
  /\ decoder = "vt" =>
       /\ DOMAIN pixelsFrame.buffer = 0 .. (picture.h * picture.w) - 1
       /\ \A row \in 0 .. picture.h - 1, col \in 0 .. picture.w - 1 :
            pixelsFrame.buffer[row * picture.w + col] = Pixels!Plane("BGRA", col, row)
  /\ decoder # "vt" =>
       /\ DOMAIN pixelsFrame.buffer
            = 0 .. picture.h * picture.w + (picture.h \div 2) * picture.w - 1
       /\ \A row \in 0 .. picture.h - 1, col \in 0 .. picture.w - 1 :
            pixelsFrame.buffer[row * picture.w + col] = Pixels!Plane("Y", col, row)
       /\ \A row \in 0 .. (picture.h \div 2) - 1, col \in 0 .. picture.w - 1 :
            pixelsFrame.buffer[picture.h * picture.w + (row * picture.w + col)] = Pixels!Plane("UV", col, row)

Halves(n) == n \div 2 \in Nat /\ n = 2 * (n \div 2)

LEMMA EvenHalves ==
  ASSUME NEW n \in Nat, n % 2 = 0
  PROVE  Halves(n)
<1>1. n \div 2 \in Nat /\ n = 2 * (n \div 2) + (n % 2)
  BY DivisionIs
<1> QED
  BY <1>1 DEF Halves

\* Both planes of the visible part, copied out of the coded picture.
LEMMA PlanesCopied ==
  ASSUME StreamFits
  PROVE  LET copy == Pixels!CopyNv12Planes(picture.w, picture.h)
         IN /\ DOMAIN copy = 0 .. picture.h * picture.w + (picture.h \div 2) * picture.w - 1
            /\ \A row \in 0 .. picture.h - 1, col \in 0 .. picture.w - 1 :
                 copy[row * picture.w + col] = Pixels!Plane("Y", col, row)
            /\ \A row \in 0 .. (picture.h \div 2) - 1, col \in 0 .. picture.w - 1 :
                 copy[picture.h * picture.w + (row * picture.w + col)] = Pixels!Plane("UV", col, row)
<1>1. PICK w \in Nat \ {0}, h \in Nat \ {0} : w = picture.w /\ h = picture.h
  BY StreamIs DEF Sized
<1>2. PICK W \in Nat, H \in Nat : W = Pixels!Coded.w /\ H = Pixels!Coded.h
  BY StreamIs
<1>3. w <= W /\ h <= H /\ h % 2 = 0 /\ H % 2 = 0 /\ pitch \in Nat
  BY <1>1, <1>2, StreamIs DEF StreamFits
<1>4. PICK half \in Nat : half = h \div 2 /\ h = 2 * half
  BY <1>3, EvenHalves DEF Halves
<1>5. H \div 2 \in Nat /\ H = 2 * (H \div 2)
  BY <1>3, EvenHalves DEF Halves
<1>6. half - 1 <= (H \div 2) - 1
  BY ONLY <1>3, <1>4, <1>5, h \in Nat, H \in Nat
<1>7. PICK a, b : /\ a = Pixels!Rows(Pixels!Nv12Memory, 0, h, w)
                  /\ b = Pixels!Rows(Pixels!Nv12Memory, H * pitch, half, w)
  OBVIOUS
<1>8. Pixels!CopyNv12Planes(w, h) = Pixels!Joined(a, b)
  BY ONLY <1>2, <1>4, <1>7 DEF Pixels!CopyNv12Planes
<1>9. /\ DOMAIN a = 0 .. (h * w) - 1 /\ Cardinality(0 .. (h * w) - 1) = h * w
      /\ \A row \in 0 .. h - 1, col \in 0 .. w - 1 : a[row * w + col] = Pixels!Nv12Memory[0 + row * pitch + col]
  <2>1. 0 \in Nat
    OBVIOUS
  <2> QED
    <3>1. AreRows(Pixels!Rows(Pixels!Nv12Memory, 0, h, w), Pixels!Nv12Memory, 0, h, w)
      BY ONLY <2>1, h \in Nat, w \in Nat \ {0}, RowsAre
    <3>2. AreRows(a, Pixels!Nv12Memory, 0, h, w)
      BY ONLY <1>7, <3>1
    <3> QED
      BY ONLY <3>2 DEF AreRows
<1>10. /\ DOMAIN b = 0 .. (half * w) - 1 /\ Cardinality(0 .. (half * w) - 1) = half * w
       /\ \A row \in 0 .. half - 1, col \in 0 .. w - 1 :
            b[row * w + col] = Pixels!Nv12Memory[H * pitch + row * pitch + col]
  <2>1. H * pitch \in Nat
    BY <1>3
  <2> QED
    <3>1. AreRows(Pixels!Rows(Pixels!Nv12Memory, H * pitch, half, w), Pixels!Nv12Memory, H * pitch, half, w)
      BY ONLY <2>1, half \in Nat, w \in Nat \ {0}, RowsAre
    <3>2. AreRows(b, Pixels!Nv12Memory, H * pitch, half, w)
      BY ONLY <1>7, <3>1
    <3> QED
      BY ONLY <3>2 DEF AreRows
<1>11. PICK m \in Nat, n \in Nat : m = h * w /\ n = half * w
  OBVIOUS
<1>12. /\ DOMAIN Pixels!Joined(a, b) = 0 .. m + n - 1
       /\ \A i \in 0 .. m - 1 : Pixels!Joined(a, b)[i] = a[i]
       /\ \A i \in 0 .. n - 1 : Pixels!Joined(a, b)[m + i] = b[i]
  BY ONLY <1>9, <1>10, <1>11, JoinedIs
<1>13. ASSUME NEW row \in 0 .. h - 1, NEW col \in 0 .. w - 1
       PROVE  Pixels!Joined(a, b)[row * w + col] = Pixels!Plane("Y", col, row)
  <2>1. col \in 0 .. W - 1 /\ row \in 0 .. H - 1 /\ row * pitch \in Int /\ 0 + row * pitch = row * pitch
    BY <1>3
  <2>2. row * w + col \in 0 .. m - 1
    BY <1>11, Address
  <2>3. Pixels!Nv12Memory[row * pitch + col] = Pixels!Plane("Y", col, row)
    BY <1>2, <2>1, MemoryIs
  <2> QED
    BY ONLY <1>9, <1>12, <2>1, <2>2, <2>3, row \in 0 .. h - 1, col \in 0 .. w - 1
<1>14. ASSUME NEW row \in 0 .. half - 1, NEW col \in 0 .. w - 1
       PROVE  Pixels!Joined(a, b)[m + (row * w + col)] = Pixels!Plane("UV", col, row)
  <2>1. col \in 0 .. W - 1 /\ row \in 0 .. (H \div 2) - 1
    BY <1>3, <1>5, <1>6
  <2>2. row * w + col \in 0 .. n - 1
    BY <1>11, Address
  <2>3. Pixels!Nv12Memory[H * pitch + row * pitch + col] = Pixels!Plane("UV", col, row)
    BY <1>2, <2>1, MemoryIs
  <2> QED
    BY ONLY <1>10, <1>12, <2>2, <2>3, row \in 0 .. half - 1, col \in 0 .. w - 1
<1> QED
  BY ONLY <1>1, <1>4, <1>8, <1>11, <1>12, <1>13, <1>14

LEMMA SampleWhole ==
  ASSUME StreamFits, Pixels!SampleToFrame
  PROVE  FrameWhole'
<1>1. decoder = "mf" /\ decoder' = decoder /\ picture' = picture
  BY DEF Pixels!SampleToFrame
<1>2. Pixels!VisibleSize(pixelsSession, Pixels!Coded, aperture) = picture
  BY <1>1, VisibleIs
<1>3. Pixels!Min2(picture.w, Pixels!Coded.w) = picture.w /\ Pixels!Min2(picture.h, Pixels!Coded.h) = picture.h
  BY StreamIs DEF Pixels!Min2, Sized
<1>4. pixelsFrame' = [w |-> picture.w, h |-> picture.h,
                      buffer |-> Pixels!CopyNv12Planes(picture.w, picture.h)]
  BY <1>2, <1>3 DEF Pixels!SampleToFrame
<1>5. /\ pixelsFrame'.w = picture.w /\ pixelsFrame'.h = picture.h
      /\ pixelsFrame'.buffer = Pixels!CopyNv12Planes(picture.w, picture.h)
  BY ONLY <1>4
<1> QED
  BY ONLY <1>1, <1>5, StreamFits, PlanesCopied DEF FrameWhole

LEMMA ReadBackWhole ==
  ASSUME StreamFits, Pixels!ReadBack
  PROVE  FrameWhole'
<1>1. decoder = "d3d12" /\ decoder' = decoder /\ picture' = picture /\ pixelsSession = picture
  BY DEF Pixels!ReadBack, StreamFits
<1>2. Pixels!Coded = picture
  BY <1>1, StreamIs
<1>3. pixelsFrame' = [w |-> picture.w, h |-> picture.h,
                      buffer |-> Pixels!CopyNv12Planes(picture.w, picture.h)]
  BY <1>1, <1>2 DEF Pixels!ReadBack, Pixels!CopyNv12Planes
<1>4. /\ pixelsFrame'.w = picture.w /\ pixelsFrame'.h = picture.h
      /\ pixelsFrame'.buffer = Pixels!CopyNv12Planes(picture.w, picture.h)
  BY ONLY <1>3
<1> QED
  BY ONLY <1>1, <1>4, StreamFits, PlanesCopied DEF FrameWhole

LEMMA CopyWhole ==
  ASSUME StreamFits, Pixels!CopyBGRA
  PROVE  FrameWhole'
<1>1. decoder = "vt" /\ decoder' = decoder /\ picture' = picture
  BY DEF Pixels!CopyBGRA
<1>2. Pixels!Coded = picture
  BY <1>1, StreamIs
<1>3. PICK a : a = Pixels!Rows(Pixels!BgraMemory, 0, picture.h, picture.w)
  OBVIOUS
<1>4. pixelsFrame' = [w |-> picture.w, h |-> picture.h, buffer |-> a]
  BY ONLY <1>2, <1>3, Pixels!CopyBGRA DEF Pixels!CopyBGRA
<1>5. pixelsFrame'.w = picture.w /\ pixelsFrame'.h = picture.h /\ pixelsFrame'.buffer = a
  BY ONLY <1>4
<1>6. PICK w \in Nat \ {0}, h \in Nat \ {0} : w = picture.w /\ h = picture.h
  BY StreamIs DEF Sized
<1>7. /\ DOMAIN a = 0 .. (h * w) - 1
      /\ \A row \in 0 .. h - 1, col \in 0 .. w - 1 : a[row * w + col] = Pixels!BgraMemory[0 + row * pitch + col]
  <2>1. 0 \in Nat
    OBVIOUS
  <2> QED
    <3>1. AreRows(Pixels!Rows(Pixels!BgraMemory, 0, h, w), Pixels!BgraMemory, 0, h, w)
      BY ONLY <2>1, h \in Nat, w \in Nat \ {0}, RowsAre
    <3>2. AreRows(a, Pixels!BgraMemory, 0, h, w)
      BY ONLY <1>3, <1>6, <3>1
    <3> QED
      BY ONLY <3>2 DEF AreRows
<1>8. ASSUME NEW row \in 0 .. h - 1, NEW col \in 0 .. w - 1
      PROVE  a[row * w + col] = Pixels!Plane("BGRA", col, row)
  <2>1. col \in 0 .. Pixels!Coded.w - 1 /\ row \in 0 .. Pixels!Coded.h - 1
    BY ONLY <1>2, <1>6, row \in 0 .. h - 1, col \in 0 .. w - 1
  <2>2. Pixels!BgraMemory[row * pitch + col] = Pixels!Plane("BGRA", col, row)
    BY <2>1, MemoryIs
  <2>3. 0 + row * pitch = row * pitch
    BY DEF StreamFits
  <2> QED
    BY ONLY <1>7, <2>2, <2>3, row \in 0 .. h - 1, col \in 0 .. w - 1
<1> QED
  BY ONLY <1>1, <1>5, <1>6, <1>7, <1>8 DEF FrameWhole

\* A pixel of the picture out of the frame's buffer.
LEMMA PixelIs ==
  ASSUME StreamFits, FrameWhole,
         NEW col \in 0 .. picture.w - 1, NEW row \in 0 .. picture.h - 1
  PROVE  Pixels!PixelOf(col, row) = Pixels!PictureAt(col, row)
<1>1. PICK w \in Nat \ {0}, h \in Nat \ {0} : w = picture.w /\ h = picture.h
  BY StreamIs DEF Sized
<1>2. pixelsFrame.w = w /\ pixelsFrame.h = h
  BY <1>1 DEF FrameWhole
<1>3. CASE decoder = "vt"
  BY <1>1, <1>2, <1>3 DEF FrameWhole, Pixels!PixelOf, Pixels!PictureAt
<1>4. CASE decoder # "vt"
  <2>1. w % 2 = 0 /\ h % 2 = 0
    BY <1>1, StreamIs
  <2>2. PICK u \in Nat, v \in Nat : u = w \div 2 /\ w = 2 * u /\ v = h \div 2 /\ h = 2 * v
    BY <2>1, EvenHalves DEF Halves
  <2>3. PICK c \in Nat, r \in Nat : c = col \div 2 /\ r = row \div 2 /\ 2 * c <= col /\ 2 * r <= row
    <3>1. col \in Nat /\ row \in Nat
      OBVIOUS
    <3>2. /\ col \div 2 \in Nat /\ col % 2 \in 0 .. 1 /\ col = 2 * (col \div 2) + (col % 2)
          /\ row \div 2 \in Nat /\ row % 2 \in 0 .. 1 /\ row = 2 * (row \div 2) + (row % 2)
      BY <3>1, DivisionIs
    <3>3. 2 * (col \div 2) <= col /\ 2 * (row \div 2) <= row
      BY ONLY <3>1, <3>2
    <3> QED
      BY <3>2, <3>3
  <2>4. c \in 0 .. u - 1 /\ r \in 0 .. v - 1
    BY ONLY <1>1, <2>2, <2>3, col \in 0 .. picture.w - 1, row \in 0 .. picture.h - 1
  <2>5. 2 * c \in 0 .. w - 1 /\ 2 * c + 1 \in 0 .. w - 1
    BY ONLY <2>2, <2>4
  <2>6. Pixels!Lumas = h * w /\ h * w \in Nat
    BY <1>2 DEF Pixels!Lumas
  <2>7. Pixels!ChromaWidth = w
    <3>1. Pixels!ChromaWidth = ((w + 1) \div 2) * 2
      BY <1>2 DEF Pixels!ChromaWidth
    <3>2. (2 * u + 1) \div 2 = u
      BY DivisionOnly, 1 \in 0 .. 2 - 1
    <3> QED
      BY ONLY <2>2, <3>1, <3>2
  <2>8. Pixels!PixelOf(col, row) = Pixels!Nv12ToBgra(col, row)
    BY <1>4 DEF Pixels!PixelOf
  <2>9. PICK chroma : chroma = h * w + r * w + c * 2
    OBVIOUS
  <2>10. Pixels!Nv12ToBgra(col, row)
           = <<pixelsFrame.buffer[row * w + col], pixelsFrame.buffer[chroma], pixelsFrame.buffer[chroma + 1]>>
    BY ONLY <1>2, <2>3, <2>6, <2>7, <2>9 DEF Pixels!Nv12ToBgra
  <2>11. chroma = h * w + (r * w + 2 * c) /\ chroma + 1 = h * w + (r * w + (2 * c + 1))
    <3>1. r * w \in Nat
      OBVIOUS
    <3> QED
      BY ONLY <2>4, <2>6, <2>9, <3>1, u \in Nat, c \in Nat
  <2>12. /\ pixelsFrame.buffer[row * w + col] = Pixels!Plane("Y", col, row)
         /\ pixelsFrame.buffer[h * w + (r * w + 2 * c)] = Pixels!Plane("UV", 2 * c, r)
         /\ pixelsFrame.buffer[h * w + (r * w + (2 * c + 1))] = Pixels!Plane("UV", 2 * c + 1, r)
    BY ONLY <1>1, <1>4, <2>2, <2>4, <2>5, FrameWhole,
            col \in 0 .. picture.w - 1, row \in 0 .. picture.h - 1 DEF FrameWhole
  <2>13. Pixels!PictureAt(col, row)
           = <<Pixels!Plane("Y", col, row), Pixels!Plane("UV", 2 * c, r), Pixels!Plane("UV", 2 * c + 1, r)>>
    BY ONLY <1>4, <2>3 DEF Pixels!PictureAt
  <2> QED
    BY ONLY <2>8, <2>10, <2>11, <2>12, <2>13
<1> QED
  BY <1>3, <1>4

\* The frame is painted: its buffer is as long as its size says.
LEMMA FrameLongEnough ==
  ASSUME StreamFits, FrameWhole
  PROVE  Pixels!LongEnough
<1>1. PICK w \in Nat \ {0}, h \in Nat \ {0} : w = picture.w /\ h = picture.h
  BY StreamIs DEF Sized
<1>2. pixelsFrame.w = w /\ pixelsFrame.h = h
  BY <1>1 DEF FrameWhole
<1>3. Pixels!Lumas = h * w /\ h * w \in Nat
  BY <1>2 DEF Pixels!Lumas
<1>4. \A n \in Nat : Cardinality(0 .. n - 1) = n
  <2>1. ASSUME NEW n \in Nat PROVE Cardinality(0 .. n - 1) = n
    <3>1. 0 \in Int /\ n - 1 \in Int
      OBVIOUS
    <3>2. Cardinality(0 .. n - 1) = IF 0 > n - 1 THEN 0 ELSE n - 1 - 0 + 1
      BY ONLY <3>1, FS_Interval
    <3> QED
      BY ONLY <3>2, n \in Nat
  <2> QED
    BY <2>1
<1>5. CASE decoder = "vt"
  <2>1. DOMAIN pixelsFrame.buffer = 0 .. (h * w) - 1
    BY <1>1, <1>5 DEF FrameWhole
  <2>2. Pixels!Cardinality(DOMAIN pixelsFrame.buffer) = h * w
    BY <1>3, <1>4, <2>1, PixelsConstants
  <2> QED
    BY ONLY <1>3, <1>5, <2>2 DEF Pixels!LongEnough
<1>6. CASE decoder # "vt"
  <2>1. w % 2 = 0 /\ h % 2 = 0
    BY <1>1, StreamIs
  <2>2. PICK u \in Nat, v \in Nat : u = w \div 2 /\ w = 2 * u /\ v = h \div 2 /\ h = 2 * v
    BY <2>1, EvenHalves DEF Halves
  <2>3. Pixels!ChromaWidth = w /\ Pixels!ChromaRows = v
    <3>1. Pixels!ChromaWidth = ((w + 1) \div 2) * 2 /\ Pixels!ChromaRows = (h + 1) \div 2
      BY <1>2 DEF Pixels!ChromaWidth, Pixels!ChromaRows
    <3>2. (2 * u + 1) \div 2 = u /\ (2 * v + 1) \div 2 = v
      BY DivisionOnly, 1 \in 0 .. 2 - 1
    <3> QED
      BY ONLY <2>2, <3>1, <3>2
  <2>4. PICK n \in Nat : n = h * w + v * w
    OBVIOUS
  <2>5. DOMAIN pixelsFrame.buffer = 0 .. n - 1
    <3>1. DOMAIN pixelsFrame.buffer = 0 .. picture.h * picture.w + (picture.h \div 2) * picture.w - 1
      BY ONLY <1>6, FrameWhole DEF FrameWhole
    <3>2. picture.h * picture.w = h * w /\ (picture.h \div 2) * picture.w = v * w
      BY ONLY <1>1, <2>2
    <3> QED
      BY ONLY <2>4, <3>1, <3>2
  <2>6. Pixels!Cardinality(DOMAIN pixelsFrame.buffer) = n
    BY <1>4, <2>5, PixelsConstants
  <2>7. v * w = w * v
    OBVIOUS
  <2> QED
    BY ONLY <1>3, <1>6, <2>3, <2>4, <2>6, <2>7, n \in Nat DEF Pixels!LongEnough
<1> QED
  BY <1>5, <1>6

\* The planes of a pixel name the column and the row that it is of.
LEMMA PictureNames ==
  ASSUME NEW x, NEW y
  PROVE  Pixels!PictureAt(x, y)[1][2] = x /\ Pixels!PictureAt(x, y)[1][3] = y
<1>1. CASE decoder = "vt"
  BY <1>1 DEF Pixels!PictureAt, Pixels!Plane
<1>2. CASE decoder # "vt"
  BY <1>2 DEF Pixels!PictureAt, Pixels!Plane
<1> QED
  BY <1>1, <1>2

\* What is painted within a rectangle is the picture, scaled to it, and beside it
\* there is nothing.
Painted(d, r) ==
  /\ DOMAIN d = (0 .. window.w - 1) \X (0 .. window.h - 1)
  /\ \A i \in 0 .. r.w - 1, j \in 0 .. r.h - 1 :
       d[<<r.x + i, r.y + j>>]
         = Pixels!PictureAt((i * picture.w) \div r.w, (j * picture.h) \div r.h)
  /\ \A p \in DOMAIN d :
       \/ p[1] \in r.x .. r.x + r.w - 1 /\ p[2] \in r.y .. r.y + r.h - 1
       \/ d[p] = Pixels!Black

\* A rectangle where a picture may be painted.
Placed(r) ==
  /\ r \in [x : 0 .. window.w - 1, y : 0 .. window.h - 1, w : 1 .. window.w, h : 1 .. window.h]
  /\ Pixels!InShape(r) /\ (r.w = window.w \/ r.h = window.h)
  /\ window.w - r.w - 2 * r.x \in {0, 1} /\ window.h - r.h - 2 * r.y \in {0, 1}

LEMMA PaintedTrue ==
  ASSUME StreamFits, NEW r, Placed(r), Painted(dest, r)
  PROVE  Pixels!PictureTrue
<1>1. PICK w \in Nat \ {0}, h \in Nat \ {0}, m \in Nat \ {0}, n \in Nat \ {0} :
        w = picture.w /\ h = picture.h /\ m = r.w /\ n = r.h
  <2>1. picture.w \in Nat \ {0} /\ picture.h \in Nat \ {0} /\ window.w \in Nat \ {0} /\ window.h \in Nat \ {0}
    BY StreamIs DEF Sized
  <2>2. r.w \in 1 .. window.w /\ r.h \in 1 .. window.h
    BY DEF Placed
  <2> QED
    BY ONLY <2>1, <2>2
<1> DEFINE cols == [i \in 0 .. r.w - 1 |-> dest[<<r.x + i, r.y>>][1][2]]
           rows == [j \in 0 .. r.h - 1 |-> dest[<<r.x, r.y + j>>][1][3]]
<1>2. r.x \in Int /\ r.y \in Int
  BY StreamIs DEF Placed, Sized
<1>3. \A i \in 0 .. m - 1, j \in 0 .. n - 1 :
        dest[<<r.x + i, r.y + j>>] = Pixels!PictureAt((i * w) \div m, (j * h) \div n)
  BY ONLY <1>1, Painted(dest, r) DEF Painted
<1>4. cols = [i \in 0 .. m - 1 |-> (i * w) \div m]
  <2>1. ASSUME NEW i \in 0 .. m - 1
        PROVE  dest[<<r.x + i, r.y>>][1][2] = (i * w) \div m
    <3>1. 0 \in 0 .. n - 1 /\ r.y + 0 = r.y
      BY <1>2
    <3>2. dest[<<r.x + i, r.y>>] = Pixels!PictureAt((i * w) \div m, (0 * h) \div n)
      BY ONLY <1>3, <3>1, i \in 0 .. m - 1
    <3> QED
      BY <3>2, PictureNames
  <2> QED
    BY <1>1, <2>1
<1>5. rows = [j \in 0 .. n - 1 |-> (j * h) \div n]
  <2>1. ASSUME NEW j \in 0 .. n - 1
        PROVE  dest[<<r.x, r.y + j>>][1][3] = (j * h) \div n
    <3>1. 0 \in 0 .. m - 1 /\ r.x + 0 = r.x
      BY <1>2
    <3>2. dest[<<r.x, r.y + j>>] = Pixels!PictureAt((0 * w) \div m, (j * h) \div n)
      BY ONLY <1>3, <3>1, j \in 0 .. n - 1
    <3> QED
      BY <3>2, PictureNames
  <2> QED
    BY <1>1, <2>1
<1> HIDE DEF cols, rows
<1>6. Pixels!InOrder(cols, picture.w, r.w) /\ Pixels!InOrder(rows, picture.h, r.h)
  <2>1. Pixels!InOrder(cols, w, m)
    BY <1>4, ColumnsShown
  <2>2. Pixels!InOrder(rows, h, n)
    BY <1>5, ColumnsShown
  <2> QED
    BY ONLY <1>1, <2>1, <2>2
<1>7. \A i \in 0 .. r.w - 1, j \in 0 .. r.h - 1 :
        dest[<<r.x + i, r.y + j>>] = Pixels!PictureAt(cols[i], rows[j])
  BY ONLY <1>1, <1>3, <1>4, <1>5
<1>8. \A p \in DOMAIN dest :
        \/ p[1] \in r.x .. r.x + r.w - 1 /\ p[2] \in r.y .. r.y + r.h - 1
        \/ dest[p] = Pixels!Black
  BY ONLY Painted(dest, r) DEF Painted
<1>9. \E c \in {[i \in 0 .. r.w - 1 |-> dest[<<r.x + i, r.y>>][1][2]]} :
        \E s \in {[j \in 0 .. r.h - 1 |-> dest[<<r.x, r.y + j>>][1][3]]} :
          /\ Pixels!InOrder(c, picture.w, r.w) /\ Pixels!InOrder(s, picture.h, r.h)
          /\ \A i \in 0 .. r.w - 1, j \in 0 .. r.h - 1 :
               dest[<<r.x + i, r.y + j>>] = Pixels!PictureAt(c[i], s[j])
  <2>1. cols \in {[i \in 0 .. r.w - 1 |-> dest[<<r.x + i, r.y>>][1][2]]}
    BY DEF cols
  <2>2. rows \in {[j \in 0 .. r.h - 1 |-> dest[<<r.x, r.y + j>>][1][3]]}
    BY DEF rows
  <2> QED
    BY ONLY <1>6, <1>7, <2>1, <2>2
<1> QED
  BY ONLY <1>8, <1>9, Placed(r) DEF Placed, Pixels!PictureTrue

\* A picture as large as the window is painted pixel by pixel.
LEMMA OneToOneTrue ==
  ASSUME StreamFits, FrameWhole, window.w = picture.w, window.h = picture.h,
         NEW r, r = [x |-> 0, y |-> 0, w |-> picture.w, h |-> picture.h]
  PROVE  Placed(r) /\ Painted(Pixels!OneToOne, r)
<1>1. PICK w \in Nat \ {0}, h \in Nat \ {0} : w = picture.w /\ h = picture.h
  BY StreamIs DEF Sized
<1>2. r.x = 0 /\ r.y = 0 /\ r.w = w /\ r.h = h /\ window.w = w /\ window.h = h
  BY ONLY <1>1, window.w = picture.w, window.h = picture.h,
          r = [x |-> 0, y |-> 0, w |-> picture.w, h |-> picture.h]
<1>3. Placed(r)
  <2>1. w * h = h * w /\ w * h \in Nat
    OBVIOUS
  <2>2. 2 * (w * h - h * w) = 0
    BY ONLY <2>1
  <2>3. Pixels!InShape(r)
    BY ONLY <1>1, <1>2, <2>2, w \in Nat \ {0} DEF Pixels!InShape
  <2>4. r \in [x : 0 .. w - 1, y : 0 .. h - 1, w : 1 .. w, h : 1 .. h]
    BY ONLY <1>1, w \in Nat \ {0}, h \in Nat \ {0},
            r = [x |-> 0, y |-> 0, w |-> picture.w, h |-> picture.h]
  <2>5. w - w - 2 * 0 \in {0, 1} /\ h - h - 2 * 0 \in {0, 1}
    OBVIOUS
  <2> QED
    BY ONLY <1>2, <2>3, <2>4, <2>5 DEF Placed
<1>4. Pixels!OneToOne = [p \in (0 .. w - 1) \X (0 .. h - 1) |-> Pixels!PixelOf(p[1], p[2])]
  BY <1>2 DEF Pixels!OneToOne
<1>5. ASSUME NEW i \in 0 .. w - 1, NEW j \in 0 .. h - 1
      PROVE  Pixels!OneToOne[<<0 + i, 0 + j>>] = Pixels!PictureAt((i * w) \div w, (j * h) \div h)
  <2>1. 0 + i = i /\ 0 + j = j /\ i \in Nat /\ j \in Nat /\ i * w = w * i + 0 /\ j * h = h * j + 0
        /\ 0 \in 0 .. w - 1 /\ 0 \in 0 .. h - 1
    OBVIOUS
  <2>2. (w * i + 0) \div w = i /\ (h * j + 0) \div h = j
    BY ONLY <2>1, DivisionOnly, w \in Nat \ {0}, h \in Nat \ {0}
  <2>3. Pixels!OneToOne[<<i, j>>] = Pixels!PixelOf(i, j)
    BY ONLY <1>4, i \in 0 .. w - 1, j \in 0 .. h - 1
  <2>4. Pixels!PixelOf(i, j) = Pixels!PictureAt(i, j)
    BY <1>1, PixelIs
  <2> QED
    BY ONLY <2>1, <2>2, <2>3, <2>4
<1>6. \A p \in DOMAIN Pixels!OneToOne : p[1] \in 0 .. 0 + w - 1 /\ p[2] \in 0 .. 0 + h - 1
  <2>1. 0 + w = w /\ 0 + h = h
    OBVIOUS
  <2> QED
    BY ONLY <1>4, <2>1
<1>7. DOMAIN Pixels!OneToOne = (0 .. window.w - 1) \X (0 .. window.h - 1)
  BY ONLY <1>2, <1>4
<1>8. Painted(Pixels!OneToOne, r)
  BY ONLY <1>1, <1>2, <1>5, <1>6, <1>7 DEF Painted
<1> QED
  BY <1>3, <1>8

\* Any other is scaled into the rectangle that has its shape.
LEMMA ScaleTrue ==
  ASSUME StreamFits, FrameWhole,
         NEW r, r = Pixels!AspectFit([w |-> pixelsFrame.w, h |-> pixelsFrame.h], window)
  PROVE  Placed(r) /\ Painted(Pixels!Scale(r), r)
<1>1. PICK w \in Nat \ {0}, h \in Nat \ {0} : w = picture.w /\ h = picture.h
  BY StreamIs DEF Sized
<1>2. pixelsFrame.w = w /\ pixelsFrame.h = h
  BY <1>1 DEF FrameWhole
<1>3. PICK W \in Nat \ {0}, H \in Nat \ {0} : W = window.w /\ H = window.h
  BY StreamIs DEF Sized
<1>4. /\ Placed(r) /\ (r.w = window.w => r.x = 0) /\ (r.h = window.h => r.y = 0)
      /\ r.x + r.w <= window.w /\ r.y + r.h <= window.h
  <2>1. PICK f : f = [w |-> w, h |-> h]
    OBVIOUS
  <2>2. f.w = w /\ f.h = h
    BY ONLY <2>1
  <2>3. Sized(f) /\ Sized(window) /\ f.w = picture.w /\ f.h = picture.h
    BY ONLY <1>1, <1>3, <2>2, w \in Nat \ {0}, h \in Nat \ {0}, W \in Nat \ {0}, H \in Nat \ {0} DEF Sized
  <2>4. r = Pixels!AspectFit(f, window)
    BY ONLY <1>2, <2>1, r = Pixels!AspectFit([w |-> pixelsFrame.w, h |-> pixelsFrame.h], window)
  <2> QED
    BY ONLY <2>3, <2>4, FittedInto DEF Placed
<1>5. PICK x \in Nat, y \in Nat, m \in Nat \ {0}, n \in Nat \ {0} : x = r.x /\ y = r.y /\ m = r.w /\ n = r.h
  <2>1. r.x \in 0 .. W - 1 /\ r.y \in 0 .. H - 1 /\ r.w \in 1 .. W /\ r.h \in 1 .. H
    BY ONLY <1>3, <1>4 DEF Placed
  <2> QED
    BY ONLY <2>1, W \in Nat \ {0}, H \in Nat \ {0}
<1>6. x + m <= W /\ y + n <= H /\ (m = W => x = 0) /\ (n = H => y = 0)
  BY ONLY <1>3, <1>4, <1>5
<1>7. Pixels!Scale(r) = [p \in (0 .. W - 1) \X (0 .. H - 1) |->
        IF p[1] - x \in 0 .. m - 1 /\ p[2] - y \in 0 .. n - 1
        THEN Pixels!PixelOf(((p[1] - x) * w) \div m, ((p[2] - y) * h) \div n)
        ELSE IF m < W \/ n < H THEN Pixels!Black ELSE Pixels!Old]
  BY ONLY <1>2, <1>3, <1>5 DEF Pixels!Scale
<1>8. ASSUME NEW i \in 0 .. m - 1, NEW j \in 0 .. n - 1
      PROVE  Pixels!Scale(r)[<<x + i, y + j>>] = Pixels!PictureAt((i * w) \div m, (j * h) \div n)
  <2>1. x + i \in 0 .. W - 1 /\ y + j \in 0 .. H - 1 /\ (x + i) - x = i /\ (y + j) - y = j
    BY ONLY <1>6, i \in 0 .. m - 1, j \in 0 .. n - 1, x \in Nat, y \in Nat, W \in Nat, H \in Nat
  <2>2. Pixels!Scale(r)[<<x + i, y + j>>] = Pixels!PixelOf((i * w) \div m, (j * h) \div n)
    BY ONLY <1>7, <2>1, i \in 0 .. m - 1, j \in 0 .. n - 1
  <2>3. (i * w) \div m \in 0 .. w - 1 /\ (j * h) \div n \in 0 .. h - 1
    <3>1. PICK cols, rows : /\ cols = [k \in 0 .. m - 1 |-> (k * w) \div m]
                            /\ rows = [k \in 0 .. n - 1 |-> (k * h) \div n]
      OBVIOUS
    <3>2. (\A k \in 0 .. m - 1 : cols[k] \in 0 .. w - 1) /\ (\A k \in 0 .. n - 1 : rows[k] \in 0 .. h - 1)
      BY <3>1, ColumnsShown
    <3>3. cols[i] = (i * w) \div m /\ rows[j] = (j * h) \div n
      BY <3>1
    <3> QED
      BY ONLY <3>2, <3>3, i \in 0 .. m - 1, j \in 0 .. n - 1
  <2>4. Pixels!PixelOf((i * w) \div m, (j * h) \div n) = Pixels!PictureAt((i * w) \div m, (j * h) \div n)
    BY <1>1, <2>3, PixelIs
  <2> QED
    BY ONLY <2>2, <2>4
<1>9. ASSUME NEW p \in (0 .. W - 1) \X (0 .. H - 1)
      PROVE  \/ p[1] \in x .. x + m - 1 /\ p[2] \in y .. y + n - 1
             \/ Pixels!Scale(r)[p] = Pixels!Black
  <2>1. PICK a \in 0 .. W - 1, b \in 0 .. H - 1 : a = p[1] /\ b = p[2]
    OBVIOUS
  <2>2. CASE a - x \in 0 .. m - 1 /\ b - y \in 0 .. n - 1
    <3>1. a \in x .. x + m - 1 /\ b \in y .. y + n - 1
      BY ONLY <2>2, a \in 0 .. W - 1, b \in 0 .. H - 1, x \in Nat, y \in Nat, m \in Nat, n \in Nat, W \in Nat, H \in Nat
    <3> QED
      BY ONLY <2>1, <3>1
  <2>3. CASE ~(a - x \in 0 .. m - 1 /\ b - y \in 0 .. n - 1)
    <3>1. m < W \/ n < H
      <4>1. m = W /\ n = H => a - x \in 0 .. m - 1 /\ b - y \in 0 .. n - 1
        BY ONLY <1>6, a \in 0 .. W - 1, b \in 0 .. H - 1, x \in Nat, y \in Nat, m \in Nat, n \in Nat, W \in Nat, H \in Nat
      <4> QED
        BY ONLY <1>6, <2>3, <4>1, x \in Nat, y \in Nat, m \in Nat, n \in Nat, W \in Nat, H \in Nat
    <3> QED
      BY ONLY <1>7, <2>1, <2>3, <3>1, p \in (0 .. W - 1) \X (0 .. H - 1)
  <2> QED
    BY <2>2, <2>3
<1>10. DOMAIN Pixels!Scale(r) = (0 .. W - 1) \X (0 .. H - 1)
  BY ONLY <1>7
<1>11. Painted(Pixels!Scale(r), r)
  BY ONLY <1>1, <1>3, <1>5, <1>8, <1>9, <1>10 DEF Painted
<1> QED
  BY <1>4, <1>11

\* The stream is as it was, a frame that waits to be painted is whole, and what is
\* painted is the picture.
PictureIn(r) == Placed(r) /\ Painted(dest, r)

PixelsInv ==
  /\ StreamFits
  /\ pixelsAt = "rendering" => FrameWhole
  /\ pixelsAt = "painted" => \E r : PictureIn(r)

LEMMA PixelsInit ==
  ASSUME Pixels!Init
  PROVE  PixelsInv
<1>1. pixelsAt = "decoding"
  BY DEF Pixels!Init
<1>2. /\ decoder \in {"mf", "d3d12", "vt"} /\ pixelsSession \in SessionSizes /\ window \in Windows
      /\ picture \in IF decoder = "d3d12" THEN {pixelsSession}
                     ELSE {pixelsSession} \cup Pixels!Rungs(pixelsSession)
      /\ aperture \in {Pixels!NoFrame, picture}
      /\ \E padding \in RowPadding : pitch = Pixels!Coded.w + padding
  BY DEF Pixels!Init
<1>3. Sized(picture)
  BY <1>2, PixelsConstants, RungIs
<1>4. Pixels!Coded.w \in Nat
  <2>1. CASE decoder = "mf"
    <3>1. Pixels!Coded.w = Pixels!Blocks(picture.w)
      BY <2>1 DEF Pixels!Coded
    <3> QED
      BY <1>3, <3>1, WholeBlocks DEF Sized
  <2>2. CASE decoder # "mf"
    BY <1>3, <2>2 DEF Pixels!Coded, Sized
  <2> QED
    BY <2>1, <2>2
<1>5. pitch \in Nat /\ pitch >= Pixels!Coded.w
  <2>1. PICK padding \in Nat : pitch = Pixels!Coded.w + padding
    BY <1>2, PixelsConstants
  <2> QED
    BY ONLY <1>4, <2>1
<1> QED
  BY ONLY <1>1, <1>2, <1>5 DEF PixelsInv, StreamFits

LEMMA RenderPaints ==
  ASSUME StreamFits, FrameWhole, Pixels!RenderFrame
  PROVE  \E r : Placed(r) /\ Painted(dest', r)
<1>1. Pixels!LongEnough
  BY FrameLongEnough
<1>2. pixelsFrame.w = picture.w /\ pixelsFrame.h = picture.h
  BY DEF FrameWhole
<1>3. CASE window = [w |-> pixelsFrame.w, h |-> pixelsFrame.h]
  <2>1. dest' = Pixels!OneToOne
    BY <1>1, <1>3 DEF Pixels!RenderFrame
  <2>2. window.w = picture.w /\ window.h = picture.h
    BY ONLY <1>2, <1>3
  <2> QED
    BY <2>1, <2>2, OneToOneTrue
<1>4. CASE window # [w |-> pixelsFrame.w, h |-> pixelsFrame.h]
  <2>1. dest' = Pixels!Scale(Pixels!AspectFit([w |-> pixelsFrame.w, h |-> pixelsFrame.h], window))
    BY <1>1, <1>4 DEF Pixels!RenderFrame
  <2> QED
    BY <2>1, ScaleTrue
<1> QED
  BY <1>3, <1>4

LEMMA PixelsStep ==
  ASSUME PixelsInv, [Pixels!Next]_pixels
  PROVE  PixelsInv'
<1>1. CASE UNCHANGED pixels
  <2>1. /\ decoder' = decoder /\ pixelsSession' = pixelsSession /\ picture' = picture
        /\ aperture' = aperture /\ pitch' = pitch /\ pixelsFrame' = pixelsFrame
        /\ window' = window /\ dest' = dest /\ pixelsAt' = pixelsAt
    BY <1>1 DEF pixels
  <2>2. StreamFits' /\ FrameWhole' = FrameWhole
    BY ONLY <2>1, PixelsInv DEF PixelsInv, StreamFits, Pixels!Coded, FrameWhole
  <2>3. \A r : PictureIn(r) => PictureIn(r)'
    BY ONLY <2>1 DEF PictureIn, Placed, Painted, Pixels!InShape, Pixels!PictureAt
  <2>4. pixelsAt' = "painted" => \E r : PictureIn(r)'
    BY ONLY <2>1, <2>3, PixelsInv DEF PixelsInv
  <2>5. pixelsAt' = "rendering" => FrameWhole'
    BY ONLY <2>1, <2>2, PixelsInv DEF PixelsInv
  <2> QED
    BY ONLY <2>2, <2>4, <2>5 DEF PixelsInv
<1>2. ASSUME Pixels!Next
      PROVE  StreamFits'
  <2>1. /\ decoder' = decoder /\ pixelsSession' = pixelsSession /\ picture' = picture
        /\ aperture' = aperture /\ pitch' = pitch /\ window' = window
    BY <1>2 DEF Pixels!Next, Pixels!SampleToFrame, Pixels!ReadBack, Pixels!CopyBGRA, Pixels!RenderFrame
  <2> QED
    BY ONLY <2>1, PixelsInv DEF PixelsInv, StreamFits, Pixels!Coded
<1>3. CASE Pixels!SampleToFrame \/ Pixels!ReadBack \/ Pixels!CopyBGRA
  <2>1. FrameWhole'
    BY <1>3, SampleWhole, ReadBackWhole, CopyWhole DEF PixelsInv
  <2>2. pixelsAt' = "rendering"
    BY <1>3 DEF Pixels!SampleToFrame, Pixels!ReadBack, Pixels!CopyBGRA
  <2>3. StreamFits'
    BY <1>2, <1>3 DEF Pixels!Next
  <2> QED
    BY ONLY <2>1, <2>2, <2>3 DEF PixelsInv
<1>4. CASE Pixels!RenderFrame
  <2>1. /\ decoder' = decoder /\ picture' = picture /\ window' = window /\ pixelsAt' = "painted"
        /\ pixelsAt = "rendering"
    BY <1>4 DEF Pixels!RenderFrame
  <2>2. PICK r : Placed(r) /\ Painted(dest', r)
    BY <1>4, <2>1, RenderPaints DEF PixelsInv
  <2>3. PictureIn(r)'
    BY ONLY <2>1, <2>2 DEF PictureIn, Placed, Painted, Pixels!InShape, Pixels!PictureAt
  <2>4. StreamFits'
    BY <1>2, <1>4 DEF Pixels!Next
  <2> QED
    BY ONLY <2>1, <2>3, <2>4 DEF PixelsInv
<1> QED
  BY <1>1, <1>3, <1>4 DEF Pixels!Next

LEMMA PicturePainted ==
  ASSUME PixelsInv
  PROVE  Pixels!PictureTrue
<1>1. CASE pixelsAt = "painted"
  BY <1>1, PaintedTrue DEF PixelsInv, PictureIn
<1>2. CASE pixelsAt # "painted"
  BY <1>2 DEF Pixels!PictureTrue
<1> QED
  BY <1>1, <1>2

-----------------------------------------------------------------------------
(* The window's picture.                                                   *)

\* The window shows the host's picture, whole and in its shape, from memory of any
\* pitch and padding and for pictures, apertures and windows of any size, and each
\* view the processor reads is of a texture that is there and of the newest frame,
\* whatever textures are made and dropped, the window resized, the processor rebuilt
\* or a call failed.
THEOREM PictureIsTrue == Spec => []PictureTrue
<1>1. Init => PixelsInv /\ PresenterInv
  BY PixelsInit, PresenterInit DEF Init
<1>2. PixelsInv /\ PresenterInv /\ [Next]_vars => PixelsInv' /\ PresenterInv'
  <2>1. [Next]_vars => [Pixels!Next]_pixels /\ (Presenter!Next \/ UNCHANGED presenter)
    BY DEF Next, vars
  <2> QED
    BY <2>1, PixelsStep, PresenterStep, PresenterStutter
<1>3. PixelsInv /\ PresenterInv => PictureTrue
  BY PicturePainted, ScreenIsTrue DEF PictureTrue
<1> QED
  BY <1>1, <1>2, <1>3, PTL DEF Spec
-----------------------------------------------------------------------------
(* FrameTimes: where a frame is placed in time, and what queuing is         *)
(* reported.                                                                *)

Periods(d) == \E k \in Int : d = Period * k

\* A time placed for o is whole periods early, by one at least: the viewer's time
\* begins with the period of the first frame, the host's a period before.
Early(placed, o) == placed \in Nat /\ o \in Nat /\ Periods(placed - o) /\ placed - o <= -Period

\* Frames are captured one after the other, and wait for a resend no longer than it takes.
Captured(n) ==
  /\ timesSent \in [1 .. n -> Nat]
  /\ \A i \in 1 .. n : Period <= timesSent[i] /\ timesSent[i] <= now
  /\ \A i, j \in 1 .. n : i < j => timesSent[i] < timesSent[j]
  /\ arrived \subseteq 1 .. n
  /\ \A i \in 1 .. n : i \in arrived \/ now - timesSent[i] <= MaxResend

LastPlaced ==
  /\ timesLast # Times!None => Early(timesLast, origin) /\ origin <= now
  /\ timesLast = Times!None <=> skew = Times!None

\* A bucket of the time for which frames have been placed alike is off by as much
\* as they are, and by the frame's delay.
InBucket(b) ==
  /\ b.at \in Nat /\ b.at <= now /\ b.transit \in Int
  /\ now - b.at < sure => 0 <= b.transit + skew /\ b.transit + skew <= MaxDelay

\* What is reported next is of frames that have arrived just now.
ArrivedNow ==
  interval # Times!None =>
    /\ interval \in Int
    /\ \E b \in buckets : b.at = now /\ interval <= b.transit
    /\ \A b \in buckets : now - b.at < DelayWindow

TimesInv ==
  /\ now \in Nat /\ sure \in 0 .. DelayWindow /\ skew \in Int
  /\ Period <= now
  /\ \E n \in 0 .. TimesMaxFrames : Captured(n)
  /\ next \in 1 .. TimesMaxFrames + 1 /\ next \notin arrived
  /\ LastPlaced
  /\ \A b \in buckets : InBucket(b)
  /\ skew = Times!None => buckets = {}
  /\ ArrivedNow

LEMMA TimesConstants ==
  /\ Period \in Nat /\ Period > 1 /\ DelayWindow \in Nat /\ DelayWindow > 0
  /\ MaxDelay \in Nat /\ MaxResend \in Nat /\ 2 * MaxResend < Period /\ MaxDelay <= MaxResend
  /\ TimesMaxFrames \in Nat /\ Times!None = -1 /\ Times!Half \in Nat /\ 2 * Times!Half <= Period
<1>1. /\ {Period, DelayWindow, MaxDelay, MaxResend, TimesMaxFrames, MaxTime} \subseteq Nat
      /\ 2 * MaxResend < Period /\ MaxDelay <= MaxResend /\ Period > 1 /\ DelayWindow > 0
  BY PartsAssumption DEF Times!Assumption
<1>2. Times!Half \in Nat /\ 2 * Times!Half <= Period
  BY <1>1 DEF Times!Half
<1> QED
  BY <1>1, <1>2 DEF Times!None

\* Whole periods add up to whole periods, and there is none between two of them.
LEMMA PeriodsAdd ==
  ASSUME NEW d \in Int, NEW e \in Int, Periods(d), Periods(e)
  PROVE  Periods(d + e) /\ Periods(d - e)
<1>1. PICK j \in Int : d = Period * j
  BY DEF Periods
<1>2. PICK k \in Int : e = Period * k
  BY DEF Periods
<1>3. Period \in Nat
  BY TimesConstants
<1>4. Period * (j + k) = Period * j + Period * k /\ Period * (j - k) = Period * j - Period * k
  BY <1>3
<1>5. j + k \in Int /\ j - k \in Int
  OBVIOUS
<1> QED
  BY <1>1, <1>2, <1>4, <1>5 DEF Periods

LEMMA PeriodsChain ==
  ASSUME NEW a \in Int, NEW b \in Int, NEW c \in Int, Periods(a - b)
  PROVE  Periods(b - a) /\ (Periods(b - c) => Periods(a - c))
<1>1. PICK j \in Int : a - b = Period * j
  BY DEF Periods
<1>2. Period \in Nat
  BY TimesConstants
<1>3. b - a = Period * (-j) /\ -j \in Int
  <2>1. Period * (-j) = -(Period * j) /\ Period * j \in Int
    BY <1>2
  <2> QED
    BY ONLY <1>1, <2>1, a \in Int, b \in Int, j \in Int
<1>4. ASSUME Periods(b - c) PROVE Periods(a - c)
  <2>1. Periods((a - b) + (b - c))
    BY <1>4, PeriodsAdd
  <2>2. (a - b) + (b - c) = a - c
    OBVIOUS
  <2> QED
    BY <2>1, <2>2
<1> QED
  BY <1>3, <1>4 DEF Periods

LEMMA OnePeriod == Periods(Period) /\ Periods(0)
<1>1. Period \in Nat
  BY TimesConstants
<1>2. Period = Period * 1 /\ 0 = Period * 0 /\ 1 \in Int /\ 0 \in Int
  BY <1>1
<1> QED
  BY <1>2 DEF Periods

LEMMA NoneBetween ==
  ASSUME NEW d \in Int, Periods(d)
  PROVE  /\ d < 0 => d <= -Period
         /\ d > 0 => d >= Period
<1>1. PICK k \in Int : d = Period * k
  BY DEF Periods
<1>2. Period \in Nat \ {0}
  BY TimesConstants
<1>3. Period * 0 = 0 /\ Period * k \in Int
  BY <1>2
<1>4. CASE k < 0
  <2>1. Period * k + Period <= Period * 0
    BY <1>2, <1>4, Multiples
  <2> QED
    BY <1>1, <1>2, <1>3, <2>1
<1>5. CASE k > 0
  <2>1. Period * 0 + Period <= Period * k
    BY <1>2, <1>5, Multiples
  <2> QED
    BY <1>1, <1>2, <1>3, <2>1
<1>6. CASE k = 0
  BY <1>1, <1>3, <1>6
<1> QED
  BY <1>4, <1>5, <1>6

\* What is left of a time on the wire is less than a period, and whole periods off.
LEMMA WireIs ==
  ASSUME NEW x \in Nat
  PROVE  Times!Wire(x) \in 0 .. Period - 1 /\ Periods(x - Times!Wire(x)) /\ Times!Wire(x) <= x
<1>1. Period \in Nat \ {0}
  BY TimesConstants
<1>2. /\ x \div Period \in Nat /\ x % Period \in 0 .. Period - 1
      /\ x = Period * (x \div Period) + (x % Period)
  BY <1>1, DivisionIs
<1>3. PICK q \in Nat : q = x \div Period
  BY <1>2
<1>4. PICK r \in 0 .. Period - 1 : r = x % Period
  BY <1>2
<1>5. x = Period * q + r /\ Period * q \in Nat
  BY <1>1, <1>2, <1>3, <1>4
<1>6. x - r = Period * q /\ q \in Int
  BY <1>5
<1>7. Periods(x - r)
  BY <1>6 DEF Periods
<1>8. r <= x
  BY <1>5
<1> QED
  BY <1>4, <1>7, <1>8 DEF Times!Wire

LEMMA PeriodIs ==
  ASSUME NEW l \in Nat
  PROVE  /\ Times!PeriodOf(l) \in Nat /\ Times!PeriodOf(l) <= l /\ l < Times!PeriodOf(l) + Period
         /\ Periods(Times!PeriodOf(l))
<1>1. Period \in Nat
  BY TimesConstants
<1>2. l % Period = Times!Wire(l)
  BY DEF Times!Wire
<1>3. Times!PeriodOf(l) = l - Times!Wire(l)
  BY <1>2 DEF Times!PeriodOf
<1> QED
  BY ONLY <1>1, <1>3, WireIs, l \in Nat

LEMMA DistanceIs ==
  ASSUME NEW a \in Int, NEW b \in Int
  PROVE  Times!Distance(a, b) = IF a < b THEN b - a ELSE a - b
  BY DEF Times!Distance

\* The least of a set of numbers.
LEMMA TimesLeast ==
  ASSUME NEW S \in SUBSET Nat, S # {}
  PROVE  Times!Min(S) \in S /\ \A y \in S : Times!Min(S) <= y
<1>1. \E m \in S : \A y \in S : m <= y
  BY LeastElement
<1> QED
  BY <1>1 DEF Times!Min

LEMMA CandidatesAre ==
  ASSUME NEW raw \in Nat, NEW base \in Nat
  PROVE  /\ raw + base \in Times!Candidates(raw, base)
         /\ raw + (base + Period) \in Times!Candidates(raw, base)
         /\ base >= Period => raw + (base - Period) \in Times!Candidates(raw, base)
         /\ \A c \in Times!Candidates(raw, base) :
              \/ c = raw + base \/ c = raw + (base + Period)
              \/ base >= Period /\ c = raw + (base - Period)
<1>1. Period \in Nat
  BY TimesConstants
<1> DEFINE Starts == {p \in {base - Period, base, base + Period} : p >= 0}
<1>2. Times!Candidates(raw, base) = {raw + period : period \in Starts}
  BY DEF Times!Candidates
<1>3. base \in Starts /\ base + Period \in Starts /\ (base >= Period => base - Period \in Starts)
  BY <1>1
<1>4. \A p \in Starts : p = base \/ p = base + Period \/ (base >= Period /\ p = base - Period)
  BY <1>1
<1> HIDE DEF Starts
<1> QED
  BY ONLY <1>2, <1>3, <1>4

\* unwrap_pts_ns: of all the times that look alike on the wire, the nearest.
LEMMA UnwrapIs ==
  ASSUME NEW raw \in 0 .. Period - 1, NEW l \in Nat
  PROVE  /\ Times!Unwrap(raw, l) \in Nat /\ Periods(Times!Unwrap(raw, l) - raw)
         /\ \A t \in Nat : Periods(t - raw) =>
              Times!Distance(Times!Unwrap(raw, l), l) <= Times!Distance(t, l)
<1> DEFINE base0 == Times!PeriodOf(l)
           C == Times!Candidates(raw, base0)
           D == {Times!Distance(c, l) : c \in C}
           N == {c \in C : Times!Distance(c, l) = Times!Min(D)}
<1>1. Period \in Nat /\ Period > 1 /\ raw \in Nat /\ raw < Period
  BY TimesConstants
<1>2. PICK base \in Nat : base = base0 /\ base <= l /\ l < base + Period /\ Periods(base)
  BY PeriodIs
<1>3. /\ raw + base \in C /\ raw + (base + Period) \in C
      /\ base >= Period => raw + (base - Period) \in C
      /\ \A c \in C : \/ c = raw + base \/ c = raw + (base + Period)
                      \/ base >= Period /\ c = raw + (base - Period)
  BY ONLY <1>1, <1>2, CandidatesAre
<1> HIDE DEF C, base0
<1>4. \A c \in C : c \in Nat
  BY ONLY <1>1, <1>2, <1>3
<1>5. D \in SUBSET Nat /\ D # {}
  <2>1. \A c \in C : Times!Distance(c, l) \in Nat
    BY <1>4, DistanceIs
  <2> QED
    BY ONLY <2>1, <1>3
<1>6. Times!Min(D) \in D /\ \A y \in D : Times!Min(D) <= y
  BY <1>5, TimesLeast
<1>7. N \in SUBSET Nat /\ N # {}
  BY ONLY <1>4, <1>6
<1>8. Times!Unwrap(raw, l) = Times!Min(N)
  <2>1. l # Times!None
    BY TimesConstants
  <2> QED
    BY <2>1 DEF Times!Unwrap, C, base0
<1>9. PICK u \in N : u = Times!Unwrap(raw, l)
  BY <1>7, <1>8, TimesLeast
<1>10. u \in C /\ u \in Nat /\ \A c \in C : Times!Distance(u, l) <= Times!Distance(c, l)
  <2>1. u \in C /\ Times!Distance(u, l) = Times!Min(D) /\ u \in Nat
    BY ONLY <1>9, <1>7
  <2>2. \A c \in C : Times!Distance(c, l) \in D
    BY ONLY TRUE
  <2> QED
    BY ONLY <1>6, <2>1, <2>2
<1> HIDE DEF N, D
<1>11. Periods(u - raw)
  <2>1. Periods(base + Period) /\ Periods(base - Period)
    BY <1>1, <1>2, PeriodsAdd, OnePeriod
  <2>2. u - raw = base \/ u - raw = base + Period \/ u - raw = base - Period
    BY ONLY <1>1, <1>2, <1>3, <1>10
  <2> QED
    BY <1>2, <2>1, <2>2
<1>12. ASSUME NEW t \in Nat, Periods(t - raw)
       PROVE  Times!Distance(u, l) <= Times!Distance(t, l)
  <2> DEFINE e == t - raw - base
  <2>1. e \in Int /\ Periods(e)
    <3>1. t - raw \in Int /\ base \in Int
      BY <1>1, <1>2
    <3> QED
      BY <1>2, <1>12, <3>1, PeriodsAdd
  <2>2. t = raw + base + e
    BY <1>1, <1>2
  <2> HIDE DEF e
  <2>3. /\ e = 0 \/ e >= Period \/ e <= -Period
        /\ e - Period = 0 \/ e - Period >= Period \/ e - Period <= -Period
        /\ e + Period = 0 \/ e + Period >= Period \/ e + Period <= -Period
    <3>1. Periods(e - Period) /\ Periods(e + Period) /\ e - Period \in Int /\ e + Period \in Int
      BY <1>1, <2>1, PeriodsAdd, OnePeriod
    <3> QED
      BY ONLY <1>1, <2>1, <3>1, NoneBetween
  <2>4. e = 0 \/ e = Period \/ e = -Period \/ e >= 2 * Period \/ e <= -2 * Period
    BY ONLY <1>1, <2>1, <2>3
  <2>5. CASE e = 0 \/ e = Period \/ e = -Period
    <3>1. t \in C
      <4>1. ASSUME e = -Period PROVE base >= Period
        <5>1. base # 0
          BY ONLY <1>1, <2>2, <4>1, t \in Nat
        <5>2. base > 0
          BY ONLY <5>1, base \in Nat
        <5> QED
          BY ONLY <1>2, <5>2, base \in Nat, NoneBetween
      <4> QED
        BY ONLY <1>1, <1>2, <1>3, <2>2, <2>5, <4>1
    <3> QED
      BY ONLY <1>10, <3>1
  <2>6. CASE e >= 2 * Period \/ e <= -2 * Period
    <3>1. Times!Distance(u, l) <= Times!Distance(raw + base, l)
      BY ONLY <1>3, <1>10
    <3>2. Times!Distance(raw + base, l) < Period /\ Times!Distance(raw + base, l) \in Int
      BY ONLY <1>1, <1>2, base \in Nat, l \in Nat DEF Times!Distance
    <3>3. Times!Distance(t, l) >= Period /\ Times!Distance(t, l) \in Int
      <4>1. t - raw - base = e
        BY ONLY <1>1, <2>1, <2>2, base \in Nat
      <4> QED
        BY ONLY <1>1, <1>2, <2>1, <4>1, <2>6, base \in Nat, l \in Nat, t \in Nat DEF Times!Distance
    <3>4. Times!Distance(u, l) \in Int
      BY ONLY <1>10, l \in Nat DEF Times!Distance
    <3> QED
      BY ONLY <1>1, <3>1, <3>2, <3>3, <3>4
  <2> QED
    BY ONLY <2>4, <2>5, <2>6
<1> QED
  BY ONLY <1>9, <1>10, <1>11, <1>12

LEMMA FirstPlaced ==
  ASSUME NEW x \in Nat, x >= Period
  PROVE  Early(Times!Unwrap(Times!Wire(x), Times!None), x)
<1>1. PICK raw \in 0 .. Period - 1 : raw = Times!Wire(x) /\ Periods(x - raw)
  BY WireIs
<1>2. Times!Unwrap(raw, Times!None) = raw
  BY DEF Times!Unwrap
<1>3. Period \in Nat
  BY TimesConstants
<1>4. Periods(raw - x)
  <2>1. raw \in Int /\ x \in Int
    BY <1>3
  <2> QED
    BY ONLY <2>1, <1>1, PeriodsChain
<1>5. raw - x \in Int /\ raw - x < 0 /\ raw \in Nat
  BY <1>3
<1>6. raw - x <= -Period
  BY ONLY <1>4, <1>5, NoneBetween
<1> QED
  BY ONLY <1>1, <1>2, <1>4, <1>5, <1>6, x \in Nat DEF Early

\* A frame less than half a period before or after the one placed last is placed as
\* far from it as it was captured, if time reaches back so far; and no frame that comes
\* in time is placed later than the one before it was.
LEMMA PlacedNear ==
  ASSUME NEW l, NEW o, Early(l, o), NEW x \in Nat
  PROVE  /\ Times!Unwrap(Times!Wire(x), l) \in Nat
         /\ Periods(Times!Unwrap(Times!Wire(x), l) - (l + x - o))
         /\ \A t \in Nat : Periods(t - (l + x - o)) =>
              Times!Distance(Times!Unwrap(Times!Wire(x), l), l) <= Times!Distance(t, l)
<1>1. l \in Nat /\ o \in Nat /\ Periods(l - o)
  BY DEF Early
<1>2. PICK raw \in 0 .. Period - 1 : raw = Times!Wire(x) /\ Periods(x - raw)
  BY WireIs
<1>3. raw \in Int
  BY TimesConstants
<1>4. PICK u \in Nat : u = Times!Unwrap(raw, l) /\ Periods(u - raw)
  BY <1>1, UnwrapIs
<1>5. \A t \in Nat : Periods(t - raw) => Times!Distance(u, l) <= Times!Distance(t, l)
  BY ONLY <1>1, <1>4, UnwrapIs
<1>7. PICK s \in Int : s = l + x - o
  BY <1>1
<1>8. Periods(s - raw) /\ s - raw \in Int
  <2>1. s - x = l - o
    BY <1>1, <1>7
  <2>2. Periods(s - x)
    BY <1>1, <2>1
  <2>3. Periods(x - raw) /\ x \in Int
    BY <1>2
  <2>4. Periods(s - raw)
    BY ONLY <1>3, <2>2, <2>3, s \in Int, PeriodsChain
  <2> QED
    BY ONLY <1>3, <2>4, s \in Int
<1>9. Periods(u - s)
  <2>1. Periods(raw - s)
    BY ONLY <1>3, <1>8, s \in Int, PeriodsChain
  <2> QED
    BY ONLY <1>3, <1>4, <2>1, s \in Int, u \in Nat, PeriodsChain
<1>10. ASSUME NEW t \in Nat, Periods(t - s)
       PROVE  Times!Distance(u, l) <= Times!Distance(t, l)
  <2>1. Periods(t - raw)
    <3>1. Periods(t - s) /\ t \in Int
      BY <1>10
    <3>2. Periods(s - raw)
      BY <1>8
    <3> QED
      BY ONLY <1>3, <3>1, <3>2, s \in Int, PeriodsChain
  <2> QED
    BY <1>5, <2>1
<1> QED
  BY ONLY <1>2, <1>4, <1>7, <1>9, <1>10

LEMMA PlacedAlike ==
  ASSUME NEW l, NEW o, Early(l, o), NEW x \in Nat,
         2 * (x - o) < Period, 2 * (o - x) < Period, l + x - o >= 0
  PROVE  Times!Unwrap(Times!Wire(x), l) = l + x - o
<1>1. l \in Nat /\ o \in Nat /\ Period \in Nat
  BY TimesConstants DEF Early
<1>2. PICK u \in Nat : u = Times!Unwrap(Times!Wire(x), l) /\ Periods(u - (l + x - o))
  BY PlacedNear
<1>3. PICK t \in Nat : t = l + x - o
  BY <1>1
<1>4. Periods(t - t)
  BY <1>3, OnePeriod, t - t = 0
<1>5. Times!Distance(u, l) <= Times!Distance(t, l)
  BY <1>2, <1>3, <1>4, PlacedNear
<1>6. u - t < Period /\ u - t > -Period /\ u - t \in Int
  BY ONLY <1>1, <1>2, <1>3, <1>5, x \in Nat, 2 * (x - o) < Period, 2 * (o - x) < Period
     DEF Times!Distance
<1>7. Periods(u - t)
  BY <1>2, <1>3
<1>8. u - t = 0
  <2>1. ~(u - t < 0) /\ ~(u - t > 0)
    BY ONLY <1>1, <1>6, <1>7, NoneBetween
  <2> QED
    BY ONLY <2>1, <1>6
<1> QED
  BY ONLY <1>2, <1>3, <1>8

LEMMA PlacedEarly ==
  ASSUME NEW l, NEW o, Early(l, o), NEW x \in Nat, x >= Period, x >= o - MaxResend
  PROVE  Early(Times!Unwrap(Times!Wire(x), l), x)
<1>1. /\ l \in Nat /\ o \in Nat /\ Period \in Nat /\ MaxResend \in Nat /\ 2 * MaxResend < Period
      /\ Periods(l - o) /\ l - o <= -Period
  BY TimesConstants DEF Early
<1>2. PICK s \in Int : s = l + x - o
  BY <1>1
<1>3. PICK u \in Nat : u = Times!Unwrap(Times!Wire(x), l) /\ Periods(u - s)
  BY <1>2, PlacedNear
<1>4. \A t \in Nat : Periods(t - s) => Times!Distance(u, l) <= Times!Distance(t, l)
  BY ONLY <1>2, <1>3, PlacedNear, Early(l, o), x \in Nat
<1>5. Periods(u - x)
  <2>1. s - x = l - o
    BY <1>1, <1>2
  <2>2. Periods(s - x)
    BY <1>1, <2>1
  <2> QED
    BY ONLY <1>3, <2>2, s \in Int, u \in Nat, x \in Nat, PeriodsChain
<1>6. u - x <= -Period
  <2>1. CASE x >= o
    <3>1. s \in Nat /\ Periods(s - s)
      BY <1>1, <1>2, <2>1, OnePeriod, s - s = 0
    <3>2. Times!Distance(u, l) <= Times!Distance(s, l)
      BY ONLY <1>4, <3>1
    <3>3. u <= s
      BY ONLY <1>1, <1>2, <1>3, <2>1, <3>1, <3>2, x \in Nat DEF Times!Distance
    <3> QED
      BY ONLY <1>1, <1>2, <1>3, <3>3, x \in Nat
  <2>2. CASE x < o /\ s >= 0
    <3>1. u = s
      BY <1>1, <1>2, <1>3, <2>2, PlacedAlike
    <3> QED
      BY ONLY <1>1, <1>2, <1>3, <3>1, x \in Nat
  <2>3. CASE x < o /\ s < 0
    <3>1. Periods((l - o) + Period) /\ (l - o) + Period \in Int
      BY <1>1, OnePeriod, PeriodsAdd
    <3>2. (l - o) + Period < 0
      BY ONLY <1>1, <1>2, <2>3, x \in Nat, x >= Period
    <3>3. (l - o) + Period <= -Period
      BY ONLY <3>1, <3>2, NoneBetween
    <3>4. PICK t \in Nat : t = s + Period /\ t > l
      BY <1>1, <1>2, <2>3
    <3>5. Periods(t - s)
      BY <1>1, <3>4, OnePeriod, t - s = Period
    <3>6. Times!Distance(u, l) <= Times!Distance(t, l)
      BY ONLY <1>4, <3>5, t \in Nat
    <3>7. u <= t
      BY ONLY <1>1, <1>3, <3>4, <3>6 DEF Times!Distance
    <3> QED
      BY ONLY <1>1, <1>2, <1>3, <3>3, <3>4, <3>7, x \in Nat
  <2> QED
    BY ONLY <2>1, <2>2, <2>3, <1>1, <1>2, x \in Nat
<1> QED
  BY ONLY <1>3, <1>5, <1>6, x \in Nat DEF Early

\* The frames released are a run that begins with the one the decoder waits for, if
\* that is the one that came.
LEMMA RunReleased ==
  ASSUME TimesInv, NEW f
  PROVE  \E m \in next - 1 .. TimesMaxFrames :
           /\ Times!Released(f) = next .. m /\ Times!Final(f) = m
           /\ next .. m \subseteq arrived \cup {f}
           /\ m < TimesMaxFrames => m + 1 \notin arrived \cup {f}
           /\ m >= next => f = next
<1> DEFINE A == arrived \cup {f}
           Ends == {g \in next .. TimesMaxFrames + 1 : g \notin A \/ g = TimesMaxFrames + 1}
<1>1. TimesMaxFrames \in Nat /\ next \in 1 .. TimesMaxFrames + 1 /\ next \notin arrived
  BY TimesConstants DEF TimesInv
<1>2. PICK k \in Ends : \A g \in Ends : k <= g
  <2>1. TimesMaxFrames + 1 \in Ends /\ Ends \in SUBSET Nat
    BY <1>1
  <2> QED
    BY <2>1, LeastElement
<1>3. PICK m \in next - 1 .. TimesMaxFrames : m = k - 1
  BY <1>1, <1>2
<1>4. \A g \in next .. m : g \in A
  BY <1>1, <1>2, <1>3
<1>5. m < TimesMaxFrames => m + 1 \notin A
  BY <1>1, <1>2, <1>3
<1> HIDE DEF Ends, A
<1>6. Times!Released(f) = next .. m
  <2>1. Times!Released(f) = {g \in next .. TimesMaxFrames : next .. g \subseteq A}
    BY DEF Times!Released, A
  <2>2. ASSUME NEW g \in next .. TimesMaxFrames, next .. g \subseteq A
        PROVE  g \in next .. m
    <3>1. ~(m < g)
      <4>1. ASSUME m < g PROVE m + 1 \in next .. g /\ m < TimesMaxFrames
        BY <1>1, <4>1
      <4> QED
        BY <1>5, <2>2, <4>1
    <3> QED
      BY <1>1, <3>1
  <2>3. ASSUME NEW g \in next .. m
        PROVE  g \in next .. TimesMaxFrames /\ next .. g \subseteq A
    <3>1. g \in next .. TimesMaxFrames /\ \A h \in next .. g : h \in next .. m
      BY <1>1
    <3> QED
      BY <1>4, <3>1
  <2> QED
    BY ONLY <2>1, <2>2, <2>3
<1>7. Times!Final(f) = m
  <2>1. Cardinality(next .. m) = IF next > m THEN 0 ELSE m - next + 1
    <3>1. next \in Int /\ m \in Int
      BY <1>1
    <3> QED
      BY ONLY <3>1, FS_Interval
  <2>2. Times!Cardinality(next .. m) = Cardinality(next .. m)
    BY DEF Times!Cardinality, Cardinality
  <2>3. Times!Final(f) = next - 1 + Times!Cardinality(next .. m)
    BY <1>6 DEF Times!Final
  <2> QED
    BY ONLY <1>1, <2>1, <2>2, <2>3, m \in next - 1 .. TimesMaxFrames
<1>8. m >= next => f = next
  <2>1. m >= next => next \in next .. m
    BY <1>1
  <2> QED
    BY <1>1, <1>4, <2>1 DEF A
<1>9. next .. m \subseteq A
  BY <1>4
<1> QED
  BY <1>5, <1>6, <1>7, <1>8, <1>9 DEF A

Late(f) == f \in DOMAIN timesSent \ arrived

\* Where a frame that has become complete is placed.
Placing(f) == Times!Unwrap(Times!Wire(timesSent[f]), timesLast)

LEMMA CapturedIs ==
  ASSUME TimesInv, NEW f, Late(f)
  PROVE  /\ timesSent[f] \in Nat /\ Period <= timesSent[f] /\ timesSent[f] <= now
         /\ now - timesSent[f] <= MaxResend /\ now \in Nat
<1>1. PICK n \in 0 .. TimesMaxFrames : Captured(n)
  BY DEF TimesInv
<1>2. f \in 1 .. n /\ f \notin arrived
  BY <1>1 DEF Late, Captured
<1> QED
  BY <1>1, <1>2 DEF Captured, TimesInv

LEMMA PlacedWell ==
  ASSUME TimesInv, NEW f, Late(f)
  PROVE  Early(Placing(f), timesSent[f])
<1>1. PICK x \in Nat : x = timesSent[f] /\ Period <= x /\ x <= now /\ now - x <= MaxResend /\ now \in Nat
  BY CapturedIs
<1>2. CASE timesLast = Times!None
  BY ONLY <1>1, <1>2, FirstPlaced DEF Placing
<1>3. CASE timesLast # Times!None
  <2>1. Early(timesLast, origin) /\ origin <= now /\ origin \in Nat
    BY <1>3 DEF TimesInv, LastPlaced, Early
  <2>2. x >= origin - MaxResend /\ x >= Period
    BY <1>1, <2>1, TimesConstants
  <2> QED
    BY ONLY <1>1, <2>1, <2>2, PlacedEarly DEF Placing
<1> QED
  BY <1>2, <1>3

\* What is released came in time, too.
LEMMA ReleasedInTime ==
  ASSUME TimesInv, NEW f, Late(f), NEW g \in Times!Released(f)
  PROVE  /\ timesSent[g] \in Nat /\ Period <= timesSent[g] /\ timesSent[g] <= now
         /\ now - timesSent[g] <= MaxResend /\ now \in Nat
<1>1. PICK n \in 0 .. TimesMaxFrames : Captured(n)
  BY DEF TimesInv
<1>2. PICK m \in next - 1 .. TimesMaxFrames :
        Times!Released(f) = next .. m /\ next .. m \subseteq arrived \cup {f} /\ (m >= next => f = next)
  BY RunReleased
<1>3. next \in Nat
  BY TimesConstants DEF TimesInv
<1>4. f = next /\ g \in arrived \cup {f} /\ f <= g
  BY <1>2, <1>3
<1>5. f \in 1 .. n /\ g \in 1 .. n
  BY <1>1, <1>4 DEF Captured, Late
<1>6. timesSent[f] <= timesSent[g] /\ timesSent[g] \in Nat /\ Period <= timesSent[g] /\ timesSent[g] <= now
  BY <1>1, <1>4, <1>5 DEF Captured
<1>7. timesSent[f] \in Nat /\ now - timesSent[f] <= MaxResend /\ now \in Nat
  BY CapturedIs
<1> QED
  BY <1>6, <1>7, TimesConstants

\* last_pts_us as the frames released are placed again, one after the other.
First(f) == Times!Later(timesLast, Placing(f))
Placed1(f, g) == Times!Unwrap(Times!Wire(timesSent[g]), Times!After(f)[g - 1])

LEMMA LaterIs ==
  ASSUME NEW l \in Nat \cup {Times!None}, NEW a \in Nat
  PROVE  Times!Later(l, a) \in Nat /\ (Times!Later(l, a) = a \/ (Times!Later(l, a) = l /\ l # Times!None))
<1>1. Times!None = -1
  BY TimesConstants
<1> QED
  BY <1>1 DEF Times!Later

LEMMA LastIs ==
  ASSUME TimesInv
  PROVE  timesLast \in Nat \cup {Times!None}
  BY DEF TimesInv, LastPlaced, Early

LEMMA AfterIs ==
  ASSUME TimesInv, NEW f, Late(f)
  PROVE  /\ Times!After(f)[next - 1] = First(f)
         /\ \A g \in next .. Times!Final(f) :
              Times!After(f)[g] = Times!Later(Times!After(f)[g - 1], Placed1(f, g))
<1> DEFINE n == Times!Final(f) - (next - 1)
           To(g, l) == Times!Later(l, Times!Unwrap(Times!Wire(timesSent[g]), l))
           step == [i \in 1 .. n |-> [l \in Nat |-> To(next - 1 + i, l)]]
<1>1. PICK m \in next - 1 .. TimesMaxFrames : Times!Released(f) = next .. m /\ Times!Final(f) = m
  BY RunReleased
<1>2. next \in Nat \ {0} /\ n \in Nat /\ n = m - (next - 1)
  BY <1>1, TimesConstants DEF TimesInv
<1> HIDE DEF n
<1>3. First(f) \in Nat
  <2>1. Placing(f) \in Nat
    BY PlacedWell DEF Early
  <2> QED
    BY <2>1, LastIs, LaterIs DEF First
<1>4. \A g \in next .. m, l \in Nat : To(g, l) \in Nat
  <2> SUFFICES ASSUME NEW g \in next .. m, NEW l \in Nat PROVE To(g, l) \in Nat
    OBVIOUS
  <2>1. timesSent[g] \in Nat
    BY <1>1, ReleasedInTime
  <2>2. Times!Unwrap(Times!Wire(timesSent[g]), l) \in Nat
    BY <2>1, WireIs, UnwrapIs
  <2> QED
    BY <2>2, LaterIs
<1>5. \A i \in 1 .. n : next - 1 + i \in next .. m
  BY <1>2
<1> HIDE DEF To
<1>6. step \in Steps(n, Nat)
  BY <1>4, <1>5 DEF Steps
<1>7. PICK h \in [0 .. n -> Nat] : Unfolds(h, n, First(f), step)
  BY <1>2, <1>3, <1>6, FoldExists
<1> DEFINE a == [g \in next - 1 .. m |-> h[g - (next - 1)]]
<1>8. a = [g \in next - 1 .. m |-> IF g < next THEN First(f) ELSE To(g, a[g - 1])]
  <2>1. ASSUME NEW g \in next - 1 .. m, g < next
        PROVE  a[g] = First(f)
    <3>1. g - (next - 1) = 0
      BY <1>2, <2>1
    <3> QED
      BY <1>7, <3>1 DEF Unfolds
  <2>2. ASSUME NEW g \in next .. m
        PROVE  a[g] = To(g, a[g - 1])
    <3>1. PICK i \in 1 .. n : i = g - (next - 1) /\ next - 1 + i = g /\ (g - 1) - (next - 1) = i - 1
      BY <1>2
    <3>2. g \in next - 1 .. m /\ g - 1 \in next - 1 .. m
      BY <1>2
    <3>3. a[g] = h[i] /\ a[g - 1] = h[i - 1]
      BY <3>1, <3>2
    <3>4. h[i - 1] \in Nat
      BY <1>2, <1>7, i - 1 \in 0 .. n
    <3>5. h[i] = step[i][h[i - 1]]
      BY <1>7 DEF Unfolds
    <3>6. step[i][h[i - 1]] = To(g, h[i - 1])
      BY <3>1, <3>4
    <3> QED
      BY ONLY <3>3, <3>5, <3>6
  <2>3. \A g \in next - 1 .. m : ~(g < next) => g \in next .. m
    BY <1>2
  <2>4. \A g \in next - 1 .. m : a[g] = IF g < next THEN First(f) ELSE To(g, a[g - 1])
    BY ONLY <2>1, <2>2, <2>3
  <2>5. a = [g \in next - 1 .. m |-> a[g]]
    OBVIOUS
  <2> HIDE DEF a
  <2> QED
    BY ONLY <2>4, <2>5
<1> HIDE DEF a
<1>9. Times!After(f) = [g \in next - 1 .. m |->
                          IF g < next THEN First(f) ELSE To(g, Times!After(f)[g - 1])]
  BY <1>1, <1>8 DEF Times!After, First, Placing, To
<1>10. next - 1 \in next - 1 .. m /\ next - 1 < next
  BY <1>2
<1>11. \A g \in next .. m : g \in next - 1 .. m /\ ~(g < next)
  BY <1>2
<1>12. Times!After(f)[next - 1] = First(f)
  BY ONLY <1>9, <1>10
<1>13. \A g \in next .. m : Times!After(f)[g] = To(g, Times!After(f)[g - 1])
  BY ONLY <1>9, <1>11
<1> QED
  BY <1>1, <1>12, <1>13 DEF To, Placed1

\* Each is a time a frame was placed at, whole periods early.
LEMMA AfterWell ==
  ASSUME TimesInv, NEW f, Late(f)
  PROVE  /\ \A g \in Times!Released(f) : Early(Placed1(f, g), timesSent[g])
         /\ Times!After(f)[Times!Final(f)] \in Nat
         /\ \/ /\ Times!After(f)[Times!Final(f)] = timesLast /\ timesLast # Times!None
            \/ Times!After(f)[Times!Final(f)] = Placing(f)
            \/ \E g \in Times!Released(f) : Times!After(f)[Times!Final(f)] = Placed1(f, g)
<1>1. PICK m \in next - 1 .. TimesMaxFrames : Times!Released(f) = next .. m /\ Times!Final(f) = m
  BY RunReleased
<1>2. PICK n \in Nat : n = m - (next - 1) /\ next \in Nat \ {0}
  BY <1>1, TimesConstants DEF TimesInv
<1> DEFINE a == Times!After(f)
           At(l) == /\ l \in Nat
                    /\ \E o \in Nat : o <= now /\ Early(l, o)
                    /\ \/ l = timesLast /\ timesLast # Times!None
                       \/ l = Placing(f)
                       \/ \E g \in next .. m : l = Placed1(f, g)
           P == {i \in 0 .. n : At(a[next - 1 + i])}
<1>3. \A g \in next .. m, l \in Nat :
        (\E o \in Nat : o <= now /\ Early(l, o)) =>
          Early(Times!Unwrap(Times!Wire(timesSent[g]), l), timesSent[g])
  <2> SUFFICES ASSUME NEW g \in next .. m, NEW l \in Nat, NEW o \in Nat, o <= now, Early(l, o)
               PROVE  Early(Times!Unwrap(Times!Wire(timesSent[g]), l), timesSent[g])
    OBVIOUS
  <2>1. PICK x \in Nat : x = timesSent[g] /\ x >= Period /\ now - x <= MaxResend /\ now \in Nat
    BY <1>1, ReleasedInTime, TimesConstants
  <2>2. x >= o - MaxResend
    BY <2>1, TimesConstants
  <2> QED
    BY ONLY <2>1, <2>2, PlacedEarly, Early(l, o)
<1>4. At(First(f))
  <2>1. Early(Placing(f), timesSent[f]) /\ timesSent[f] \in Nat /\ timesSent[f] <= now
    BY PlacedWell, CapturedIs
  <2>2. Placing(f) \in Nat
    BY <2>1 DEF Early
  <2>3. First(f) \in Nat /\ (First(f) = Placing(f) \/ (First(f) = timesLast /\ timesLast # Times!None))
    BY <2>2, LastIs, LaterIs DEF First
  <2>4. timesLast # Times!None => origin \in Nat /\ origin <= now /\ Early(timesLast, origin)
    BY DEF TimesInv, LastPlaced, Early
  <2> QED
    BY ONLY <2>1, <2>3, <2>4
<1>5. 0 \in P
  <2>1. next - 1 + 0 = next - 1 /\ 0 \in 0 .. n
    BY <1>2
  <2>2. a[next - 1 + 0] = First(f)
    BY <2>1, AfterIs
  <2> HIDE DEF At, a
  <2> QED
    BY ONLY <1>4, <2>1, <2>2
<1>6. ASSUME NEW i \in 1 .. n, i - 1 \in P
      PROVE  i \in P
  <2>1. PICK g \in next .. m : g = next - 1 + i /\ g - 1 = next - 1 + (i - 1)
    BY <1>2
  <2>2. At(a[g - 1])
    BY ONLY <1>6, <2>1
  <2>3. a[g] = Times!Later(a[g - 1], Placed1(f, g))
    BY <1>1, AfterIs
  <2>4. Early(Placed1(f, g), timesSent[g])
    BY <1>3, <2>2 DEF Placed1
  <2>5. timesSent[g] \in Nat /\ timesSent[g] <= now
    BY <1>1, ReleasedInTime
  <2>6. Placed1(f, g) \in Nat
    BY <2>4 DEF Early
  <2>7. a[g] = Placed1(f, g) \/ a[g] = a[g - 1]
    BY <2>2, <2>3, <2>6, LaterIs
  <2>8. At(a[g])
    <3>1. CASE a[g] = a[g - 1]
      BY ONLY <2>2, <3>1
    <3>2. CASE a[g] = Placed1(f, g)
      BY ONLY <2>4, <2>5, <2>6, <3>2, g \in next .. m
    <3> QED
      BY ONLY <2>7, <3>1, <3>2
  <2> HIDE DEF At, a
  <2> QED
    BY <1>2, <2>1, <2>8
<1> HIDE DEF P
<1>7. \A i \in 0 .. n : i \in P
  BY ONLY <1>2, <1>5, <1>6, UpTo
<1>8. \A i \in 0 .. n : At(a[next - 1 + i])
  BY ONLY <1>7 DEF P
<1>9. \A g \in next .. m : Early(Placed1(f, g), timesSent[g])
  <2> TAKE g \in next .. m
  <2>1. PICK i \in 0 .. n : next - 1 + i = g - 1
    <3>1. g - next \in 0 .. n /\ next - 1 + (g - next) = g - 1
      BY <1>2
    <3> QED
      BY <3>1
  <2>2. At(a[g - 1])
    BY ONLY <1>8, <2>1
  <2> QED
    BY <1>3, <2>2 DEF Placed1
<1>10. At(a[m])
  <2>1. next - 1 + n = m /\ n \in 0 .. n
    BY <1>2
  <2> QED
    BY ONLY <1>8, <2>1
<1> QED
  BY ONLY <1>1, <1>9, <1>10

LEMMA TimesInit ==
  ASSUME Times!Init
  PROVE  TimesInv
<1>1. /\ now \in Nat /\ Period <= now /\ sure = DelayWindow /\ skew = Times!None
      /\ timesSent = <<>> /\ arrived = {} /\ next = 1 /\ timesLast = Times!None
      /\ buckets = {} /\ interval = Times!None
  BY TimesConstants DEF Times!Init
<1>2. Captured(0)
  BY <1>1 DEF Captured
<1>3. 0 \in 0 .. TimesMaxFrames /\ 1 \in 1 .. TimesMaxFrames + 1 /\ DelayWindow \in Nat /\ Times!None = -1
  BY TimesConstants
<1>4. LastPlaced /\ ArrivedNow
  BY <1>1 DEF LastPlaced, ArrivedNow
<1> QED
  BY ONLY <1>1, <1>2, <1>3, <1>4 DEF TimesInv

LEMMA TickKeeps ==
  ASSUME TimesInv, Times!Tick
  PROVE  TimesInv'
<1>1. /\ interval = Times!None /\ interval' = interval /\ now' = now + 1
      /\ sure' = IF sure < DelayWindow THEN sure + 1 ELSE sure
      /\ \A f \in DOMAIN timesSent \ arrived : now - timesSent[f] < MaxResend
      /\ timesSent' = timesSent /\ arrived' = arrived /\ next' = next /\ timesLast' = timesLast
      /\ buckets' = buckets /\ origin' = origin /\ skew' = skew
  BY DEF Times!Tick
<1>2. DelayWindow \in Nat /\ MaxResend \in Nat
  BY TimesConstants
<1>3. PICK n \in 0 .. TimesMaxFrames : Captured(n)
  BY DEF TimesInv
<1>4. now \in Nat /\ sure \in 0 .. DelayWindow /\ Period <= now
  BY DEF TimesInv
<1>5. Captured(n)'
  <2>1. \A i \in 1 .. n : i \notin arrived => (now + 1) - timesSent[i] <= MaxResend
    BY ONLY <1>1, <1>2, <1>3, <1>4 DEF Captured
  <2>2. \A i \in 1 .. n : timesSent[i] <= now + 1
    BY ONLY <1>3, <1>4 DEF Captured
  <2>3. /\ timesSent' \in [1 .. n -> Nat]
        /\ \A i \in 1 .. n : Period <= timesSent'[i]
        /\ \A i, j \in 1 .. n : i < j => timesSent'[i] < timesSent'[j]
        /\ arrived' \subseteq 1 .. n
    BY ONLY <1>1, <1>3 DEF Captured
  <2>4. \A i \in 1 .. n : timesSent'[i] <= now'
    BY ONLY <1>1, <2>2
  <2>5. timesSent' = timesSent /\ arrived' = arrived /\ now' = now + 1
    BY ONLY <1>1
  <2>6. \A i \in 1 .. n : i \in arrived' \/ now' - timesSent'[i] <= MaxResend
    BY ONLY <2>1, <2>5
  <2> QED
    BY ONLY <2>3, <2>4, <2>6 DEF Captured
<1>6. LastPlaced'
  <2>1. timesLast # Times!None => origin <= now + 1
    BY ONLY TimesInv, <1>4 DEF TimesInv, LastPlaced, Early
  <2> QED
    BY ONLY <1>1, <2>1, TimesInv DEF TimesInv, LastPlaced, Early, Periods, Times!None
<1>7. sure' \in 0 .. DelayWindow /\ sure' <= sure + 1
  BY ONLY <1>1, <1>2, <1>4
<1>8. ASSUME NEW b \in buckets
      PROVE  InBucket(b)'
  <2>1. InBucket(b)
    BY ONLY TimesInv DEF TimesInv
  <2>2. b.at \in Nat /\ b.at <= now /\ b.transit \in Int
    BY <2>1 DEF InBucket
  <2>3. now + 1 - b.at < sure' => now - b.at < sure
    BY ONLY <1>4, <1>7, <2>2, <1>2
  <2> QED
    BY ONLY <1>1, <1>4, <2>1, <2>2, <2>3 DEF InBucket
<1>9. ArrivedNow'
  BY ONLY <1>1 DEF ArrivedNow, Times!None
<1>10. Period <= now + 1
  BY ONLY <1>4, TimesConstants
<1>11. /\ \A b \in buckets' : InBucket(b)'
       /\ now' \in Nat /\ skew' \in Int /\ Period <= now'
       /\ (skew = Times!None => buckets = {})'
       /\ next' \in 1 .. TimesMaxFrames + 1 /\ next' \notin arrived'
  BY ONLY <1>1, <1>4, <1>8, <1>10, TimesInv DEF TimesInv, Times!None
<1> QED
  BY ONLY <1>5, <1>6, <1>7, <1>9, <1>11, n \in 0 .. TimesMaxFrames DEF TimesInv

LEMMA CaptureKeeps ==
  ASSUME TimesInv, Times!Capture
  PROVE  TimesInv'
<1>1. /\ Times!Cardinality(DOMAIN timesSent) < TimesMaxFrames
      /\ \A f \in DOMAIN timesSent : timesSent[f] # now
      /\ timesSent' = [f \in DOMAIN timesSent \cup {Times!Cardinality(DOMAIN timesSent) + 1} |->
                         IF f \in DOMAIN timesSent THEN timesSent[f] ELSE now]
      /\ UNCHANGED <<now, sure, skew, arrived, next, timesLast, origin, buckets, interval>>
  BY DEF Times!Capture
<1>2. PICK n \in 0 .. TimesMaxFrames : Captured(n)
  BY DEF TimesInv
<1>3. now \in Nat /\ Period <= now /\ MaxResend \in Nat /\ TimesMaxFrames \in Nat
  BY TimesConstants DEF TimesInv
<1>4. DOMAIN timesSent = 1 .. n
  BY ONLY <1>2 DEF Captured
<1>5. Times!Cardinality(DOMAIN timesSent) = n
  <2>1. Cardinality(1 .. n) = n
    <3>1. 1 \in Int /\ n \in Int
      OBVIOUS
    <3>2. Cardinality(1 .. n) = IF 1 > n THEN 0 ELSE n - 1 + 1
      BY ONLY <3>1, FS_Interval
    <3> QED
      BY ONLY <3>2, n \in 0 .. TimesMaxFrames, <1>3
  <2>2. Times!Cardinality(1 .. n) = Cardinality(1 .. n)
    BY DEF Times!Cardinality, Cardinality
  <2> QED
    BY ONLY <1>4, <2>1, <2>2
<1>6. n + 1 \in 0 .. TimesMaxFrames /\ 1 .. n + 1 = 1 .. n \cup {n + 1}
  BY ONLY <1>1, <1>3, <1>5, n \in 0 .. TimesMaxFrames
<1>7. /\ timesSent' = [f \in 1 .. n + 1 |-> IF f \in 1 .. n THEN timesSent[f] ELSE now]
      /\ n + 1 \notin 1 .. n
  <2>1. n + 1 \notin 1 .. n
    BY ONLY n \in 0 .. TimesMaxFrames, <1>3
  <2> QED
    BY ONLY <1>1, <1>4, <1>5, <1>6, <2>1
<1>8. /\ \A f \in 1 .. n : timesSent'[f] = timesSent[f]
      /\ timesSent'[n + 1] = now
  BY ONLY <1>6, <1>7
<1>9. \A f \in 1 .. n : timesSent[f] \in Nat /\ timesSent[f] < now
  BY ONLY <1>1, <1>2, <1>3, <1>4 DEF Captured
<1>10. Captured(n + 1)'
  <2>1. timesSent' \in [1 .. n + 1 -> Nat]
    BY ONLY <1>3, <1>7, <1>9
  <2>2. \A i \in 1 .. n + 1 : i \in 1 .. n \/ i = n + 1
    BY ONLY <1>6
  <2>3. \A i \in 1 .. n + 1 : Period <= timesSent'[i] /\ timesSent'[i] <= now
    BY ONLY <1>2, <1>3, <1>8, <2>2, TimesConstants DEF Captured
  <2>4. \A i, j \in 1 .. n + 1 : i < j => timesSent'[i] < timesSent'[j]
    <3>1. \A i, j \in 1 .. n + 1 : i < j => i \in 1 .. n
      BY ONLY n \in 0 .. TimesMaxFrames, <1>3
    <3> QED
      BY ONLY <1>2, <1>8, <1>9, <2>2, <3>1 DEF Captured
  <2>5. \A i \in 1 .. n + 1 : i \in arrived \/ now - timesSent'[i] <= MaxResend
    <3>1. \A i \in 1 .. n : i \in arrived \/ now - timesSent'[i] <= MaxResend
      BY ONLY <1>2, <1>8 DEF Captured
    <3>2. now - timesSent'[n + 1] <= MaxResend
      BY ONLY <1>3, <1>8
    <3> QED
      BY ONLY <2>2, <3>1, <3>2
  <2>6. arrived \subseteq 1 .. n + 1
    BY ONLY <1>2, <1>6 DEF Captured
  <2> QED
    BY ONLY <1>1, <2>1, <2>3, <2>4, <2>5, <2>6 DEF Captured
<1>11. LastPlaced' /\ ArrivedNow' /\ (\A b \in buckets' : InBucket(b)')
  BY ONLY <1>1, TimesInv DEF TimesInv, LastPlaced, ArrivedNow, InBucket, Early, Periods, Times!None
<1>12. /\ now' \in Nat /\ sure' \in 0 .. DelayWindow /\ skew' \in Int /\ Period <= now'
       /\ (skew = Times!None => buckets = {})'
       /\ next' \in 1 .. TimesMaxFrames + 1 /\ next' \notin arrived'
  BY ONLY <1>1, TimesInv DEF TimesInv, Times!None
<1> QED
  BY ONLY <1>6, <1>10, <1>11, <1>12 DEF TimesInv

LEMMA ReportKeeps ==
  ASSUME TimesInv, Times!TakeReport
  PROVE  TimesInv'
<1>1. /\ interval' = Times!None
      /\ UNCHANGED <<now, sure, skew, timesSent, arrived, next, timesLast, origin, buckets>>
  BY DEF Times!TakeReport
<1>2. PICK n \in 0 .. TimesMaxFrames : Captured(n)
  BY DEF TimesInv
<1>3. Captured(n)'
  BY ONLY <1>1, <1>2 DEF Captured
<1>4. LastPlaced' /\ (\A b \in buckets' : InBucket(b)')
  BY ONLY <1>1, TimesInv DEF TimesInv, LastPlaced, InBucket, Early, Periods, Times!None
<1>5. ArrivedNow'
  BY ONLY <1>1 DEF ArrivedNow, Times!None
<1>6. /\ now' \in Nat /\ sure' \in 0 .. DelayWindow /\ skew' \in Int /\ Period <= now'
      /\ (skew = Times!None => buckets = {})'
      /\ next' \in 1 .. TimesMaxFrames + 1 /\ next' \notin arrived'
  BY ONLY <1>1, TimesInv DEF TimesInv, Times!None
<1> QED
  BY ONLY <1>3, <1>4, <1>5, <1>6, n \in 0 .. TimesMaxFrames DEF TimesInv

LEMMA ArriveIs ==
  ASSUME NEW f, Times!Arrive(f)
  PROVE  /\ Late(f) /\ arrived' = arrived \cup {f} /\ next' = Times!Final(f) + 1
         /\ timesLast' = Times!After(f)[Times!Final(f)]
         /\ origin' = IF timesLast' = timesLast THEN origin
                      ELSE IF timesLast' = Placing(f) THEN timesSent[f]
                      ELSE timesSent[CHOOSE g \in Times!Released(f) : Placed1(f, g) = timesLast']
         /\ skew' = Placing(f) - timesSent[f]
         /\ sure' = IF skew \in {Times!None, skew'} THEN sure ELSE 0
         /\ now' = now /\ timesSent' = timesSent
         /\ IF now - timesSent[f] <= MaxDelay
            THEN /\ buckets' = Times!Buckets(now - Placing(f))
                 /\ interval' = Times!Lowest(interval, now - Placing(f))
            ELSE UNCHANGED <<buckets, interval>>
<1>1. Late(f) /\ arrived' = arrived \cup {f} /\ next' = Times!Final(f) + 1
  BY DEF Times!Arrive, Late
<1>2. timesLast' = Times!After(f)[Times!Final(f)]
  BY DEF Times!Arrive
<1>3. origin' = IF timesLast' = timesLast THEN origin
                ELSE IF timesLast' = Placing(f) THEN timesSent[f]
                ELSE timesSent[CHOOSE g \in Times!Released(f) : Placed1(f, g) = timesLast']
  BY DEF Times!Arrive, Placing, Placed1
<1>4. /\ skew' = Placing(f) - timesSent[f]
      /\ sure' = IF skew \in {Times!None, skew'} THEN sure ELSE 0
      /\ now' = now /\ timesSent' = timesSent
  BY DEF Times!Arrive, Placing
<1>5. IF now - timesSent[f] <= MaxDelay
      THEN /\ buckets' = Times!Buckets(now - Placing(f))
           /\ interval' = Times!Lowest(interval, now - Placing(f))
      ELSE UNCHANGED <<buckets, interval>>
  BY DEF Times!Arrive, Times!OnFrame, Placing
<1> QED
  BY ONLY <1>1, <1>2, <1>3, <1>4, <1>5

LEMMA ArriveKeeps ==
  ASSUME TimesInv, NEW f, Times!Arrive(f)
  PROVE  TimesInv'
<1>1. /\ Late(f) /\ arrived' = arrived \cup {f} /\ next' = Times!Final(f) + 1
      /\ now' = now /\ timesSent' = timesSent
  BY ArriveIs
<1>2. PICK n \in 0 .. TimesMaxFrames : Captured(n)
  BY DEF TimesInv
<1>3. PICK m \in next - 1 .. TimesMaxFrames :
        /\ Times!Released(f) = next .. m /\ Times!Final(f) = m
        /\ m < TimesMaxFrames => m + 1 \notin arrived \cup {f}
  BY RunReleased
<1>4. /\ Period \in Nat /\ Period > 1 /\ DelayWindow \in Nat /\ DelayWindow > 0 /\ MaxDelay \in Nat
      /\ TimesMaxFrames \in Nat /\ Times!None = -1
  BY TimesConstants
<1>5. now \in Nat /\ Period <= now /\ sure \in 0 .. DelayWindow /\ skew \in Int /\ next \in Nat \ {0}
  BY <1>4 DEF TimesInv
<1>6. PICK x \in Nat : x = timesSent[f] /\ x <= now /\ Period <= x
  BY <1>1, CapturedIs
<1>7. PICK abs \in Nat : abs = Placing(f) /\ abs - x <= -Period /\ Early(abs, x)
  BY <1>1, <1>6, PlacedWell DEF Early
<1>8. arrived \cup {f} \subseteq 1 .. n
  BY ONLY <1>1, <1>2 DEF Captured, Late
<1>9. Captured(n)'
  <2>1. \A i \in 1 .. n : i \in arrived \cup {f} \/ now - timesSent[i] <= MaxResend
    BY ONLY <1>2 DEF Captured
  <2> QED
    BY ONLY <1>1, <1>2, <1>8, <2>1 DEF Captured
<1>10. next' \in 1 .. TimesMaxFrames + 1 /\ next' \notin arrived'
  <2>1. next' = m + 1
    BY ONLY <1>1, <1>3
  <2>2. m + 1 \in 1 .. TimesMaxFrames + 1
    BY ONLY <1>4, <1>5, m \in next - 1 .. TimesMaxFrames
  <2>3. ~(m < TimesMaxFrames) => m + 1 \notin 1 .. n
    BY ONLY <1>4, <1>5, m \in next - 1 .. TimesMaxFrames, n \in 0 .. TimesMaxFrames
  <2> QED
    BY ONLY <1>1, <1>3, <1>8, <2>1, <2>2, <2>3
<1>11. skew' = abs - x /\ skew' \in Int /\ skew' # Times!None
  <2>1. skew' = abs - x
    BY <1>1, <1>6, <1>7, ArriveIs
  <2> QED
    BY ONLY <1>4, <1>7, <2>1, abs \in Nat, x \in Nat
<1>12. sure' = IF skew \in {Times!None, skew'} THEN sure ELSE 0
  BY ArriveIs
<1>13. LastPlaced'
  <2>1. PICK l \in Nat : l = timesLast' /\ l = Times!After(f)[Times!Final(f)]
    BY <1>1, AfterWell, ArriveIs
  <2>2. \/ l = timesLast /\ timesLast # Times!None
        \/ l = abs
        \/ \E g \in Times!Released(f) : l = Placed1(f, g)
    BY <1>1, <1>7, <2>1, AfterWell
  <2>3. origin' = IF l = timesLast THEN origin ELSE IF l = abs THEN x
                  ELSE timesSent[CHOOSE g \in Times!Released(f) : Placed1(f, g) = timesLast']
    BY <1>6, <1>7, <2>1, ArriveIs
  <2>4. PICK o : o = origin' /\ Early(l, o) /\ o <= now
    <3>1. CASE l = timesLast
      <4>1. timesLast # Times!None
        BY <1>4, <2>1, <3>1
      <4>2. Early(timesLast, origin) /\ origin <= now
        BY ONLY <4>1, TimesInv DEF TimesInv, LastPlaced
      <4> QED
        BY ONLY <2>3, <3>1, <4>2
    <3>2. CASE l # timesLast /\ l = abs
      BY ONLY <1>6, <1>7, <2>3, <3>2
    <3>3. CASE l # timesLast /\ l # abs
      <4>1. PICK g \in Times!Released(f) :
              /\ Placed1(f, g) = timesLast'
              /\ g = (CHOOSE h \in Times!Released(f) : Placed1(f, h) = timesLast')
        BY ONLY <2>1, <2>2, <3>3
      <4>2. origin' = timesSent[g]
        BY ONLY <2>3, <3>3, <4>1
      <4>3. Early(Placed1(f, g), timesSent[g])
        BY <1>1, AfterWell
      <4>4. timesSent[g] <= now
        BY <1>1, ReleasedInTime
      <4> QED
        BY ONLY <2>1, <4>1, <4>2, <4>3, <4>4
    <3> QED
      BY <3>1, <3>2, <3>3
  <2>5. Early(timesLast', origin')
    BY ONLY <2>1, <2>4
  <2>6. timesLast' # Times!None /\ origin' <= now'
    BY ONLY <1>1, <1>4, <2>1, <2>4
  <2> QED
    BY ONLY <1>11, <2>5, <2>6 DEF LastPlaced, Early, Periods, Times!None
<1>14. sure' \in 0 .. DelayWindow
  BY ONLY <1>4, <1>5, <1>12
<1>15. \A b \in buckets : InBucket(b)'
  <2> SUFFICES ASSUME NEW b \in buckets PROVE InBucket(b)'
    OBVIOUS
  <2>1. InBucket(b) /\ skew # Times!None
    BY DEF TimesInv
  <2>2. b.at \in Nat /\ b.at <= now /\ b.transit \in Int
    BY <2>1 DEF InBucket
  <2>3. CASE skew = skew'
    <3>1. sure' = sure
      BY <1>12, <2>3
    <3> QED
      BY ONLY <1>1, <2>1, <2>3, <3>1 DEF InBucket
  <2>4. CASE skew # skew'
    <3>1. sure' = 0
      BY <1>12, <2>1, <2>4
    <3>2. ~(now - b.at < 0)
      BY ONLY <1>5, <2>2
    <3> QED
      BY ONLY <1>1, <2>2, <3>1, <3>2 DEF InBucket
  <2> QED
    BY <2>3, <2>4
<1>16. CASE now - x <= MaxDelay
  <2>0. PICK new : new = [at |-> now, transit |-> now - abs]
    OBVIOUS
  <2>1. buckets' = Times!Buckets(now - abs) /\ interval' = Times!Lowest(interval, now - abs)
    BY <1>6, <1>7, <1>16, ArriveIs
  <2>2. buckets' = {b \in buckets : now - b.at < DelayWindow} \cup {new}
    BY <2>0, <2>1 DEF Times!Buckets
  <2>3. new.at = now /\ new.transit = now - abs
    BY ONLY <2>0
  <2>4. InBucket(new)'
    <3>1. new.transit \in Int /\ 0 <= new.transit + skew' /\ new.transit + skew' <= MaxDelay
      BY ONLY <1>4, <1>5, <1>6, <1>11, <1>16, <2>3, abs \in Nat, x \in Nat
    <3>2. new.at \in Nat /\ new.at <= now
      BY ONLY <1>5, <2>3
    <3> QED
      BY ONLY <1>1, <3>1, <3>2 DEF InBucket
  <2>5. \A b \in buckets' : InBucket(b)'
    BY ONLY <1>15, <2>2, <2>4
  <2>6. interval' \in Int /\ interval' <= new.transit
    <3>1. interval \in Int
      <4>1. interval # Times!None => interval \in Int
        BY ONLY TimesInv DEF TimesInv, ArrivedNow
      <4> QED
        BY ONLY <4>1, <1>4
    <3> QED
      BY ONLY <1>5, <2>1, <2>3, <3>1, abs \in Nat DEF Times!Lowest
  <2>7. \A b \in buckets' : now - b.at < DelayWindow
    <3>1. now - new.at < DelayWindow
      BY ONLY <1>4, <1>5, <2>3
    <3> QED
      BY ONLY <2>2, <3>1
  <2>8. ArrivedNow'
    <3>1. new \in buckets'
      BY ONLY <2>2
    <3> QED
      BY ONLY <1>1, <2>3, <2>6, <2>7, <3>1 DEF ArrivedNow
  <2> QED
    BY ONLY <1>1, <1>5, <1>9, <1>10, <1>11, <1>13, <1>14, <2>5, <2>8, n \in 0 .. TimesMaxFrames
       DEF TimesInv, Times!None
<1>17. CASE ~(now - x <= MaxDelay)
  <2>1. buckets' = buckets /\ interval' = interval
    BY <1>6, <1>17, ArriveIs
  <2>2. \A b \in buckets' : InBucket(b)'
    BY ONLY <1>15, <2>1
  <2>3. ArrivedNow'
    BY ONLY <1>1, <2>1, TimesInv DEF TimesInv, ArrivedNow, Times!None
  <2> QED
    BY ONLY <1>1, <1>5, <1>9, <1>10, <1>11, <1>13, <1>14, <2>2, <2>3, n \in 0 .. TimesMaxFrames
       DEF TimesInv, Times!None
<1> QED
  BY <1>16, <1>17

LEMMA TimesStep ==
  ASSUME TimesInv, [Times!Next]_times
  PROVE  TimesInv'
<1>1. CASE Times!Next
  BY <1>1, TickKeeps, CaptureKeeps, ReportKeeps, ArriveKeeps DEF Times!Next
<1>2. CASE UNCHANGED times
  <2>1. UNCHANGED <<now, interval, sure, skew, timesSent, arrived, next, timesLast, origin, buckets>>
    BY <1>2 DEF times
  <2>2. PICK n \in 0 .. TimesMaxFrames : Captured(n)
    BY DEF TimesInv
  <2>3. Captured(n)'
    BY ONLY <2>1, <2>2 DEF Captured
  <2>4. LastPlaced' /\ ArrivedNow' /\ (\A b \in buckets' : InBucket(b)')
    BY ONLY <2>1, TimesInv DEF TimesInv, LastPlaced, ArrivedNow, InBucket, Early, Periods, Times!None
  <2>5. /\ now' \in Nat /\ sure' \in 0 .. DelayWindow /\ skew' \in Int /\ Period <= now'
        /\ (skew = Times!None => buckets = {})'
        /\ next' \in 1 .. TimesMaxFrames + 1 /\ next' \notin arrived'
    BY ONLY <2>1, TimesInv DEF TimesInv, Times!None
  <2> QED
    BY ONLY <2>3, <2>4, <2>5, n \in 0 .. TimesMaxFrames DEF TimesInv
<1> QED
  BY <1>1, <1>2

LEMMA OnlySilence ==
  ASSUME TimesInv, [Times!Next]_times
  PROVE  Times!OnlySilenceMisplaces
<1> SUFFICES ASSUME NEW f \in DOMAIN timesSent, f \in arrived' \ arrived, timesLast # Times!None,
                    ~(Times!Distance(timesSent[f], origin) >= Times!Half),
                    ~(timesSent[f] < origin /\ timesLast < Period)
             PROVE  skew' = timesLast - origin
  BY DEF Times!OnlySilenceMisplaces
<1>1. Times!Arrive(f)
  <2>1. arrived' # arrived
    OBVIOUS
  <2>2. PICK g : Times!Arrive(g)
    BY <2>1 DEF Times!Next, Times!Tick, Times!Capture, Times!TakeReport, times
  <2>3. arrived' = arrived \cup {g}
    BY <2>2, ArriveIs
  <2>4. g = f
    BY <2>3
  <2> QED
    BY <2>2, <2>4
<1>2. Late(f) /\ skew' = Placing(f) - timesSent[f]
  BY <1>1, ArriveIs
<1>3. PICK x \in Nat : x = timesSent[f]
  BY <1>2, CapturedIs
<1>4. PICK l \in Nat : l = timesLast /\ Early(l, origin) /\ origin \in Nat
  BY DEF TimesInv, LastPlaced, Early
<1>5. PICK o \in Nat : o = origin
  BY <1>4
<1>6. PICK h \in Nat : h = Times!Half /\ 2 * h <= Period
  BY TimesConstants
<1>7. ~(Times!Distance(x, o) >= h) /\ ~(x < o /\ l < Period) /\ Period \in Nat
  BY <1>3, <1>4, <1>5, <1>6, TimesConstants
<1>8. 2 * (x - o) < Period /\ 2 * (o - x) < Period /\ l + x - o >= 0
  BY ONLY <1>6, <1>7, x \in Nat, o \in Nat, l \in Nat, h \in Nat DEF Times!Distance
<1>9. Placing(f) = l + x - o
  BY ONLY <1>3, <1>4, <1>5, <1>8, PlacedAlike DEF Placing
<1> QED
  BY ONLY <1>2, <1>3, <1>4, <1>5, <1>9

\* The frames of the report were all placed alike with those of the baseline.
LEMMA ReportTrue ==
  ASSUME TimesInv, [Times!Next]_times
  PROVE  Times!QueueTrue
<1> SUFFICES ASSUME interval # Times!None, interval' = Times!None, sure >= DelayWindow
             PROVE  timesQueue' <= MaxDelay
  BY DEF Times!QueueTrue
<1>1. /\ DelayWindow \in Nat /\ DelayWindow > 0 /\ MaxDelay \in Nat /\ Times!None = -1
      /\ Period \in Nat /\ Period > 1
  BY TimesConstants
<1>2. now \in Nat /\ sure \in 0 .. DelayWindow /\ skew \in Int
  BY DEF TimesInv
<1>3. Times!TakeReport
  <2>1. interval' # interval
    OBVIOUS
  <2>2. ASSUME NEW f, Times!Arrive(f) PROVE FALSE
    <3>1. interval' = Times!Lowest(interval, now - Placing(f)) /\ Late(f)
      BY <2>1, <2>2, ArriveIs
    <3>2. Early(Placing(f), timesSent[f]) /\ timesSent[f] \in Nat /\ timesSent[f] <= now
      BY <3>1, PlacedWell, CapturedIs
    <3>3. now - Placing(f) # Times!None
      BY ONLY <1>1, <1>2, <3>2 DEF Early
    <3> QED
      BY <3>1, <3>3 DEF Times!Lowest
  <2> QED
    BY <2>1, <2>2 DEF Times!Next, Times!Tick, Times!Capture, times
<1>4. interval \in Int /\ \A b \in buckets : now - b.at < DelayWindow
  BY DEF TimesInv, ArrivedNow
<1>5. PICK new \in buckets : new.at = now /\ interval <= new.transit
  BY DEF TimesInv, ArrivedNow
<1>6. \A b \in buckets : /\ b.transit \in Int /\ b.at \in Nat
                         /\ 0 <= b.transit + skew /\ b.transit + skew <= MaxDelay
  <2> TAKE b \in buckets
  <2>1. InBucket(b)
    BY DEF TimesInv
  <2>2. now - b.at < sure
    <3>1. b.at \in Nat
      BY <2>1 DEF InBucket
    <3> QED
      BY ONLY <1>1, <1>2, <1>4, <3>1, sure >= DelayWindow
  <2> QED
    BY ONLY <2>1, <2>2 DEF InBucket
<1> DEFINE T == {b.transit : b \in buckets}
           N == {t + skew : t \in T}
<1>7. PICK low \in Int : low = Times!Min(T) /\ low + skew >= 0
  <2>1. N \in SUBSET Nat /\ N # {}
    BY ONLY <1>2, <1>5, <1>6
  <2>2. PICK least \in N : \A y \in N : least <= y
    BY <2>1, LeastElement
  <2>3. PICK t \in T : least = t + skew
    BY <2>2
  <2>4. \A u \in T : u \in Int
    BY ONLY <1>6
  <2>5. \A u \in T : t <= u
    <3> TAKE u \in T
    <3>1. u + skew \in N
      OBVIOUS
    <3>2. t + skew <= u + skew
      BY ONLY <2>2, <2>3, <3>1
    <3>3. t \in Int /\ u \in Int /\ skew \in Int
      BY <1>2, <2>4
    <3> QED
      BY ONLY <3>2, <3>3
  <2> HIDE DEF T
  <2>6. Times!Min(T) \in T
    BY <2>5 DEF Times!Min
  <2>7. Times!Min(T) \in Int /\ Times!Min(T) + skew >= 0
    <3>1. PICK u \in T : u = Times!Min(T)
      BY <2>6
    <3>2. u \in Int
      BY <2>4
    <3>3. u + skew \in Nat
      BY <2>1, u + skew \in N
    <3> QED
      BY ONLY <3>1, <3>2, <3>3
  <2> QED
    BY <2>7
<1>8. interval - low <= MaxDelay /\ interval - low \in Int
  BY ONLY <1>1, <1>2, <1>4, <1>5, <1>6, <1>7, low \in Int
<1>9. timesQueue' = Times!Max({0, interval - low})
  BY <1>3, <1>7 DEF Times!TakeReport
<1>10. \A d \in Int : Times!Max({0, d}) \in {0, d}
  <2> TAKE d \in Int
  <2>1. \E x \in {0, d} : \A y \in {0, d} : x >= y
    OBVIOUS
  <2> QED
    BY <2>1 DEF Times!Max
<1> QED
  BY ONLY <1>1, <1>8, <1>9, <1>10

\* A frame is placed out of line with the one before it only by half a period of
\* silence, or by a wrap before anything had arrived, and spoils the delay that is
\* reported for no longer than the baseline looks back: for every period, baseline and
\* delay, however frames are lost, late, resent or out of order.
THEOREM TimesAreTrue == Spec => TimesTrue
<1>1. Init => TimesInv
  BY TimesInit DEF Init
<1>2. [Next]_vars => [Times!Next]_times
  BY DEF Next, vars
<1>3. TimesInv /\ [Next]_vars => TimesInv'
  BY <1>2, TimesStep
<1>4. TimesInv /\ [Next]_vars =>
        [Times!OnlySilenceMisplaces /\ Times!QueueTrue]_(Times!vars)
  BY <1>2, OnlySilence, ReportTrue
<1> QED
  BY <1>1, <1>3, <1>4, PTL DEF Spec, TimesTrue, Times!TimesTrue

-----------------------------------------------------------------------------
(* StreamRecovery: the types of its variables.                             *)

\* What RecoveryTypes leaves out.
RecoveryRest ==
  /\ keys \in SUBSET Recovery!Frame
  /\ recoveryAt \in {"waiting", "out"}
  /\ Len(cache) <= Retained
  /\ recoveryShown \in 0 .. RecoveryMaxFrames
  /\ losses \in [Recovery!Datagram -> 0 .. MaxLosses] /\ recoveryLost \in 0 .. MaxLost

LEMMA RecoveryRestKept ==
  ASSUME RecoveryRest, RecoveryTypes, RecoveryTypes', CacheInOrder, Recovery!Next
  PROVE  RecoveryRest'
<1> USE DEF RecoveryRest, Recovery!host, Recovery!viewer, Recovery!network
<1>1. MaxLosses \in Nat /\ MaxLost \in Nat /\ RecoveryMaxFrames \in Nat \ {0} /\ Retained \in Nat \ {0}
  BY PartsAssumption, RecoveryConstants DEF Recovery!Assumption
<1>2. nextId' \in 1 .. RecoveryMaxFrames + 1 /\ sent' \in 0 .. RecoveryMaxFrames /\ sent \in 0 .. RecoveryMaxFrames
  BY DEF RecoveryTypes
<1>3. CASE Recovery!Burst
  <2>1. sent + 1 \in Recovery!Frame
    BY <1>1, <1>2, <1>3, RecoveryConstants DEF Recovery!Burst
  <2>2. keys' = keys \/ keys' = keys \cup {sent + 1}
    BY <1>3 DEF Recovery!Burst
  <2>3. keys' \in SUBSET Recovery!Frame
    BY ONLY <2>1, <2>2, RecoveryRest DEF RecoveryRest
  <2> QED
    BY <1>3, <2>3 DEF Recovery!Burst
<1>4. CASE Recovery!Insert
  <2>1. PICK old \in 0 .. Len(cache) :
          /\ Len(cache) - old < Retained
          /\ cache' = Append(SubSeq(cache, old + 1, Len(cache)), sent)
    BY <1>4 DEF Recovery!Insert
  <2>2. cache \in Seq(Recovery!Frame) /\ Len(cache) \in Nat
    BY DEF CacheInOrder
  <2>3. Len(SubSeq(cache, old + 1, Len(cache))) = Len(cache) - old
        /\ SubSeq(cache, old + 1, Len(cache)) \in Seq(Recovery!Frame)
    BY ONLY <2>2, old \in 0 .. Len(cache)
  <2>4. Len(cache') = Len(cache) - old + 1
    BY ONLY <2>1, <2>3
  <2>5. Len(cache') <= Retained
    BY ONLY <1>1, <2>1, <2>2, <2>4
  <2> QED
    BY <1>4, <2>5 DEF Recovery!Insert
<1>5. CASE Recovery!TailProbe \/ Recovery!AnswerKeyframe
  BY <1>5 DEF Recovery!TailProbe, Recovery!AnswerKeyframe
<1>6. ASSUME NEW nack \in control, Recovery!AnswerNack(nack) PROVE RecoveryRest'
  BY <1>6 DEF Recovery!AnswerNack
<1>7. ASSUME NEW f \in Recovery!Frame, Recovery!Retry(f) PROVE RecoveryRest'
  BY <1>7 DEF Recovery!Retry
<1>8. ASSUME NEW f \in Recovery!Frame, Recovery!GiveUp(f) PROVE RecoveryRest'
  <2>1. recoveryShown' = recoveryShown \/ recoveryShown' = nextId' - 1
    BY <1>8 DEF Recovery!GiveUp
  <2>2. recoveryShown' \in 0 .. RecoveryMaxFrames
    BY ONLY <1>1, <1>2, <2>1, RecoveryRest DEF RecoveryRest
  <2>3. UNCHANGED <<keys, recoveryAt, cache, losses, recoveryLost>>
    BY <1>8 DEF Recovery!GiveUp
  <2> QED
    BY <2>2, <2>3
<1>9. ASSUME NEW d \in wire, Recovery!Receive(d) PROVE RecoveryRest'
  <2>1. recoveryShown' = recoveryShown \/ recoveryShown' = nextId' - 1
    BY <1>9 DEF Recovery!Receive, Recovery!Deliver
  <2>2. recoveryShown' \in 0 .. RecoveryMaxFrames
    BY ONLY <1>1, <1>2, <2>1, RecoveryRest DEF RecoveryRest
  <2>3. UNCHANGED <<keys, recoveryAt, cache, losses, recoveryLost>>
    BY <1>9 DEF Recovery!Receive
  <2> QED
    BY <2>2, <2>3
<1>10. ASSUME NEW d \in wire, Recovery!Lose(d) PROVE RecoveryRest'
  <2>1. /\ losses[d] < MaxLosses /\ losses' = [losses EXCEPT ![d] = @ + 1]
        /\ recoveryLost < MaxLost /\ recoveryLost' = recoveryLost + 1
        /\ UNCHANGED <<keys, recoveryAt, cache, recoveryShown>>
    BY <1>10 DEF Recovery!Lose
  <2>2. losses' \in [Recovery!Datagram -> 0 .. MaxLosses]
    <3>1. losses \in [Recovery!Datagram -> 0 .. MaxLosses] /\ d \in Recovery!Datagram
      BY DEF RecoveryTypes
    <3>2. losses[d] + 1 \in 0 .. MaxLosses
      BY ONLY <1>1, <2>1, <3>1
    <3> QED
      BY ONLY <2>1, <3>1, <3>2
  <2> QED
    BY <1>1, <2>1, <2>2
<1> QED
  BY <1>3, <1>4, <1>5, <1>6, <1>7, <1>8, <1>9, <1>10 DEF Recovery!Next, Recovery!Step

LEMMA RecoveryFlagsKept ==
  ASSUME {owed, probe, needKeyframe, evicted} \subseteq BOOLEAN, Recovery!Next
  PROVE  {owed', probe', needKeyframe', evicted'} \subseteq BOOLEAN
<1> USE DEF Recovery!host, Recovery!viewer, Recovery!network
<1>1. CASE Recovery!Burst \/ Recovery!Insert \/ Recovery!TailProbe \/ Recovery!AnswerKeyframe
  <2>1. /\ owed' \in {owed, TRUE, FALSE} /\ probe' \in {probe, TRUE, FALSE}
        /\ needKeyframe' = needKeyframe /\ evicted' = evicted
    BY <1>1 DEF Recovery!Burst, Recovery!Insert, Recovery!TailProbe, Recovery!AnswerKeyframe
  <2> QED
    BY ONLY <2>1, {owed, probe, needKeyframe, evicted} \subseteq BOOLEAN
<1>2. ASSUME NEW nack \in control, Recovery!AnswerNack(nack)
      PROVE  {owed', probe', needKeyframe', evicted'} \subseteq BOOLEAN
  <2>1. /\ owed' = owed /\ probe' = probe /\ needKeyframe' = needKeyframe
        /\ evicted' = (evicted \/ (cache # <<>> /\ nack.frame < cache[1]))
    BY <1>2 DEF Recovery!AnswerNack
  <2> QED
    BY ONLY <2>1, {owed, probe, needKeyframe, evicted} \subseteq BOOLEAN
<1>3. ASSUME NEW f \in Recovery!Frame, Recovery!Retry(f) \/ Recovery!GiveUp(f)
      PROVE  {owed', probe', needKeyframe', evicted'} \subseteq BOOLEAN
  <2>1. /\ owed' = owed /\ probe' = probe /\ evicted' = evicted
        /\ needKeyframe' = needKeyframe \/ \E n : needKeyframe' = (n = f + 1)
    BY <1>3 DEF Recovery!Retry, Recovery!GiveUp
  <2> QED
    BY ONLY <2>1, {owed, probe, needKeyframe, evicted} \subseteq BOOLEAN
<1>4. ASSUME NEW d \in wire, Recovery!Receive(d) \/ Recovery!Lose(d)
      PROVE  {owed', probe', needKeyframe', evicted'} \subseteq BOOLEAN
  <2>1. /\ owed' = owed /\ probe' = probe /\ evicted' = evicted
        /\ needKeyframe' = needKeyframe \/ \E n : needKeyframe' = (needKeyframe /\ n = nextId)
    BY <1>4 DEF Recovery!Receive, Recovery!Lose
  <2> QED
    BY ONLY <2>1, {owed, probe, needKeyframe, evicted} \subseteq BOOLEAN
<1> QED
  BY <1>1, <1>2, <1>3, <1>4 DEF Recovery!Next, Recovery!Step

RecoveryTyped ==
  /\ RecoveryTypes /\ CacheInOrder /\ RecoveryRest
  /\ {owed, probe, needKeyframe, evicted} \subseteq BOOLEAN

LEMMA RecoveryTypesHold ==
  /\ Recovery!Init => RecoveryTyped
  /\ RecoveryTyped /\ [Recovery!Next]_recovery => RecoveryTyped'
  /\ RecoveryTyped => Recovery!TypeOK
<1>1. ASSUME Recovery!Init PROVE RecoveryTyped
  <2>1. owed = FALSE /\ probe = FALSE /\ needKeyframe = FALSE /\ evicted = FALSE
    BY <1>1 DEF Recovery!Init
  <2>2. {owed, probe, needKeyframe, evicted} \subseteq BOOLEAN
    BY ONLY <2>1
  <2>3. MaxLosses \in Nat /\ MaxLost \in Nat
    BY PartsAssumption DEF Recovery!Assumption
  <2>4. RecoveryRest
    BY <1>1, <2>3, RecoveryConstants DEF Recovery!Init, RecoveryRest
  <2>5. RecoveryTypes /\ CacheInOrder
    BY <1>1, RecoveryInit DEF RecoveryInv
  <2> QED
    BY ONLY <2>2, <2>4, <2>5 DEF RecoveryTyped
<1>2. ASSUME RecoveryTyped, UNCHANGED recovery PROVE RecoveryTyped'
  <2>1. RecoveryTypes'
    BY <1>2 DEF RecoveryTyped, RecoveryTypes, recovery
  <2>2. CacheInOrder'
    BY <1>2 DEF RecoveryTyped, CacheInOrder, Kept, recovery
  <2>3. RecoveryRest'
    BY <1>2 DEF RecoveryTyped, RecoveryRest, recovery
  <2>4. owed' = owed /\ probe' = probe /\ needKeyframe' = needKeyframe /\ evicted' = evicted
    BY <1>2 DEF recovery
  <2>5. {owed', probe', needKeyframe', evicted'} \subseteq BOOLEAN
    BY ONLY <1>2, <2>4 DEF RecoveryTyped
  <2> QED
    BY ONLY <2>1, <2>2, <2>3, <2>5 DEF RecoveryTyped
<1>3. ASSUME RecoveryTyped, Recovery!Next PROVE RecoveryTyped'
  <2>1. RecoveryTypes /\ CacheInOrder /\ RecoveryRest /\ {owed, probe, needKeyframe, evicted} \subseteq BOOLEAN
    BY <1>3 DEF RecoveryTyped
  <2>2. RecoveryTypes' /\ CacheInOrder'
    BY <1>3, <2>1, RecoveryTypesKept, CacheKept
  <2>3. RecoveryRest' /\ {owed', probe', needKeyframe', evicted'} \subseteq BOOLEAN
    BY <1>3, <2>1, <2>2, RecoveryRestKept, RecoveryFlagsKept
  <2> QED
    BY ONLY <2>2, <2>3 DEF RecoveryTyped
<1>4. ASSUME RecoveryTyped PROVE Recovery!TypeOK
  <2>1. RecoveryTypes /\ CacheInOrder /\ RecoveryRest /\ {owed, probe, needKeyframe, evicted} \subseteq BOOLEAN
    BY <1>4 DEF RecoveryTyped
  <2> QED
    BY <2>1 DEF RecoveryTypes, CacheInOrder, RecoveryRest, Recovery!TypeOK
<1> QED
  BY <1>1, <1>2, <1>3, <1>4

-----------------------------------------------------------------------------
(* Picture: the types of its variables.                                    *)

PixelsTyped ==
  /\ pixelsAt \in {"decoding", "rendering", "painted"}
  /\ pixelsFrame.w \in Nat /\ pixelsFrame.h \in Nat

LEMMA PixelsTypesHold ==
  /\ Pixels!Init => PixelsTyped
  /\ PixelsInv /\ PixelsTyped /\ [Pixels!Next]_pixels => PixelsTyped'
  /\ PixelsInv /\ PixelsTyped => Pixels!TypeOK
<1>1. ASSUME Pixels!Init PROVE PixelsTyped
  BY <1>1 DEF Pixels!Init, Pixels!NoFrame, PixelsTyped
<1>2. ASSUME PixelsInv, PixelsTyped, UNCHANGED pixels PROVE PixelsTyped'
  <2>1. pixelsAt' = pixelsAt /\ pixelsFrame' = pixelsFrame
    BY <1>2 DEF pixels
  <2> QED
    BY ONLY <1>2, <2>1 DEF PixelsTyped
<1>3. ASSUME PixelsInv, Pixels!SampleToFrame \/ Pixels!ReadBack \/ Pixels!CopyBGRA PROVE PixelsTyped'
  <2>1. StreamFits
    BY <1>3 DEF PixelsInv
  <2>2. FrameWhole'
    BY <1>3, <2>1, SampleWhole, ReadBackWhole, CopyWhole
  <2>3. picture' = picture /\ pixelsAt' = "rendering"
    BY <1>3 DEF Pixels!SampleToFrame, Pixels!ReadBack, Pixels!CopyBGRA
  <2>4. picture.w \in Nat /\ picture.h \in Nat
    BY <2>1, StreamIs DEF Sized
  <2> QED
    BY ONLY <2>2, <2>3, <2>4 DEF FrameWhole, PixelsTyped
<1>4. ASSUME PixelsTyped, Pixels!RenderFrame PROVE PixelsTyped'
  <2>1. pixelsAt' = "painted" /\ pixelsFrame' = pixelsFrame
    BY <1>4 DEF Pixels!RenderFrame
  <2> QED
    BY ONLY <1>4, <2>1 DEF PixelsTyped
<1>5. ASSUME PixelsInv, PixelsTyped PROVE Pixels!TypeOK
  <2>1. StreamFits
    BY <1>5 DEF PixelsInv
  <2>2. /\ Sized(picture) /\ picture = [w |-> picture.w, h |-> picture.h]
    BY <2>1, StreamIs
  <2>3. picture \in Pixels!Size
    BY ONLY <2>2 DEF Sized, Pixels!Size
  <2>4. aperture \in {Pixels!NoFrame} \cup Pixels!Size
    BY ONLY <2>1, <2>3 DEF StreamFits
  <2> QED
    BY ONLY <1>5, <2>1, <2>3, <2>4 DEF StreamFits, PixelsTyped, Pixels!TypeOK
<1> QED
  BY <1>1, <1>2, <1>3, <1>4, <1>5 DEF Pixels!Next

-----------------------------------------------------------------------------
(* FrameTimes: the types of its variables.                                 *)

\* Frames are placed before they were captured, so that every transit is positive.
TimesTyped ==
  /\ end \in Nat /\ origin \in Nat /\ timesQueue \in Nat
  /\ decoded \in Nat \cup {Times!None}
  /\ buckets \subseteq [at : Nat, transit : Nat]

LEMMA GreaterOf ==
  ASSUME NEW d \in Int
  PROVE  Times!Max({0, d}) \in Nat
<1>1. PICK m \in {0, d} : m >= 0 /\ m >= d
  OBVIOUS
<1>2. \E x \in {0, d} : \A y \in {0, d} : x >= y
  BY <1>1
<1>3. Times!Max({0, d}) \in {0, d} /\ \A y \in {0, d} : Times!Max({0, d}) >= y
  BY ONLY <1>2 DEF Times!Max
<1>4. PICK n : n = Times!Max({0, d})
  OBVIOUS
<1>5. n \in {0, d} /\ n >= 0
  BY ONLY <1>3, <1>4
<1> QED
  BY ONLY <1>4, <1>5, d \in Int

LEMMA QueueIsNat ==
  ASSUME TimesInv, TimesTyped, Times!TakeReport
  PROVE  timesQueue' \in Nat
<1>1. CASE interval = Times!None
  <2>1. timesQueue' \in {timesQueue, 0}
    BY <1>1 DEF Times!TakeReport
  <2> QED
    BY ONLY <2>1, TimesTyped DEF TimesTyped
<1>2. CASE interval # Times!None
  <2> DEFINE T == {b.transit : b \in buckets}
  <2>1. timesQueue' = Times!Max({0, interval - Times!Min(T)})
    BY <1>2 DEF Times!TakeReport
  <2>2. interval \in Int /\ buckets # {}
    BY <1>2 DEF TimesInv, ArrivedNow
  <2>3. T \in SUBSET Nat /\ T # {}
    BY ONLY <2>2, TimesTyped DEF TimesTyped
  <2> HIDE DEF T
  <2>4. PICK low \in Nat : low = Times!Min(T)
    BY <2>3, TimesLeast
  <2>5. interval - low \in Int
    BY ONLY <2>2, low \in Nat
  <2> QED
    BY ONLY <2>1, <2>4, <2>5, GreaterOf
<1> QED
  BY <1>1, <1>2

LEMMA TimesArrive ==
  ASSUME TimesInv, TimesTyped, NEW f, Times!Arrive(f)
  PROVE  TimesTyped'
<1>1. Late(f) /\ now' = now /\ now \in Nat /\ Times!None = -1
  BY ArriveIs, TimesConstants DEF TimesInv
<1>2. end' = end /\ timesQueue' = timesQueue
  BY DEF Times!Arrive
<1>3. origin' \in Nat
  <2>1. timesLast' \in Nat
    BY <1>1, ArriveIs, AfterWell
  <2>2. TimesInv'
    BY ArriveKeeps
  <2>3. timesLast' # Times!None => Early(timesLast', origin')
    BY ONLY <2>2 DEF TimesInv, LastPlaced, Times!None, Early, Periods
  <2>4. timesLast' # Times!None
    BY ONLY <1>1, <2>1
  <2> QED
    BY ONLY <2>3, <2>4 DEF Early
<1>4. decoded' \in Nat \cup {Times!None}
  <2>1. PICK m \in next - 1 .. TimesMaxFrames : Times!Released(f) = next .. m /\ Times!Final(f) = m
    BY RunReleased
  <2>2. decoded' = IF Times!Final(f) < next THEN decoded ELSE Placed1(f, Times!Final(f))
    BY DEF Times!Arrive, Placed1
  <2>3. next \in Nat /\ TimesMaxFrames \in Nat
    BY TimesConstants DEF TimesInv
  <2>4. CASE m < next
    BY ONLY <2>1, <2>2, <2>4, TimesTyped DEF TimesTyped
  <2>5. CASE ~(m < next)
    <3>1. m \in next .. m
      BY ONLY <2>3, <2>5, m \in next - 1 .. TimesMaxFrames
    <3>2. Early(Placed1(f, m), timesSent[m])
      BY <1>1, <2>1, <3>1, AfterWell
    <3> QED
      BY ONLY <2>1, <2>2, <2>5, <3>2 DEF Early
  <2> QED
    BY <2>4, <2>5
<1>5. buckets' \subseteq [at : Nat, transit : Nat]
  <2>1. CASE now - timesSent[f] <= MaxDelay
    <3>1. PICK x \in Nat : x = timesSent[f] /\ x <= now
      BY <1>1, CapturedIs
    <3>2. Early(Placing(f), x)
      BY <1>1, <3>1, PlacedWell
    <3>3. PICK abs \in Nat : abs = Placing(f) /\ abs - x <= -Period
      BY ONLY <3>2 DEF Early
    <3>4. now - abs \in Nat
      BY ONLY <1>1, <3>1, <3>3, TimesConstants
    <3>5. buckets' = Times!Buckets(now - abs)
      BY <2>1, <3>3, ArriveIs
    <3> QED
      BY ONLY <1>1, <3>4, <3>5, TimesTyped DEF TimesTyped, Times!Buckets
  <2>2. CASE ~(now - timesSent[f] <= MaxDelay)
    <3>1. buckets' = buckets
      BY <2>2, ArriveIs
    <3> QED
      BY ONLY <3>1, TimesTyped DEF TimesTyped
  <2> QED
    BY <2>1, <2>2
<1> QED
  BY ONLY <1>2, <1>3, <1>4, <1>5, TimesTyped DEF TimesTyped, Times!None

LEMMA TimesTypesHold ==
  /\ Times!Init => TimesTyped
  /\ TimesInv /\ TimesTyped /\ [Times!Next]_times => TimesTyped'
  /\ TimesInv /\ TimesTyped => Times!TypeOK
<1>1. ASSUME Times!Init PROVE TimesTyped
  <2>1. /\ now \in Period .. 2 * Period - 1 /\ end = now + MaxTime /\ origin = 0
        /\ timesQueue = 0 /\ decoded = Times!None /\ buckets = {}
    BY <1>1 DEF Times!Init
  <2>2. Period \in Nat /\ MaxTime \in Nat
    BY PartsAssumption DEF Times!Assumption
  <2>3. end \in Nat
    BY ONLY <2>1, <2>2
  <2> QED
    BY ONLY <2>1, <2>3 DEF TimesTyped
<1>2. ASSUME TimesTyped, UNCHANGED <<end, origin, timesQueue, decoded, buckets>> PROVE TimesTyped'
  BY ONLY <1>2 DEF TimesTyped, Times!None
<1>3. ASSUME TimesInv, TimesTyped, Times!TakeReport PROVE TimesTyped'
  <2>1. timesQueue' \in Nat
    BY <1>3, QueueIsNat
  <2>2. UNCHANGED <<end, origin, decoded, buckets>>
    BY <1>3 DEF Times!TakeReport
  <2> QED
    BY ONLY <1>3, <2>1, <2>2 DEF TimesTyped, Times!None
<1>4. ASSUME Times!Tick \/ Times!Capture \/ UNCHANGED times
      PROVE  UNCHANGED <<end, origin, timesQueue, decoded, buckets>>
  BY <1>4 DEF Times!Tick, Times!Capture, times
<1>5. ASSUME TimesInv, TimesTyped PROVE Times!TypeOK
  <2>1. Times!None = -1 /\ TimesMaxFrames \in Nat
    BY TimesConstants
  <2>2. PICK n \in 0 .. TimesMaxFrames : Captured(n)
    BY <1>5 DEF TimesInv
  <2>3. DOMAIN timesSent = 1 .. n /\ arrived \subseteq 1 .. n
    BY ONLY <2>2 DEF Captured
  <2>4. 1 .. n \subseteq 1 .. TimesMaxFrames
    BY ONLY <2>1, n \in 0 .. TimesMaxFrames
  <2>5. timesLast \in Nat \cup {Times!None}
    BY <1>5, LastIs
  <2>6. interval \in Int
    BY ONLY <1>5, <2>1 DEF TimesInv, ArrivedNow
  <2>7. buckets \subseteq [at : Nat, transit : Int]
    BY ONLY <1>5 DEF TimesTyped
  <2>8. /\ now \in Nat /\ sure \in 0 .. DelayWindow /\ skew \in Int
        /\ next \in 1 .. TimesMaxFrames + 1
    BY <1>5 DEF TimesInv
  <2> QED
    BY ONLY <1>5, <2>3, <2>4, <2>5, <2>6, <2>7, <2>8 DEF TimesTyped, Times!TypeOK
<1> QED
  BY <1>1, <1>2, <1>3, <1>4, <1>5, TimesArrive DEF Times!Next

-----------------------------------------------------------------------------
(* Presenter: the types of its variables.                                  *)

\* No buffer without a size, nor, until the presenter is replaced, a window without
\* one before there are buffers.
PresenterTyped ==
  /\ presenterMade <= MaxTextures /\ Len(views) <= MaxViews
  /\ missed \in BOOLEAN /\ gone \in BOOLEAN
  /\ presenterWindow \in PresenterWindows \cup {0}
  /\ chain \in PresenterWindows \cup {0} /\ size \in PresenterWindows \cup {0}
  /\ chain # 0 => size # 0
  /\ chain = 0 /\ ~gone => presenterWindow # 0
  /\ screen \in Presenter!Drawn \cup {Presenter!None}

\* What draw leaves of the views fits the cache.
InCache(p) == Len(p.views) <= MaxViews

LEMMA CacheEnsured ==
  ASSUME NEW all, NEW H, NEW p, Fits(p, all, H), InCache(p), NEW coded, NEW w
  PROVE  InCache(Presenter!EnsureProcessor(p, coded, w))
<1>1. CASE Presenter!EnsureProcessor(p, coded, w) = p
  BY <1>1
<1>2. CASE Presenter!EnsureProcessor(p, coded, w) # p
  <2>1. Presenter!EnsureProcessor(p, coded, w).views = <<>>
    BY <1>2 DEF Presenter!EnsureProcessor
  <2> QED
    BY <2>1, PresenterConstants DEF InCache
<1> QED
  BY <1>1, <1>2

LEMMA CacheMade ==
  ASSUME NEW all, NEW H, NEW p, Fits(p, all, H), InCache(p)
  PROVE  /\ InCache(Presenter!NoProcessor(p)) /\ InCache(Presenter!Room(p))
         /\ Len(Presenter!Room(p).views) < MaxViews
<1> DEFINE a == p.processor
           b == p.built
           c == p.views
<1>1. p = [processor |-> a, built |-> b, views |-> c]
  BY DEF Fits
<1>2. p.views = c /\ c \in Seq(Viewed)
  BY <1>1 DEF Fits
<1> HIDE DEF a, b, c
<1>3. MaxViews \in Nat \ {0} /\ Len(c) \in Nat /\ Len(<<>>) = 0
  BY <1>2, PresenterConstants
<1>4. Presenter!NoProcessor(p).views = <<>>
  <2>1. [p EXCEPT !.processor = Presenter!None] = [processor |-> Presenter!None, built |-> b, views |-> c]
    BY <1>1
  <2>2. \A r : r = [processor |-> Presenter!None, built |-> b, views |-> c] =>
          [r EXCEPT !.views = <<>>].views = <<>>
    OBVIOUS
  <2>3. Presenter!NoProcessor(p) = [[p EXCEPT !.processor = Presenter!None] EXCEPT !.views = <<>>]
    BY DEF Presenter!NoProcessor
  <2> QED
    BY ONLY <2>1, <2>2, <2>3
<1>5. Presenter!Room(p).views = IF Len(c) >= MaxViews THEN <<>> ELSE c
  BY ONLY <1>1 DEF Presenter!Room
<1>6. PICK n \in Nat : n = Len(Presenter!Room(p).views) /\ n < MaxViews
  BY ONLY <1>3, <1>5
<1>7. InCache(Presenter!Room(p)) /\ Len(Presenter!Room(p).views) < MaxViews
  BY ONLY <1>3, <1>6, n \in Nat DEF InCache
<1>8. InCache(Presenter!NoProcessor(p))
  BY ONLY <1>3, <1>4 DEF InCache
<1> QED
  BY ONLY <1>7, <1>8

LEMMA CacheViewed ==
  ASSUME NEW all, NEW H, NEW p, Fits(p, all, H), InCache(p), NEW t, NEW slice
  PROVE  InCache(Presenter!InputView(p, t, slice, all))
<1>1. CASE Presenter!ViewFor(p, all[t].at, slice) # {}
  BY <1>1 DEF Presenter!InputView
<1>2. CASE Presenter!ViewFor(p, all[t].at, slice) = {}
  <2> DEFINE new == [at |-> all[t].at, slice |-> slice, of |-> t, by |-> p.processor.number]
             old == Presenter!Room(p).views
  <2>1. Presenter!InputView(p, t, slice, all) = [p EXCEPT !.views = Append(old, new)]
    BY <1>2 DEF Presenter!InputView
  <2>2. PICK a, b, c : p = [processor |-> a, built |-> b, views |-> c]
    BY DEF Fits
  <2>3. old \in Seq(Viewed) /\ Len(old) < MaxViews
    <3>1. Fits(Presenter!Room(p), all, H)
      BY RoomFits
    <3>2. Len(Presenter!Room(p).views) < MaxViews
      BY ONLY Fits(p, all, H), InCache(p), CacheMade
    <3> QED
      BY ONLY <3>1, <3>2 DEF Fits
  <2> HIDE DEF old, new
  <2>4. Presenter!InputView(p, t, slice, all).views = Append(old, new)
    BY ONLY <2>1, <2>2
  <2>5. Len(Append(old, new)) = Len(old) + 1 /\ Len(old) \in Nat
    BY ONLY <2>3
  <2> QED
    BY <2>3, <2>4, <2>5, PresenterConstants DEF InCache
<1> QED
  BY <1>1, <1>2

LEMMA CacheLeft ==
  ASSUME NEW p, InCache(p), Presenter!Left(p)
  PROVE  Len(views') <= MaxViews
  BY DEF InCache, Presenter!Left

LEMMA CacheDrawn ==
  ASSUME NEW all, NEW H, Fits(Presenter!Now, all, H), Len(views) <= MaxViews, NEW s, NEW wanted
  PROVE  /\ \A buffers : Presenter!Draw(s, all, buffers, wanted) => Len(views') <= MaxViews
         /\ Presenter!DrawFails(s, all, wanted) => Len(views') <= MaxViews
<1> DEFINE p == Presenter!EnsureProcessor(Presenter!Now, all[s.texture].size, wanted)
           q == Presenter!InputView(p, s.texture, s.slice, all)
<1>1. InCache(Presenter!Now)
  BY DEF InCache, Presenter!Now
<1>2. Fits(p, all, H) /\ InCache(p)
  BY <1>1, ProcessorFits, CacheEnsured
<1>3. ASSUME NEW buffers, Presenter!Draw(s, all, buffers, wanted) PROVE Presenter!Left(q)
  BY <1>3 DEF Presenter!Draw
<1>4. ASSUME Presenter!DrawFails(s, all, wanted)
      PROVE  \E r \in {Presenter!NoProcessor(p), p, Presenter!Room(p), q} : Presenter!Left(r)
  BY <1>4 DEF Presenter!DrawFails
<1> HIDE DEF p
<1>5. InCache(Presenter!NoProcessor(p)) /\ InCache(Presenter!Room(p)) /\ InCache(q)
  <2>1. InCache(Presenter!NoProcessor(p)) /\ InCache(Presenter!Room(p))
    BY ONLY <1>2, CacheMade
  <2>2. InCache(q)
    BY <1>2, CacheViewed
  <2> QED
    BY ONLY <2>1, <2>2
<1> HIDE DEF q
<1> QED
  BY <1>2, <1>3, <1>4, <1>5, CacheLeft

\* What is drawn, of a texture that is there.
LEMMA DrawnIs ==
  ASSUME NEW all \in Seq([at : Addresses, size : Codeds]), Len(all) <= MaxTextures,
         NEW t \in 1 .. Len(all), NEW slice \in Presenter!Slice,
         NEW wanted \in PresenterWindows, NEW buffers \in PresenterWindows
  PROVE  /\ [texture |-> t, slice |-> slice, by |-> [input |-> all[t].size, output |-> wanted],
             size |-> buffers] \in Presenter!Drawn
         /\ all[t].at \in Addresses
<1>1. all[t] \in [at : Addresses, size : Codeds]
  BY Element
<1>2. t \in Presenter!Texture \cup {0}
  BY PresenterConstants DEF Presenter!Texture
<1>3. all[t].size \in Codeds /\ all[t].at \in Addresses
  BY ONLY <1>1
<1> QED
  BY ONLY <1>2, <1>3, slice \in Presenter!Slice, wanted \in PresenterWindows, buffers \in PresenterWindows
     DEF Presenter!Drawn

LEMMA GivenInBounds ==
  ASSUME TexturesFit, presenterMade <= MaxTextures, NEW s, Presenter!Given(s)
  PROVE  presenterMade' <= MaxTextures
<1>1. presenterMade' = presenterMade \/ (presenterMade < MaxTextures /\ presenterMade' = presenterMade + 1)
  BY DEF Presenter!Given, Presenter!Uploaded, Presenter!OnGpu, Presenter!Upload, Presenter!CreateTexture
<1> QED
  BY ONLY <1>1, TexturesFit, presenterMade <= MaxTextures, PresenterConstants DEF TexturesFit

LEMMA RenderTyped ==
  ASSUME PresenterInv, PresenterTyped, Presenter!RenderFrame
  PROVE  PresenterTyped'
<1>1. PICK s \in [texture : Presenter!Texture, slice : Presenter!Slice] :
        Presenter!Given(s) /\ Presenter!Draw(s, textures', chain, size)
  BY DEF Presenter!RenderFrame
<1>2. /\ chain' = chain /\ size' = size /\ presenterWindow' = presenterWindow
      /\ gone' = gone /\ Presenter!Running /\ missed' = (missed /\ chain # size)
  BY DEF Presenter!RenderFrame
<1>3. TexturesFit /\ Fits(Presenter!Now, textures, InUse) /\ Apart(textures, InUse)
  BY DEF PresenterInv
<1>4. PICK H : /\ Apart(textures', H) /\ Fits(Presenter!Now, textures', H)
               /\ s.texture \in H /\ Len(textures') = presenterMade'
               /\ textures' \in Seq([at : Addresses, size : Codeds])
               /\ \A t \in H : textures'[t].at \in Addresses
  BY <1>1, <1>3, GivenFits
<1>5. s.slice \in Presenter!Slice
  OBVIOUS
<1>6. screen' = [texture |-> s.texture, slice |-> s.slice,
                 by |-> [input |-> textures'[s.texture].size, output |-> size], size |-> chain]
  BY <1>1, <1>4, <1>5, DrawFits
<1>7. presenterMade' <= MaxTextures
  BY <1>1, <1>3, GivenInBounds DEF PresenterTyped
<1>8. chain \in PresenterWindows /\ size \in PresenterWindows
  BY <1>2 DEF Presenter!Running, PresenterTyped
<1>9. s.texture \in 1 .. Len(textures')
  BY ONLY <1>4 DEF Apart
<1>10. screen' \in Presenter!Drawn
  BY ONLY <1>4, <1>5, <1>6, <1>7, <1>8, <1>9, DrawnIs
<1>11. Len(views') <= MaxViews
  BY <1>1, <1>4, CacheDrawn DEF PresenterTyped
<1>12. missed' \in BOOLEAN
  BY ONLY <1>2
<1>13. gone' \in BOOLEAN
  BY ONLY <1>2, PresenterTyped DEF PresenterTyped
<1> QED
  BY ONLY <1>2, <1>7, <1>10, <1>11, <1>12, <1>13, PresenterTyped DEF PresenterTyped, Presenter!None

LEMMA WindowTyped ==
  ASSUME PresenterInv, PresenterTyped,
         Presenter!Initialize \/ Presenter!Resize \/ Presenter!ResizeFails \/ Presenter!Minimise
  PROVE  PresenterTyped'
<1> USE DEF Presenter!gpu
<1>1. TexturesFit /\ Fits(Presenter!Now, textures, InUse) /\ Apart(textures, InUse)
  BY DEF PresenterInv
<1>2. 0 \notin PresenterWindows /\ Presenter!Minimised = 0
  BY PresenterConstants
<1>3. CASE Presenter!Initialize
  <2>1. /\ chain = 0 /\ ~gone /\ chain' = presenterWindow /\ size' = presenterWindow
        /\ UNCHANGED <<presenterMade, views, missed, gone, presenterWindow, screen>>
    BY <1>3 DEF Presenter!Initialize, Presenter!Swapchain
  <2>2. missed' \in BOOLEAN /\ gone' \in BOOLEAN
    BY ONLY <2>1, PresenterTyped DEF PresenterTyped
  <2> QED
    BY ONLY <2>1, <2>2, PresenterTyped DEF PresenterTyped, Presenter!None
<1>4. CASE Presenter!Resize
  <2>1. PICK w \in PresenterWindows :
          presenterWindow' = w /\ size' = w /\ chain' = w /\ Presenter!Redraw(w)
    BY <1>4 DEF Presenter!Resize, Presenter!Swapchain
  <2>2. presenterMade' = presenterMade /\ gone' = gone
    BY <1>4 DEF Presenter!Resize
  <2>3. CASE presenterShown = Presenter!None
    <3>1. UNCHANGED <<views, screen, missed>>
      BY <2>1, <2>3 DEF Presenter!Redraw
    <3>2. missed' \in BOOLEAN /\ gone' \in BOOLEAN
      BY ONLY <2>2, <3>1, PresenterTyped DEF PresenterTyped
    <3> QED
      BY ONLY <1>2, <2>1, <2>2, <3>1, <3>2, PresenterTyped DEF PresenterTyped, Presenter!None
  <2>4. CASE presenterShown # Presenter!None
    <3>1. Presenter!Draw(presenterShown, textures, w, w) /\ missed' = FALSE
      BY <2>1, <2>4 DEF Presenter!Redraw
    <3>2. screen' = [texture |-> presenterShown.texture, slice |-> presenterShown.slice,
                     by |-> [input |-> textures[presenterShown.texture].size, output |-> w], size |-> w]
      BY <1>1, <2>4, <3>1, ShownFits, DrawFits
    <3>3. /\ textures \in Seq([at : Addresses, size : Codeds]) /\ Len(textures) <= MaxTextures
          /\ presenterShown.texture \in 1 .. Len(textures)
          /\ presenterShown.slice \in Presenter!Slice
      BY ONLY <1>1, <2>4, PresenterTyped DEF TexturesFit, PresenterTyped
    <3>4. screen' \in Presenter!Drawn
      BY ONLY <3>2, <3>3, w \in PresenterWindows, DrawnIs
    <3>5. Len(views') <= MaxViews
      BY <1>1, <3>1, CacheDrawn DEF PresenterTyped
    <3>6. missed' \in BOOLEAN
      BY ONLY <3>1
    <3>7. gone' \in BOOLEAN
      BY ONLY <2>2, PresenterTyped DEF PresenterTyped
    <3> QED
      BY ONLY <1>2, <2>1, <2>2, <3>4, <3>5, <3>6, <3>7, PresenterTyped
         DEF PresenterTyped, Presenter!None
  <2> QED
    BY <2>3, <2>4
<1>5. CASE Presenter!ResizeFails
  <2>1. PICK w \in PresenterWindows :
          /\ presenterWindow' = w /\ size' = w
          /\ \/ UNCHANGED <<chain, processor, built, views>>
             \/ chain' = w /\ presenterShown # Presenter!None /\ Presenter!DrawFails(presenterShown, textures, w)
    BY <1>5 DEF Presenter!ResizeFails
  <2>2. presenterMade' = presenterMade /\ gone' = gone /\ screen' = screen /\ missed' = TRUE
    BY <1>5 DEF Presenter!ResizeFails
  <2>3. Len(views') <= MaxViews
    BY <1>1, <2>1, CacheDrawn DEF PresenterTyped
  <2>4. missed' \in BOOLEAN
    BY ONLY <2>2
  <2>5. gone' \in BOOLEAN
    BY ONLY <2>2, PresenterTyped DEF PresenterTyped
  <2>6. chain' \in PresenterWindows \cup {0}
    BY ONLY <2>1, PresenterTyped DEF PresenterTyped
  <2> QED
    BY ONLY <1>2, <2>1, <2>2, <2>3, <2>4, <2>5, <2>6, PresenterTyped DEF PresenterTyped, Presenter!None
<1>6. CASE Presenter!Minimise
  <2>1. /\ presenterWindow' = 0 /\ chain # 0
        /\ UNCHANGED <<presenterMade, views, missed, gone, chain, size, screen>>
    BY <1>2, <1>6 DEF Presenter!Minimise, Presenter!presenter, Presenter!Running
  <2>2. missed' \in BOOLEAN /\ gone' \in BOOLEAN
    BY ONLY <2>1, PresenterTyped DEF PresenterTyped
  <2> QED
    BY ONLY <2>1, <2>2, PresenterTyped DEF PresenterTyped, Presenter!None
<1> QED
  BY <1>3, <1>4, <1>5, <1>6

LEMMA PresenterTypesHold ==
  /\ Presenter!Init => PresenterTyped
  /\ PresenterInv /\ PresenterTyped /\ [Presenter!Next]_presenter => PresenterTyped'
  /\ PresenterInv /\ PresenterTyped => Presenter!TypeOK
<1>0. /\ MaxViews \in Nat \ {0} /\ MaxTextures \in Nat \ {0} /\ Presenter!Minimised = 0
      /\ 0 \notin PresenterWindows
  BY PresenterConstants
<1>1. ASSUME Presenter!Init PROVE PresenterTyped
  <2>1. /\ presenterMade = 0 /\ views = <<>> /\ chain = 0 /\ size = 0
        /\ presenterWindow \in PresenterWindows /\ screen = Presenter!None
    BY <1>1 DEF Presenter!Init
  <2>2. missed \in BOOLEAN /\ gone \in BOOLEAN
    BY <1>1 DEF Presenter!Init
  <2>3. Len(views) = 0
    BY ONLY <2>1
  <2> QED
    BY ONLY <1>0, <2>1, <2>2, <2>3 DEF PresenterTyped
<1>2. ASSUME PresenterTyped, UNCHANGED presenter PROVE PresenterTyped'
  <2>1. UNCHANGED <<presenterMade, views, missed, gone, presenterWindow, chain, size, screen>>
    BY <1>2 DEF presenter
  <2>2. missed' \in BOOLEAN /\ gone' \in BOOLEAN
    BY ONLY <1>2, <2>1 DEF PresenterTyped
  <2> QED
    BY ONLY <1>2, <2>1, <2>2 DEF PresenterTyped, Presenter!None
<1>3. ASSUME PresenterInv, PresenterTyped, Presenter!DecoderBegins PROVE PresenterTyped'
  <2>1. /\ UNCHANGED <<views, missed, gone, presenterWindow, chain, size, screen>>
        /\ presenterMade < MaxTextures /\ presenterMade' = presenterMade + 1
    BY <1>3 DEF Presenter!DecoderBegins, Presenter!CreateTexture, Presenter!presenter
  <2>2. missed' \in BOOLEAN /\ gone' \in BOOLEAN
    BY ONLY <1>3, <2>1 DEF PresenterTyped
  <2>3. presenterMade \in Nat
    BY <1>3 DEF PresenterInv, TexturesFit
  <2>4. presenterMade' <= MaxTextures
    BY ONLY <1>0, <2>1, <2>3
  <2> QED
    BY ONLY <1>3, <2>1, <2>2, <2>4 DEF PresenterTyped, Presenter!None
<1>4. ASSUME PresenterTyped, Presenter!RenderFails PROVE PresenterTyped'
  <2>1. /\ presenterMade' = 0 /\ views' = <<>> /\ chain' = 0 /\ size' = 0
        /\ presenterWindow' = presenterWindow /\ screen' = Presenter!None /\ gone'
    BY <1>4 DEF Presenter!RenderFails
  <2>2. missed' \in BOOLEAN /\ gone' \in BOOLEAN
    BY <1>4 DEF Presenter!RenderFails
  <2>3. Len(views') = 0
    BY ONLY <2>1
  <2> QED
    BY ONLY <1>0, <1>4, <2>1, <2>2, <2>3 DEF PresenterTyped, Presenter!None
<1>5. ASSUME PresenterInv, PresenterTyped PROVE Presenter!TypeOK
  <2>1. TexturesFit
    BY <1>5 DEF PresenterInv
  <2>2. presenterMade \in 0 .. MaxTextures
    BY ONLY <1>0, <1>5, <2>1 DEF TexturesFit, PresenterTyped
  <2>3. textures \in [1 .. presenterMade -> [at : Addresses, size : Codeds]]
    <3>1. textures \in Seq([at : Addresses, size : Codeds]) /\ Len(textures) = presenterMade
      BY ONLY <2>1 DEF TexturesFit
    <3>2. \A S : textures \in Seq(S) => textures \in [1 .. Len(textures) -> S]
      OBVIOUS
    <3> QED
      BY ONLY <3>1, <3>2
  <2>4. built \in {0, 1}
    <3>1. Presenter!Now.built = built
      BY DEF Presenter!Now
    <3> QED
      BY ONLY <1>5, <3>1 DEF PresenterInv, Fits
  <2>5. {missed, gone} \subseteq BOOLEAN
    BY ONLY <1>5 DEF PresenterTyped
  <2> QED
    BY ONLY <1>0, <1>5, <2>1, <2>2, <2>3, <2>4, <2>5 DEF TexturesFit, PresenterTyped, Presenter!TypeOK
<1> QED
  BY <1>1, <1>2, <1>3, <1>4, <1>5, RenderTyped, WindowTyped DEF Presenter!Next

=============================================================================
