-------------------------- MODULE BitstreamProofs ---------------------------
(***************************************************************************)
(* Proofs about frames made whole from pieces: the older reassembly buffer *)
(* (Reassembly), and a frame's bytes from encoder to decoder (Bitstream),  *)
(* for every value of the constants.                                       *)
(***************************************************************************)
EXTENDS ViewerParts, Integers, DataLemmas, FiniteSetTheorems

-----------------------------------------------------------------------------
(* Reassembly: frames come out in order, each once and whole.              *)

\* A sequence one longer.
LEMMA Appended ==
  ASSUME NEW S, NEW q \in Seq(S), NEW e \in S
  PROVE  /\ Append(q, e) \in Seq(S) /\ DOMAIN q = 1 .. Len(q)
         /\ DOMAIN Append(q, e) = 1 .. Len(q) + 1
         /\ Append(q, e)[Len(q) + 1] = e /\ \A i \in 1 .. Len(q) : Append(q, e)[i] = q[i]
         /\ Len(q) \in Nat
OBVIOUS

LEMMA ReassemblyConstants ==
  /\ Frames \in SUBSET Nat /\ IsFiniteSet(Frames)
  /\ MaxTotal \in Nat \ {0} /\ ReassemblyCapacity \in Nat \ {0}
  /\ \A S : Reassembly!Cardinality(S) = Cardinality(S)
  /\ Reassembly!None = -1
  BY PartsAssumption
     DEF Reassembly!Assumption, Reassembly!IsFiniteSet, IsFiniteSet, Reassembly!Cardinality,
         Cardinality, Reassembly!None

\* What is there of a frame.
PartlyThere(p) ==
  /\ p = [total |-> p.total, got |-> p.got, key |-> p.key]
  /\ p.total \in 1 .. MaxTotal /\ p.got \in SUBSET (0 .. p.total - 1) /\ p.key \in BOOLEAN

\* Frames handed out or given up are not newer than the watermark, and those handed
\* out are neither waited for nor given up.
ReassemblyInv ==
  /\ watermark \in Int /\ watermark >= -1
  /\ DOMAIN pending \in SUBSET Frames /\ Cardinality(DOMAIN pending) <= ReassemblyCapacity
  /\ \A f \in DOMAIN pending : PartlyThere(pending[f])
  /\ reassemblyAbandoned \in SUBSET Frames /\ \A f \in reassemblyAbandoned : f <= watermark
  /\ out \in Seq(Reassembly!Handed)
  /\ \A i \in DOMAIN out :
       /\ out[i].id <= watermark /\ out[i].id \notin DOMAIN pending
       /\ out[i].id \notin reassemblyAbandoned
       /\ out[i].got = 0 .. out[i].total - 1
  /\ \A i, j \in DOMAIN out : i < j => out[i].id < out[j].id

\* A set of numbers below a bound has a greatest.
LEMMA GreatestElement ==
  ASSUME NEW bound \in Nat, NEW S \in SUBSET (0 .. bound), S # {}
  PROVE  \E m \in S : \A n \in S : n <= m
<1>1. PICK m \in {bound - x : x \in S} : \A k \in {bound - x : x \in S} : m <= k
  <2>1. \A x \in S : bound - x \in Nat
    OBVIOUS
  <2>2. {bound - x : x \in S} \in SUBSET Nat
    BY ONLY <2>1
  <2>3. {bound - x : x \in S} # {}
    OBVIOUS
  <2> QED
    BY <2>2, <2>3, LeastElement
<1>2. PICK z \in S : m = bound - z
  OBVIOUS
<1>3. \A x \in S : bound - z <= bound - x
  BY <1>1, <1>2
<1> QED
  BY <1>3

\* A full window has a frame that is the oldest, and not the newest to come.
LEMMA OldestIs ==
  ASSUME ReassemblyInv, DOMAIN pending # {}
  PROVE  \E f \in DOMAIN pending : Reassembly!Oldest = {f} /\ \A g \in DOMAIN pending : f <= g
<1>1. DOMAIN pending \in SUBSET Nat
  BY ReassemblyConstants DEF ReassemblyInv
<1>2. PICK f \in DOMAIN pending : \A g \in DOMAIN pending : f <= g
  BY <1>1, LeastElement
<1>3. \A g \in DOMAIN pending : g <= f => g = f
  BY <1>1, <1>2
<1>4. Reassembly!Oldest = {f}
  BY <1>2, <1>3 DEF Reassembly!Oldest
<1> QED
  BY <1>2, <1>4

\* What making room for a fragment gives up, and where that leaves the watermark.
LEMMA RoomMade ==
  ASSUME ReassemblyInv, NEW h \in Reassembly!Header, ~Reassembly!Refused(h)
  PROVE  /\ Reassembly!Evicted(h) \in SUBSET DOMAIN pending
         /\ h.id \notin Reassembly!Evicted(h)
         /\ Reassembly!Made(h, watermark) \in Int
         /\ watermark <= Reassembly!Made(h, watermark)
         /\ Reassembly!Made(h, watermark) < h.id
         /\ watermark < h.id
         /\ \A f \in Reassembly!Evicted(h) : f <= Reassembly!Made(h, watermark)
         /\ Cardinality((DOMAIN pending \ Reassembly!Evicted(h)) \cup {h.id}) <= ReassemblyCapacity
<1>1. h.id \in Nat /\ IsFiniteSet(DOMAIN pending) /\ DOMAIN pending \in SUBSET Nat
  <2>1. IsFiniteSet(DOMAIN pending)
    BY ReassemblyConstants, FS_Subset DEF ReassemblyInv
  <2> QED
    BY <2>1, ReassemblyConstants DEF Reassembly!Header, ReassemblyInv
<1>2. watermark \in Int /\ watermark >= -1 /\ Cardinality(DOMAIN pending) <= ReassemblyCapacity
  BY DEF ReassemblyInv
<1>3. watermark < h.id
  BY <1>1, <1>2, ReassemblyConstants DEF Reassembly!Refused, Reassembly!IsStale
<1>4. Cardinality(DOMAIN pending) \in Nat
  BY <1>1, FS_CardinalityType
<1>5. CASE Reassembly!Full(h)
  <2>1. h.id \notin DOMAIN pending /\ Cardinality(DOMAIN pending) >= ReassemblyCapacity
    BY <1>5, ReassemblyConstants DEF Reassembly!Full
  <2>2. DOMAIN pending # {}
    BY <2>1, FS_EmptySet, ReassemblyConstants
  <2>3. PICK f \in DOMAIN pending : Reassembly!Oldest = {f} /\ \A g \in DOMAIN pending : f <= g
    BY <2>2, OldestIs
  <2>4. f < h.id
    <3>1. ~(\A g \in DOMAIN pending : h.id < g)
      BY <1>5 DEF Reassembly!Refused
    <3>2. PICK g \in DOMAIN pending : ~(h.id < g)
      BY <3>1
    <3> QED
      BY <1>1, <2>1, <2>3, <3>2
  <2>5. Reassembly!Evicted(h) = {f}
    BY <1>5, <2>3 DEF Reassembly!Evicted
  <2>6. Reassembly!Made(h, watermark) = IF watermark >= f THEN watermark ELSE f
    <3>1. (CHOOSE g \in Reassembly!Oldest : TRUE) = f
      BY <2>3
    <3>2. Reassembly!Made(h, watermark)
            = Reassembly!Retired(watermark, CHOOSE g \in Reassembly!Oldest : TRUE)
      BY <1>5 DEF Reassembly!Made
    <3> QED
      BY ONLY <3>1, <3>2 DEF Reassembly!Retired
  <2>7. /\ IsFiniteSet(DOMAIN pending \ {f})
        /\ Cardinality(DOMAIN pending \ {f}) = Cardinality(DOMAIN pending) - 1
    BY <1>1, FS_RemoveElement
  <2>8. Cardinality((DOMAIN pending \ {f}) \cup {h.id}) = Cardinality(DOMAIN pending \ {f}) + 1
    BY <2>1, <2>7, FS_AddElement
  <2> QED
    BY <1>1, <1>2, <1>3, <1>4, <2>1, <2>3, <2>4, <2>5, <2>6, <2>7, <2>8
<1>6. CASE ~Reassembly!Full(h)
  <2>1. Reassembly!Evicted(h) = {} /\ Reassembly!Made(h, watermark) = watermark
    BY <1>6 DEF Reassembly!Evicted, Reassembly!Made
  <2>2. h.id \in DOMAIN pending \/ Cardinality(DOMAIN pending) < ReassemblyCapacity
    BY <1>4, <1>6, ReassemblyConstants DEF Reassembly!Full
  <2>3. Cardinality(DOMAIN pending \cup {h.id}) <= ReassemblyCapacity
    <3>1. Cardinality(DOMAIN pending \cup {h.id})
            = IF h.id \in DOMAIN pending THEN Cardinality(DOMAIN pending) ELSE Cardinality(DOMAIN pending) + 1
      BY <1>1, FS_AddElement
    <3> QED
      BY ONLY <1>2, <1>4, <2>2, <3>1, ReassemblyConstants
  <2>4. DOMAIN pending \ {} = DOMAIN pending
    OBVIOUS
  <2> QED
    BY <1>1, <1>2, <1>3, <2>1, <2>3, <2>4
<1> QED
  BY <1>5, <1>6

\* What a fragment adds to its frame.
LEMMA FilledIs ==
  ASSUME ReassemblyInv, NEW h \in Reassembly!Header, ~Reassembly!Refused(h)
  PROVE  PartlyThere(Reassembly!Filled(h))
<1>1. /\ h.id \in Frames /\ h.frag \in Nat /\ h.total \in 1 .. MaxTotal /\ h.frag < h.total
      /\ h.key \in BOOLEAN
  BY DEF Reassembly!Header
<1>2. PartlyThere(Reassembly!Entry(h)) /\ h.total = Reassembly!Entry(h).total
  <2>1. CASE h.id \in DOMAIN pending
    <3>1. Reassembly!Entry(h) = pending[h.id]
      BY <2>1 DEF Reassembly!Entry
    <3> QED
      BY <2>1, <3>1 DEF ReassemblyInv, Reassembly!Refused
  <2>2. CASE h.id \notin DOMAIN pending
    <3>1. Reassembly!Entry(h) = [total |-> h.total, got |-> {}, key |-> FALSE]
      BY <2>2 DEF Reassembly!Entry
    <3> QED
      BY <1>1, <3>1 DEF PartlyThere
  <2> QED
    BY <2>1, <2>2
<1> DEFINE p == Reassembly!Entry(h)
           q == Reassembly!Filled(h)
<1>3. p = [total |-> p.total, got |-> p.got, key |-> p.key]
  BY ONLY <1>2 DEF PartlyThere
<1>4. q = [total |-> p.total, got |-> p.got \cup {h.frag}, key |-> p.key \/ h.key]
  <2> DEFINE a == p.total
             b == p.got
             c == p.key
  <2>1. p = [total |-> a, got |-> b, key |-> c]
    BY <1>3
  <2>2. q = [[p EXCEPT !.got = p.got \cup {h.frag}] EXCEPT !.key = p.key \/ h.key]
    BY DEF Reassembly!Filled
  <2> HIDE DEF p, q, a, b, c
  <2>3. [p EXCEPT !.got = p.got \cup {h.frag}] = [total |-> a, got |-> b \cup {h.frag}, key |-> c]
    BY ONLY <2>1
  <2>4. [[total |-> a, got |-> b \cup {h.frag}, key |-> c] EXCEPT !.key = p.key \/ h.key]
          = [total |-> a, got |-> b \cup {h.frag}, key |-> p.key \/ h.key]
    BY ONLY TRUE
  <2> QED
    BY ONLY <2>2, <2>3, <2>4 DEF a, b, c
<1> HIDE DEF p, q
<1>5. q.total = p.total /\ q.got = p.got \cup {h.frag} /\ q.key = (p.key \/ h.key)
      /\ q = [total |-> q.total, got |-> q.got, key |-> q.key]
  BY ONLY <1>4
<1>6. q.total \in 1 .. MaxTotal
  BY ONLY <1>2, <1>5 DEF PartlyThere, p
<1>7. q.got \in SUBSET (0 .. q.total - 1)
  BY ONLY <1>1, <1>2, <1>5 DEF PartlyThere, p
<1>8. q.key \in BOOLEAN
  BY ONLY <1>5, Zenon
<1> QED
  BY ONLY <1>5, <1>6, <1>7, <1>8 DEF PartlyThere, q

\* A complete frame has all of its fragments.
LEMMA CompleteIs ==
  ASSUME NEW p, PartlyThere(p), Reassembly!IsComplete(p)
  PROVE  p.got = 0 .. p.total - 1
<1>1. p.total \in Nat \ {0} /\ p.got \in SUBSET (0 .. p.total - 1) /\ Cardinality(p.got) = p.total
  BY ReassemblyConstants DEF PartlyThere, Reassembly!IsComplete
<1>2. IsFiniteSet(0 .. p.total - 1) /\ Cardinality(0 .. p.total - 1) = p.total
  <2>1. p.total - 1 \in Int /\ ~(0 > p.total - 1) /\ p.total - 1 - 0 + 1 = p.total
    BY <1>1
  <2>2. 0 \in Int
    OBVIOUS
  <2> QED
    BY ONLY <2>1, <2>2, FS_Interval
<1> QED
  BY <1>1, <1>2, FS_Subset

LEMMA ReassemblyInit ==
  ASSUME Reassembly!Init
  PROVE  ReassemblyInv
<1>1. DOMAIN pending = {} /\ watermark = -1 /\ reassemblyAbandoned = {} /\ out = <<>>
  BY ReassemblyConstants DEF Reassembly!Init
<1>2. Cardinality({}) = 0
  BY FS_EmptySet
<1> QED
  BY <1>1, <1>2, ReassemblyConstants DEF ReassemblyInv

LEMMA PartialKeeps ==
  ASSUME ReassemblyInv, Reassembly!InsertPartial
  PROVE  ReassemblyInv'
<1>1. PICK h \in Reassembly!Header :
        /\ ~Reassembly!Refused(h)
        /\ pending' = Reassembly!With(Reassembly!Without(pending, Reassembly!Evicted(h)), h.id,
                                      Reassembly!Filled(h))
        /\ watermark' = Reassembly!Made(h, watermark)
        /\ reassemblyAbandoned' = reassemblyAbandoned \cup Reassembly!Evicted(h)
        /\ out' = out
  BY DEF Reassembly!InsertPartial
<1>2. PICK gone1, mark : gone1 = Reassembly!Evicted(h) /\ mark = Reassembly!Made(h, watermark)
  OBVIOUS
<1>3. PICK entry : entry = Reassembly!Filled(h)
  OBVIOUS
<1>4. /\ gone1 \in SUBSET DOMAIN pending /\ h.id \notin gone1
      /\ mark \in Int /\ watermark <= mark /\ mark < h.id /\ watermark < h.id
      /\ \A f \in gone1 : f <= mark
      /\ Cardinality((DOMAIN pending \ gone1) \cup {h.id}) <= ReassemblyCapacity
  BY <1>1, <1>2, RoomMade
<1>5. PartlyThere(entry) /\ h.id \in Frames
  BY <1>1, <1>3, FilledIs DEF Reassembly!Header
<1>6. /\ DOMAIN pending' = (DOMAIN pending \ gone1) \cup {h.id}
      /\ \A f \in DOMAIN pending' : pending'[f] = IF f = h.id THEN entry ELSE pending[f]
  BY <1>1, <1>2, <1>3 DEF Reassembly!With, Reassembly!Without
<1>7. \A f \in DOMAIN pending' : PartlyThere(pending'[f])
  BY <1>5, <1>6 DEF ReassemblyInv
<1>8. /\ watermark \in Int /\ watermark >= -1 /\ out \in Seq(Reassembly!Handed)
      /\ DOMAIN pending \in SUBSET Frames
      /\ reassemblyAbandoned \in SUBSET Frames /\ \A f \in reassemblyAbandoned : f <= watermark
      /\ \A i, j \in DOMAIN out : i < j => out[i].id < out[j].id
      /\ \A i \in DOMAIN out :
           /\ out[i].id <= watermark /\ out[i].id \notin DOMAIN pending
           /\ out[i].id \notin reassemblyAbandoned /\ out[i].got = 0 .. out[i].total - 1
  BY DEF ReassemblyInv
<1>9. \A f \in Frames : f \in Int
  BY ReassemblyConstants
<1>10. \A i \in DOMAIN out : out[i].id \in Int
  <2>1. \A i \in DOMAIN out : out[i] \in Reassembly!Handed
    BY <1>8
  <2> QED
    BY <1>9, <2>1 DEF Reassembly!Handed
<1>11. /\ mark >= -1
       /\ (DOMAIN pending \ gone1) \cup {h.id} \in SUBSET Frames
       /\ reassemblyAbandoned \cup gone1 \in SUBSET Frames
       /\ \A f \in reassemblyAbandoned \cup gone1 : f <= mark
  BY <1>4, <1>5, <1>8, <1>9
<1>12. \A i \in DOMAIN out :
         /\ out[i].id <= mark /\ out[i].id \notin (DOMAIN pending \ gone1) \cup {h.id}
         /\ out[i].id \notin reassemblyAbandoned \cup gone1 /\ out[i].got = 0 .. out[i].total - 1
  BY <1>4, <1>8, <1>10
<1> QED
  BY ONLY <1>1, <1>2, <1>4, <1>6, <1>7, <1>8, <1>11, <1>12 DEF ReassemblyInv

LEMMA LastKeeps ==
  ASSUME ReassemblyInv, Reassembly!InsertLast
  PROVE  ReassemblyInv'
<1>1. PICK h \in Reassembly!Header :
        /\ ~Reassembly!Refused(h) /\ Reassembly!IsComplete(Reassembly!Filled(h))
        /\ pending' = Reassembly!Without(pending, Reassembly!Evicted(h) \cup {h.id})
        /\ watermark' = Reassembly!Completed(h)
        /\ reassemblyAbandoned' = reassemblyAbandoned \cup Reassembly!Evicted(h)
        /\ out' = Append(out, [id |-> h.id, total |-> Reassembly!Filled(h).total,
                               got |-> Reassembly!Filled(h).got, key |-> Reassembly!Filled(h).key])
  BY DEF Reassembly!InsertLast
<1>2. PICK gone1, mark : gone1 = Reassembly!Evicted(h) /\ mark = Reassembly!Made(h, watermark)
  OBVIOUS
<1>3. PICK entry : entry = Reassembly!Filled(h)
  OBVIOUS
<1>4. /\ gone1 \in SUBSET DOMAIN pending /\ h.id \notin gone1
      /\ mark \in Int /\ watermark <= mark /\ mark < h.id /\ watermark < h.id
      /\ \A f \in gone1 : f <= mark
      /\ Cardinality((DOMAIN pending \ gone1) \cup {h.id}) <= ReassemblyCapacity
  BY <1>1, <1>2, RoomMade
<1>5. PartlyThere(entry) /\ h.id \in Frames /\ entry.got = 0 .. entry.total - 1
  BY <1>1, <1>3, FilledIs, CompleteIs DEF Reassembly!Header
<1>6. /\ DOMAIN pending' = DOMAIN pending \ (gone1 \cup {h.id})
      /\ \A f \in DOMAIN pending' : pending'[f] = pending[f]
  BY <1>1, <1>2 DEF Reassembly!Without
<1>7. \A f \in DOMAIN pending' : PartlyThere(pending'[f])
  BY <1>6 DEF ReassemblyInv
<1>8. /\ watermark \in Int /\ watermark >= -1 /\ out \in Seq(Reassembly!Handed)
      /\ DOMAIN pending \in SUBSET Frames /\ Cardinality(DOMAIN pending) <= ReassemblyCapacity
      /\ reassemblyAbandoned \in SUBSET Frames /\ \A f \in reassemblyAbandoned : f <= watermark
      /\ \A i, j \in DOMAIN out : i < j => out[i].id < out[j].id
      /\ \A i \in DOMAIN out :
           /\ out[i].id <= watermark /\ out[i].id \notin DOMAIN pending
           /\ out[i].id \notin reassemblyAbandoned /\ out[i].got = 0 .. out[i].total - 1
  BY DEF ReassemblyInv
<1>9. (\A f \in Frames : f \in Int) /\ IsFiniteSet(DOMAIN pending)
  BY <1>8, ReassemblyConstants, FS_Subset
<1>10. \A i \in DOMAIN out : out[i].id \in Int
  <2>1. \A i \in DOMAIN out : out[i] \in Reassembly!Handed
    BY <1>8
  <2> QED
    BY <1>9, <2>1 DEF Reassembly!Handed
<1>11. watermark' = h.id /\ h.id >= -1
  <2>1. h.id \in Int
    BY <1>5, <1>9
  <2> QED
    BY <1>1, <1>2, <1>4, <1>8, <2>1 DEF Reassembly!Completed, Reassembly!Retired
<1>12. /\ DOMAIN pending \ (gone1 \cup {h.id}) \in SUBSET Frames
       /\ reassemblyAbandoned \cup gone1 \in SUBSET Frames
       /\ \A f \in reassemblyAbandoned \cup gone1 : f <= h.id
       /\ h.id \notin reassemblyAbandoned \cup gone1
  BY <1>4, <1>5, <1>8, <1>9
<1>13. Cardinality(DOMAIN pending \ (gone1 \cup {h.id})) <= ReassemblyCapacity
  <2>1. DOMAIN pending \ (gone1 \cup {h.id}) \in SUBSET DOMAIN pending
    OBVIOUS
  <2>2. /\ Cardinality(DOMAIN pending \ (gone1 \cup {h.id})) <= Cardinality(DOMAIN pending)
        /\ IsFiniteSet(DOMAIN pending \ (gone1 \cup {h.id}))
    BY <1>9, <2>1, FS_Subset
  <2>3. /\ Cardinality(DOMAIN pending \ (gone1 \cup {h.id})) \in Nat
        /\ Cardinality(DOMAIN pending) \in Nat
    BY <1>9, <2>2, FS_CardinalityType
  <2> QED
    BY <1>8, <2>2, <2>3, ReassemblyConstants
<1>14. PICK e : e = [id |-> h.id, total |-> entry.total, got |-> entry.got, key |-> entry.key]
  OBVIOUS
<1>15. e \in Reassembly!Handed /\ e.id = h.id /\ e.got = 0 .. e.total - 1
  <2>1. entry.total \in 1 .. MaxTotal /\ entry.got \in SUBSET (0 .. MaxTotal - 1)
    BY <1>5, ReassemblyConstants DEF PartlyThere
  <2>2. entry.key \in BOOLEAN
    BY ONLY <1>5 DEF PartlyThere
  <2>3. e \in Reassembly!Handed
    BY ONLY <1>5, <1>14, <2>1, <2>2 DEF Reassembly!Handed
  <2> QED
    BY ONLY <1>5, <1>14, <2>3
<1>16. /\ out' \in Seq(Reassembly!Handed) /\ DOMAIN out = 1 .. Len(out) /\ Len(out) \in Nat
       /\ DOMAIN out' = 1 .. Len(out) + 1
       /\ out'[Len(out) + 1] = e /\ \A i \in 1 .. Len(out) : out'[i] = out[i]
  BY ONLY <1>1, <1>3, <1>8, <1>14, <1>15, Appended
<1>17. ASSUME NEW i \in DOMAIN out'
       PROVE  /\ out'[i].id <= h.id /\ out'[i].id \notin DOMAIN pending'
              /\ out'[i].id \notin reassemblyAbandoned \cup gone1
              /\ out'[i].got = 0 .. out'[i].total - 1
              /\ i # Len(out) + 1 => out'[i].id < h.id
  <2>1. CASE i = Len(out) + 1
    <3>1. out'[i] = e
      BY ONLY <1>16, <2>1
    <3>2. h.id \in Int
      BY <1>5, <1>9
    <3> QED
      BY <1>6, <1>12, <1>15, <2>1, <3>1, <3>2
  <2>2. CASE i # Len(out) + 1
    <3>1. i \in DOMAIN out /\ out'[i] = out[i]
      BY <1>16, <2>2
    <3>2. h.id \in Int
      BY <1>5, <1>9
    <3> QED
      BY <1>4, <1>6, <1>8, <1>10, <3>1, <3>2
  <2> QED
    BY <2>1, <2>2
<1>18. ASSUME NEW i \in DOMAIN out', NEW j \in DOMAIN out', i < j
       PROVE  out'[i].id < out'[j].id
  <2>1. i \in 1 .. Len(out) /\ out'[i] = out[i]
    BY <1>16, <1>18
  <2>2. CASE j = Len(out) + 1
    <3>1. out'[j].id = h.id
      BY <1>15, <1>16, <2>2
    <3> QED
      BY <1>16, <1>17, <2>1, <3>1
  <2>3. CASE j # Len(out) + 1
    <3>1. j \in 1 .. Len(out) /\ out'[j] = out[j]
      BY <1>16, <2>3
    <3> QED
      BY <1>8, <1>16, <1>18, <2>1, <3>1
  <2> QED
    BY <2>2, <2>3
<1>19. h.id \in Int
  BY <1>5, <1>9
<1>20. /\ \A i \in DOMAIN out' :
            /\ out'[i].id <= watermark' /\ out'[i].id \notin DOMAIN pending'
            /\ out'[i].id \notin reassemblyAbandoned'
            /\ out'[i].got = 0 .. out'[i].total - 1
       /\ \A i, j \in DOMAIN out' : i < j => out'[i].id < out'[j].id
  BY ONLY <1>1, <1>2, <1>11, <1>17, <1>18
<1>21. /\ watermark' \in Int /\ watermark' >= -1
       /\ DOMAIN pending' \in SUBSET Frames /\ Cardinality(DOMAIN pending') <= ReassemblyCapacity
       /\ reassemblyAbandoned' \in SUBSET Frames /\ \A f \in reassemblyAbandoned' : f <= watermark'
  BY ONLY <1>1, <1>2, <1>6, <1>11, <1>12, <1>13, <1>19
<1> QED
  BY ONLY <1>7, <1>16, <1>20, <1>21 DEF ReassemblyInv

LEMMA DropKeeps ==
  ASSUME ReassemblyInv, Reassembly!DropOlderThan
  PROVE  ReassemblyInv'
<1>1. PICK min \in Frames :
        /\ Reassembly!Older(min) # {}
        /\ pending' = Reassembly!Without(pending, Reassembly!Older(min))
        /\ watermark' = Reassembly!Retired(watermark,
             CHOOSE f \in Reassembly!Older(min) : \A g \in Reassembly!Older(min) : g <= f)
        /\ reassemblyAbandoned' = reassemblyAbandoned \cup Reassembly!Older(min)
        /\ out' = out
  BY DEF Reassembly!DropOlderThan
<1>2. PICK old : old = Reassembly!Older(min)
  OBVIOUS
<1>3. old \in SUBSET DOMAIN pending /\ old # {} /\ \A f \in old : f < min
  BY <1>1, <1>2 DEF Reassembly!Older
<1>4. /\ watermark \in Int /\ watermark >= -1 /\ out \in Seq(Reassembly!Handed)
      /\ DOMAIN pending \in SUBSET Frames /\ Cardinality(DOMAIN pending) <= ReassemblyCapacity
      /\ reassemblyAbandoned \in SUBSET Frames /\ \A f \in reassemblyAbandoned : f <= watermark
      /\ \A i, j \in DOMAIN out : i < j => out[i].id < out[j].id
      /\ \A i \in DOMAIN out :
           /\ out[i].id <= watermark /\ out[i].id \notin DOMAIN pending
           /\ out[i].id \notin reassemblyAbandoned /\ out[i].got = 0 .. out[i].total - 1
  BY DEF ReassemblyInv
<1>5. Frames \in SUBSET Nat /\ IsFiniteSet(DOMAIN pending)
  BY <1>4, ReassemblyConstants, FS_Subset
<1>6. PICK newest \in old : \A g \in old : g <= newest
  <2>1. min \in Nat /\ old \in SUBSET (0 .. min)
    BY <1>3, <1>4, <1>5
  <2> QED
    BY ONLY <1>3, <2>1, GreatestElement
<1>7. PICK mark : mark = CHOOSE f \in old : \A g \in old : g <= f
  OBVIOUS
<1>8. mark \in old /\ \A g \in old : g <= mark
  BY <1>6, <1>7
<1>9. watermark' = IF watermark >= mark THEN watermark ELSE mark
  BY <1>1, <1>2, <1>7 DEF Reassembly!Retired
<1>10. mark \in Nat
  BY <1>3, <1>4, <1>5, <1>8
<1>11. watermark' \in Int /\ watermark' >= -1 /\ watermark <= watermark' /\ mark <= watermark'
  BY <1>4, <1>9, <1>10
<1>12. /\ DOMAIN pending' = DOMAIN pending \ old
       /\ \A f \in DOMAIN pending' : pending'[f] = pending[f]
  BY <1>1, <1>2 DEF Reassembly!Without
<1>13. \A f \in DOMAIN pending' : PartlyThere(pending'[f])
  BY <1>12 DEF ReassemblyInv
<1>14. /\ DOMAIN pending \ old \in SUBSET Frames
       /\ reassemblyAbandoned \cup old \in SUBSET Frames
       /\ \A f \in reassemblyAbandoned \cup old : f <= watermark'
  <2>1. \A f \in old : f <= watermark'
    <3>1. \A f \in old : f \in Nat /\ f <= mark
      BY <1>3, <1>4, <1>5, <1>8
    <3> QED
      BY ONLY <1>10, <1>11, <3>1
  <2>2. \A f \in reassemblyAbandoned : f <= watermark'
    <3>1. \A f \in reassemblyAbandoned : f \in Nat /\ f <= watermark
      BY <1>4, <1>5
    <3> QED
      BY ONLY <1>4, <1>11, <3>1
  <2> QED
    BY ONLY <1>3, <1>4, <2>1, <2>2
<1>15. Cardinality(DOMAIN pending \ old) <= ReassemblyCapacity
  <2>1. DOMAIN pending \ old \in SUBSET DOMAIN pending
    OBVIOUS
  <2>2. /\ Cardinality(DOMAIN pending \ old) <= Cardinality(DOMAIN pending)
        /\ IsFiniteSet(DOMAIN pending \ old)
    BY <1>5, <2>1, FS_Subset
  <2>3. Cardinality(DOMAIN pending \ old) \in Nat /\ Cardinality(DOMAIN pending) \in Nat
    BY <1>5, <2>2, FS_CardinalityType
  <2> QED
    BY <1>4, <2>2, <2>3, ReassemblyConstants
<1>16. \A i \in DOMAIN out : out[i].id \in Int
  <2>1. \A i \in DOMAIN out : out[i] \in Reassembly!Handed
    BY <1>4
  <2>2. \A f \in Frames : f \in Int
    BY <1>5
  <2> QED
    BY ONLY <2>1, <2>2 DEF Reassembly!Handed
<1>17. \A i \in DOMAIN out :
         /\ out[i].id <= watermark' /\ out[i].id \notin DOMAIN pending \ old
         /\ out[i].id \notin reassemblyAbandoned \cup old /\ out[i].got = 0 .. out[i].total - 1
  BY <1>3, <1>4, <1>11, <1>16
<1> QED
  BY ONLY <1>1, <1>2, <1>4, <1>11, <1>12, <1>13, <1>14, <1>15, <1>17 DEF ReassemblyInv

LEMMA ReassemblyStep ==
  ASSUME ReassemblyInv, [Reassembly!Next]_reassembly
  PROVE  ReassemblyInv'
<1>1. CASE UNCHANGED reassembly
  <2>1. /\ pending' = pending /\ watermark' = watermark /\ out' = out
        /\ reassemblyAbandoned' = reassemblyAbandoned
    BY <1>1 DEF reassembly
  <2> QED
    BY ONLY ReassemblyInv, <2>1 DEF ReassemblyInv
<1>2. CASE Reassembly!InsertRefused
  <2>1. UNCHANGED reassembly
    BY <1>2 DEF Reassembly!InsertRefused, Reassembly!vars, reassembly
  <2> QED
    BY <1>1, <2>1
<1> QED
  BY <1>1, <1>2, PartialKeeps, LastKeeps, DropKeeps DEF Reassembly!Next

LEMMA WholeInOrder ==
  ASSUME ReassemblyInv
  PROVE  Reassembly!FramesWhole
  BY ReassemblyConstants
     DEF ReassemblyInv, Reassembly!FramesWhole, Reassembly!InOrder, Reassembly!WholeFrames,
         Reassembly!WithinCapacity

\* The reassembly buffer hands frames out whole, each once, in the order of their
\* ids and none that it gave up, and holds no more frames than it may, whatever
\* fragments come late, twice or not at all.
THEOREM ReassembledWhole == Spec => []Reassembly!FramesWhole
<1>1. Init => ReassemblyInv
  BY ReassemblyInit DEF Init
<1>2. ReassemblyInv /\ [Next]_vars => ReassemblyInv'
  <2>1. [Next]_vars => [Reassembly!Next]_reassembly
    BY DEF Next, vars
  <2> QED
    BY <2>1, ReassemblyStep
<1>3. ReassemblyInv => Reassembly!FramesWhole
  BY WholeInOrder
<1> QED
  BY <1>1, <1>2, <1>3, PTL DEF Spec

-----------------------------------------------------------------------------
(* Bitstream: a frame's bytes, and what is found in them.                  *)

Nal == {nal \in Seq(0 .. 255) : Bits!WellFormed(nal)}

LEMMA NalIs ==
  ASSUME NEW nal \in Nal
  PROVE  /\ nal \in Seq(0 .. 255) /\ Len(nal) \in Nat \ {0} /\ nal[Len(nal)] # 0
         /\ \A i \in 1 .. Len(nal) : nal[i] \in 0 .. 255
         /\ \A i \in 1 .. Len(nal) - 2 : ~(nal[i] = 0 /\ nal[i + 1] = 0 /\ nal[i + 2] = 1)
<1>1. /\ nal \in Seq(0 .. 255) /\ Len(nal) > 0 /\ nal[Len(nal)] # 0
      /\ \A i \in 1 .. Len(nal) - 2 : ~(nal[i] = 0 /\ nal[i + 1] = 0 /\ nal[i + 2] \in 0 .. 2)
  BY DEF Nal, Bits!WellFormed, Bits!Last
<1>2. Len(nal) \in Nat \ {0} /\ \A i \in 1 .. Len(nal) : nal[i] \in 0 .. 255
  <2>1. Len(nal) \in Nat
    BY <1>1, LenProperties
  <2>2. \A i \in 1 .. Len(nal) : nal[i] \in 0 .. 255
    BY <1>1, ElementOfSeq
  <2> QED
    BY ONLY <1>1, <2>1, <2>2
<1>3. 1 \in 0 .. 2
  OBVIOUS
<1> QED
  BY ONLY <1>1, <1>2, <1>3

\* Where each unit ends.
LEMMA OffsetsAre ==
  ASSUME NEW u \in Seq(Nal)
  PROVE  /\ Bits!EncodedUpTo(u) \in [0 .. Len(u) -> Nat]
         /\ Bits!EncodedUpTo(u)[0] = 0
         /\ \A n \in 1 .. Len(u) :
              Bits!EncodedUpTo(u)[n] = Bits!EncodedUpTo(u)[n - 1] + 4 + Len(u[n])
<1> DEFINE step == [n \in 1 .. Len(u) |-> [x \in Nat |-> x + 4 + Len(u[n])]]
<1>1. Len(u) \in Nat /\ \A n \in 1 .. Len(u) : u[n] \in Nal
  OBVIOUS
<1>2. \A n \in 1 .. Len(u) : Len(u[n]) \in Nat
  BY <1>1, NalIs
<1>3. step \in Steps(Len(u), Nat)
  <2>1. \A n \in 1 .. Len(u), x \in Nat : x + 4 + Len(u[n]) \in Nat
    <3> TAKE n \in 1 .. Len(u), x \in Nat
    <3>1. Len(u[n]) \in Nat
      BY ONLY <1>2, n \in 1 .. Len(u)
    <3>2. PICK l \in Nat : l = Len(u[n])
      BY ONLY <3>1
    <3>3. x + 4 + l \in Nat
      BY ONLY x \in Nat, l \in Nat
    <3> QED
      BY ONLY <3>2, <3>3
  <2> QED
    BY ONLY <2>1 DEF Steps
<1>4. PICK f \in [0 .. Len(u) -> Nat] : Unfolds(f, Len(u), 0, step)
  BY <1>1, <1>3, FoldExists
<1>5. f[0] = 0 /\ \A n \in 1 .. Len(u) : f[n] = f[n - 1] + 4 + Len(u[n])
  <2>1. \A n \in 1 .. Len(u) : f[n - 1] \in Nat
    BY <1>4
  <2> QED
    BY <1>4, <2>1 DEF Unfolds
<1>6. f = [n \in 0 .. Len(u) |-> IF n = 0 THEN 0 ELSE f[n - 1] + 4 + Len(u[n])]
  <2>1. \A n \in 0 .. Len(u) : n = 0 \/ n \in 1 .. Len(u)
    BY <1>1
  <2>2. \A n \in 0 .. Len(u) : f[n] = IF n = 0 THEN 0 ELSE f[n - 1] + 4 + Len(u[n])
    BY <1>5, <2>1
  <2>3. f = [n \in 0 .. Len(u) |-> f[n]]
    OBVIOUS
  <2> QED
    BY ONLY <2>2, <2>3
<1> DEFINE g == Bits!EncodedUpTo(u)
<1>7. g = [n \in 0 .. Len(u) |-> IF n = 0 THEN 0 ELSE g[n - 1] + 4 + Len(u[n])]
  BY <1>6 DEF Bits!EncodedUpTo
<1> HIDE DEF g
<1>8. g[0] = 0 /\ \A n \in 1 .. Len(u) : g[n] = g[n - 1] + 4 + Len(u[n])
  BY ONLY <1>1, <1>7
<1> DEFINE P == {n \in 0 .. Len(u) : g[n] \in Nat}
<1>9. 0 \in P /\ \A n \in 1 .. Len(u) : n - 1 \in P => n \in P
  BY <1>1, <1>2, <1>8
<1> HIDE DEF P
<1>10. \A n \in 0 .. Len(u) : n \in P
  BY <1>1, <1>9, UpTo
<1>11. \A n \in 0 .. Len(u) : g[n] \in Nat
  BY ONLY <1>10 DEF P
<1>12. g = [n \in 0 .. Len(u) |-> g[n]]
  BY ONLY <1>7
<1>13. g \in [0 .. Len(u) -> Nat]
  BY ONLY <1>11, <1>12
<1> QED
  BY <1>8, <1>13 DEF g

\* The same, of the function under a name.
Off(u, f) ==
  /\ f = Bits!EncodedUpTo(u)
  /\ f \in [0 .. Len(u) -> Nat] /\ f[0] = 0
  /\ \A n \in 1 .. Len(u) : f[n] = f[n - 1] + 4 + Len(u[n])

LEMMA OffExists ==
  ASSUME NEW u \in Seq(Nal)
  PROVE  Off(u, Bits!EncodedUpTo(u))
BY OffsetsAre DEF Off

LEMMA OffsetsGrow ==
  ASSUME NEW u \in Seq(Nal), NEW f, Off(u, f)
  PROVE  \A m, n \in 0 .. Len(u) : m < n => f[m] + 5 <= f[n]
<1>1. Len(u) \in Nat /\ \A n \in 1 .. Len(u) : Len(u[n]) \in Nat \ {0}
  BY NalIs
<1>2. f \in [0 .. Len(u) -> Nat] /\ \A n \in 1 .. Len(u) : f[n] = f[n - 1] + 4 + Len(u[n])
  BY DEF Off
<1>3. \A n \in 1 .. Len(u) : f[n - 1] + 5 <= f[n]
  <2> TAKE n \in 1 .. Len(u)
  <2>1. f[n - 1] \in Nat /\ Len(u[n]) \in Nat \ {0} /\ f[n] = f[n - 1] + 4 + Len(u[n])
    BY <1>1, <1>2
  <2> QED
    BY ONLY <2>1
<1> DEFINE P == {n \in 0 .. Len(u) : \A m \in 0 .. Len(u) : m < n => f[m] + 5 <= f[n]}
<1>4. 0 \in P
  BY <1>1
<1>5. ASSUME NEW n \in 1 .. Len(u), n - 1 \in P
      PROVE  n \in P
  <2> SUFFICES ASSUME NEW m \in 0 .. Len(u), m < n PROVE f[m] + 5 <= f[n]
    BY <1>1
  <2>1. f[n - 1] \in Nat /\ f[m] \in Nat /\ f[n] \in Nat
    <3>1. n - 1 \in 0 .. Len(u) /\ n \in 0 .. Len(u)
      BY ONLY <1>1, n \in 1 .. Len(u)
    <3> QED
      BY ONLY <1>2, <3>1, m \in 0 .. Len(u)
  <2>2. m = n - 1 \/ f[m] + 5 <= f[n - 1]
    BY <1>5
  <2> QED
    BY <1>3, <2>1, <2>2
<1> HIDE DEF P
<1>6. \A n \in 0 .. Len(u) : n \in P
  BY <1>1, <1>4, <1>5, UpTo
<1> QED
  BY <1>6 DEF P

\* Each byte is in a unit, or in the start code before it.
LEMMA Located ==
  ASSUME NEW u \in Seq(Nal), NEW f, Off(u, f)
  PROVE  \A i \in 1 .. f[Len(u)] : \E n \in 1 .. Len(u) : \E k \in 1 .. 4 + Len(u[n]) : i = f[n - 1] + k
<1>1. Len(u) \in Nat /\ \A n \in 1 .. Len(u) : Len(u[n]) \in Nat \ {0}
  BY NalIs
<1>2. f \in [0 .. Len(u) -> Nat] /\ f[0] = 0
      /\ \A n \in 1 .. Len(u) : f[n] = f[n - 1] + 4 + Len(u[n])
  BY DEF Off
<1> DEFINE In(i) == \E n \in 1 .. Len(u) : \E k \in 1 .. 4 + Len(u[n]) : i = f[n - 1] + k
           P == {n \in 0 .. Len(u) : \A i \in 1 .. f[n] : In(i)}
<1>3. 0 \in P
  BY <1>1, <1>2
<1>4. ASSUME NEW n \in 1 .. Len(u), n - 1 \in P
      PROVE  n \in P
  <2>1. f[n - 1] \in Nat /\ Len(u[n]) \in Nat \ {0} /\ f[n] = f[n - 1] + 4 + Len(u[n])
    BY <1>1, <1>2
  <2> SUFFICES ASSUME NEW i \in 1 .. f[n] PROVE In(i)
    BY <1>1
  <2>2. i \in 1 .. f[n - 1] \/ i - f[n - 1] \in 1 .. 4 + Len(u[n])
    BY ONLY <2>1, i \in 1 .. f[n]
  <2>3. CASE i \in 1 .. f[n - 1]
    BY <1>4, <2>3
  <2>4. CASE i - f[n - 1] \in 1 .. 4 + Len(u[n])
    <3>1. PICK k \in 1 .. 4 + Len(u[n]) : i = f[n - 1] + k
      BY <2>1, <2>4
    <3> QED
      BY <3>1
  <2> HIDE DEF In
  <2> QED
    BY <2>2, <2>3, <2>4
<1> HIDE DEF P
<1>5. \A n \in 0 .. Len(u) : n \in P
  BY <1>1, <1>3, <1>4, UpTo
<1>6. Len(u) \in P
  BY <1>1, <1>5
<1> QED
  BY <1>6 DEF P

LEMMA Joint ==
  ASSUME NEW a \in Seq(0 .. 255), NEW x \in Seq(0 .. 255)
  PROVE  /\ a \o x \in Seq(0 .. 255) /\ Len(a \o x) = Len(a) + Len(x)
         /\ Len(a) \in Nat /\ Len(x) \in Nat
         /\ \A i \in 1 .. Len(a) : (a \o x)[i] = a[i]
         /\ \A i \in 1 .. Len(x) : (a \o x)[Len(a) + i] = x[i]
<1>1. Len(a) \in Nat /\ Len(x) \in Nat
  BY LenProperties
<1> DEFINE b == a \o x
<1>2. /\ b \in Seq(0 .. 255) /\ Len(b) = Len(a) + Len(x)
      /\ \A i \in 1 .. Len(a) + Len(x) : b[i] = IF i <= Len(a) THEN a[i] ELSE x[i - Len(a)]
  BY ConcatProperties
<1> HIDE DEF b
<1>3. \A i \in 1 .. Len(a) : b[i] = a[i]
  <2> TAKE i \in 1 .. Len(a)
  <2>1. i \in 1 .. Len(a) + Len(x) /\ i <= Len(a)
    BY ONLY <1>1, i \in 1 .. Len(a)
  <2> QED
    BY ONLY <1>2, <2>1
<1>4. \A i \in 1 .. Len(x) : b[Len(a) + i] = x[i]
  <2> TAKE i \in 1 .. Len(x)
  <2>1. /\ Len(a) + i \in 1 .. Len(a) + Len(x) /\ ~(Len(a) + i <= Len(a))
        /\ (Len(a) + i) - Len(a) = i
    BY ONLY <1>1, i \in 1 .. Len(x)
  <2> QED
    BY ONLY <1>2, <2>1
<1> QED
  BY <1>1, <1>2, <1>3, <1>4 DEF b

\* A start code and a unit behind some bytes.
Follow(e, a, x) ==
  /\ e \in Seq(0 .. 255) /\ Len(e) = Len(a) + 4 + Len(x)
  /\ \A i \in 1 .. Len(a) : e[i] = a[i]
  /\ \A i \in 1 .. 4 : e[Len(a) + i] = IF i = 4 THEN 1 ELSE 0
  /\ \A i \in 1 .. Len(x) : e[Len(a) + 4 + i] = x[i]

LEMMA StartCodeBehind ==
  ASSUME NEW a \in Seq(0 .. 255), NEW x \in Seq(0 .. 255)
  PROVE  Follow(a \o Bits!StartCode \o x, a, x)
<1> DEFINE s == Bits!StartCode
           c == a \o s
           b == c \o x
<1>1. s \in Seq(0 .. 255) /\ Len(s) = 4 /\ \A i \in 1 .. 4 : s[i] = IF i = 4 THEN 1 ELSE 0
  BY DEF Bits!StartCode
<1> HIDE DEF s
<1>2. /\ c \in Seq(0 .. 255) /\ Len(c) = Len(a) + 4
      /\ \A i \in 1 .. Len(a) : c[i] = a[i]
      /\ \A i \in 1 .. 4 : c[Len(a) + i] = s[i]
  <2>1. /\ c \in Seq(0 .. 255) /\ Len(c) = Len(a) + Len(s)
        /\ \A i \in 1 .. Len(a) : c[i] = a[i]
        /\ \A i \in 1 .. Len(s) : c[Len(a) + i] = s[i]
    BY <1>1, Joint
  <2> HIDE DEF c
  <2> QED
    BY ONLY <1>1, <2>1
<1> HIDE DEF c
<1>3. /\ b \in Seq(0 .. 255) /\ Len(b) = Len(c) + Len(x)
      /\ \A i \in 1 .. Len(c) : b[i] = c[i]
      /\ \A i \in 1 .. Len(x) : b[Len(c) + i] = x[i]
  BY <1>2, Joint
<1>4. Len(a) \in Nat
  OBVIOUS
<1> HIDE DEF b
<1>5. \A i \in 1 .. Len(a) : i \in 1 .. Len(c)
  BY <1>2, <1>4
<1>6. \A i \in 1 .. 4 : Len(a) + i \in 1 .. Len(c)
  BY <1>2, <1>4
<1>7. /\ \A i \in 1 .. Len(a) : b[i] = a[i]
      /\ \A i \in 1 .. 4 : b[Len(a) + i] = IF i = 4 THEN 1 ELSE 0
      /\ \A i \in 1 .. Len(x) : b[Len(a) + 4 + i] = x[i]
  BY ONLY <1>1, <1>2, <1>3, <1>5, <1>6
<1>8. b = a \o Bits!StartCode \o x
  BY DEF b, c, s
<1>9. b \in Seq(0 .. 255) /\ Len(b) = Len(a) + 4 + Len(x)
  BY ONLY <1>2, <1>3
<1>10. Follow(b, a, x)
  BY ONLY <1>7, <1>9 DEF Follow
<1> QED
  BY ONLY <1>8, <1>10

\* Unit n is in d, behind its start code.
Holds(d, u, f, n) ==
  /\ d[f[n - 1] + 1] = 0 /\ d[f[n - 1] + 2] = 0 /\ d[f[n - 1] + 3] = 0 /\ d[f[n - 1] + 4] = 1
  /\ \A i \in 1 .. Len(u[n]) : d[f[n - 1] + 4 + i] = u[n][i]

\* d is the units of u, each behind a start code.
AnnexB(d, u, f) ==
  /\ u \in Seq(Nal) /\ Off(u, f)
  /\ d \in Seq(0 .. 255) /\ Len(d) = f[Len(u)]
  /\ \A n \in 1 .. Len(u) : Holds(d, u, f, n)

\* With room for all of it, the whole sample is written.
LEMMA ExtractWrites ==
  ASSUME NEW u \in Seq(Nal), NEW f, Off(u, f), NEW cap \in Nat, f[Len(u)] <= cap
  PROVE  AnnexB(Bits!ExtractNALs(u, cap), u, f)
<1> DEFINE By == Seq(0 .. 255)
           To(n, x) == IF Len(x) + 4 + Len(u[n]) <= cap THEN x \o Bits!StartCode \o u[n] ELSE x
           step == [n \in 1 .. Len(u) |-> [x \in By |-> To(n, x)]]
<1>1. Len(u) \in Nat /\ \A n \in 1 .. Len(u) : u[n] \in By /\ Len(u[n]) \in Nat \ {0}
  BY NalIs
<1>2. \A n \in 1 .. Len(u), x \in By : To(n, x) \in By
  <2> TAKE n \in 1 .. Len(u), x \in By
  <2>1. Follow(x \o Bits!StartCode \o u[n], x, u[n])
    BY <1>1, StartCodeBehind
  <2> QED
    BY ONLY <2>1, x \in By DEF Follow
<1>3. step \in Steps(Len(u), By)
  BY ONLY <1>2 DEF Steps
<1>4. <<>> \in By
  OBVIOUS
<1>5. PICK h \in [0 .. Len(u) -> By] : Unfolds(h, Len(u), <<>>, step)
  BY <1>1, <1>3, <1>4, FoldExists
<1> HIDE DEF By, To
<1>6. h[0] = <<>> /\ \A n \in 1 .. Len(u) : h[n] = To(n, h[n - 1])
  <2>1. \A n \in 1 .. Len(u) : n - 1 \in 0 .. Len(u)
    BY <1>1
  <2>2. \A n \in 1 .. Len(u) : h[n - 1] \in By
    BY <1>5, <2>1
  <2> QED
    BY <1>5, <2>2 DEF Unfolds
<1>7. h = [n \in 0 .. Len(u) |-> IF n = 0 THEN <<>> ELSE To(n, h[n - 1])]
  <2>1. \A n \in 0 .. Len(u) : n = 0 \/ n \in 1 .. Len(u)
    BY <1>1
  <2>2. \A n \in 0 .. Len(u) : h[n] = IF n = 0 THEN <<>> ELSE To(n, h[n - 1])
    BY ONLY <1>6, <2>1
  <2>3. h = [n \in 0 .. Len(u) |-> h[n]]
    OBVIOUS
  <2> QED
    BY ONLY <2>2, <2>3
<1> DEFINE g == Bits!Written(u, cap)
<1>8. g = [n \in 0 .. Len(u) |-> IF n = 0 THEN <<>> ELSE To(n, g[n - 1])]
  BY <1>7 DEF Bits!Written, To
<1> HIDE DEF g
<1>9. g[0] = <<>> /\ \A n \in 1 .. Len(u) : g[n] = To(n, g[n - 1])
  <2>1. 0 \in 0 .. Len(u) /\ \A n \in 1 .. Len(u) : n \in 0 .. Len(u) /\ n # 0
    BY <1>1
  <2> QED
    BY ONLY <1>8, <2>1
<1>10. f \in [0 .. Len(u) -> Nat] /\ f[0] = 0
       /\ \A n \in 1 .. Len(u) : f[n] = f[n - 1] + 4 + Len(u[n])
  BY DEF Off
<1>11. \A n \in 0 .. Len(u) : f[n] \in Nat /\ f[n] <= cap
  <2> TAKE n \in 0 .. Len(u)
  <2>1. f[n] \in Nat /\ f[Len(u)] \in Nat /\ Len(u) \in 0 .. Len(u)
    BY <1>1, <1>10
  <2>2. n < Len(u) => f[n] + 5 <= f[Len(u)]
    BY <2>1, OffsetsGrow
  <2> QED
    BY <1>1, <2>1, <2>2
<1> DEFINE Good(n) == g[n] \in By /\ Len(g[n]) = f[n] /\ \A m \in 1 .. n : Holds(g[n], u, f, m)
           P == {n \in 0 .. Len(u) : Good(n)}
<1>12. 0 \in P
  BY <1>1, <1>4, <1>9, <1>10
<1>13. ASSUME NEW n \in 1 .. Len(u), n - 1 \in P
       PROVE  n \in P
  <2>1. g[n - 1] \in By /\ Len(g[n - 1]) = f[n - 1] /\ \A m \in 1 .. n - 1 : Holds(g[n - 1], u, f, m)
    BY <1>13
  <2>2. u[n] \in By /\ Len(u[n]) \in Nat \ {0} /\ f[n] = f[n - 1] + 4 + Len(u[n]) /\ f[n] <= cap
    BY <1>1, <1>10, <1>11
  <2>3. g[n] = g[n - 1] \o Bits!StartCode \o u[n]
    <3>1. Len(g[n - 1]) + 4 + Len(u[n]) <= cap
      BY ONLY <2>1, <2>2
    <3> QED
      BY ONLY <1>9, <3>1 DEF To
  <2> DEFINE a == g[n - 1]
             b == g[n]
  <2>4. /\ b \in By /\ Len(b) = Len(a) + 4 + Len(u[n])
        /\ \A i \in 1 .. Len(a) : b[i] = a[i]
        /\ \A i \in 1 .. 4 : b[Len(a) + i] = IF i = 4 THEN 1 ELSE 0
        /\ \A i \in 1 .. Len(u[n]) : b[Len(a) + 4 + i] = u[n][i]
    <3>1. a \in Seq(0 .. 255) /\ u[n] \in Seq(0 .. 255) /\ b = a \o Bits!StartCode \o u[n]
      BY <2>1, <2>2, <2>3 DEF By
    <3> HIDE DEF a, b
    <3>2. Follow(a \o Bits!StartCode \o u[n], a, u[n])
      BY ONLY <3>1, StartCodeBehind
    <3>3. Follow(b, a, u[n])
      BY ONLY <3>1, <3>2
    <3> QED
      BY ONLY <3>3 DEF By, Follow
  <2>5. Len(a) = f[n - 1] /\ \A m \in 1 .. n - 1 : Holds(a, u, f, m)
    BY <2>1
  <2> HIDE DEF a
  <2>6. b \in By /\ Len(b) = f[n]
    BY ONLY <2>2, <2>4, <2>5
  <2>7. Holds(b, u, f, n)
    BY ONLY <2>4, <2>5 DEF Holds
  <2>8. ASSUME NEW m \in 1 .. n - 1
        PROVE  Holds(b, u, f, m)
    <3>1. /\ f[m - 1] \in Nat /\ f[m] = f[m - 1] + 4 + Len(u[m]) /\ Len(u[m]) \in Nat
          /\ f[m] \in Nat
      <4>1. m \in 1 .. Len(u) /\ m - 1 \in 0 .. Len(u) /\ m \in 0 .. Len(u)
        BY <1>1
      <4> QED
        BY <1>1, <1>10, <4>1
    <3>2. f[m] <= f[n - 1] /\ f[n - 1] \in Nat
      <4>1. m = n - 1 \/ (m < n - 1 /\ m \in 0 .. Len(u) /\ n - 1 \in 0 .. Len(u))
        BY <1>1
      <4>2. f[n - 1] \in Nat
        <5>1. n - 1 \in 0 .. Len(u)
          BY <1>1
        <5> QED
          BY ONLY <1>10, <5>1
      <4>3. m < n - 1 => f[m] + 5 <= f[n - 1]
        BY <4>1, OffsetsGrow
      <4> QED
        BY ONLY <3>1, <4>1, <4>2, <4>3
    <3>3. \A i \in 1 .. 4 + Len(u[m]) : f[m - 1] + i \in 1 .. Len(a)
      <4>1. PICK l \in Nat, p \in Nat, q \in Nat :
              l = Len(u[m]) /\ p = f[m - 1] /\ q = f[n - 1] /\ p + 4 + l <= q
        BY ONLY <3>1, <3>2
      <4>2. \A i \in 1 .. 4 + l : p + i \in 1 .. q
        BY ONLY <4>1
      <4> QED
        BY ONLY <2>5, <4>1, <4>2
    <3>4. \A i \in 1 .. 4 + Len(u[m]) : b[f[m - 1] + i] = a[f[m - 1] + i]
      BY ONLY <2>4, <3>3
    <3>5. \A i \in 1 .. Len(u[m]) : 4 + i \in 1 .. 4 + Len(u[m]) /\ f[m - 1] + (4 + i) = f[m - 1] + 4 + i
      <4> TAKE i \in 1 .. Len(u[m])
      <4> QED
        BY ONLY <3>1, i \in 1 .. Len(u[m])
    <3>6. \A i \in 1 .. 4 : i \in 1 .. 4 + Len(u[m])
      BY ONLY <3>1
    <3>7. Holds(a, u, f, m)
      BY <2>5
    <3> HIDE DEF b
    <3>8. \A i \in 1 .. Len(u[m]) : b[f[m - 1] + 4 + i] = u[m][i]
      <4> TAKE i \in 1 .. Len(u[m])
      <4>1. b[f[m - 1] + (4 + i)] = a[f[m - 1] + (4 + i)]
        BY ONLY <3>4, <3>5
      <4> QED
        BY ONLY <3>5, <3>7, <4>1 DEF Holds
    <3>9. b[f[m - 1] + 1] = 0 /\ b[f[m - 1] + 2] = 0 /\ b[f[m - 1] + 3] = 0 /\ b[f[m - 1] + 4] = 1
      <4>1. 1 \in 1 .. 4 /\ 2 \in 1 .. 4 /\ 3 \in 1 .. 4 /\ 4 \in 1 .. 4
        OBVIOUS
      <4> QED
        BY ONLY <3>4, <3>6, <3>7, <4>1 DEF Holds
    <3> QED
      BY ONLY <3>8, <3>9 DEF Holds
  <2>9. \A m \in 1 .. n : m = n \/ m \in 1 .. n - 1
    OBVIOUS
  <2>10. \A m \in 1 .. n : Holds(b, u, f, m)
    <3> HIDE DEF b
    <3> QED
      BY ONLY <2>7, <2>8, <2>9
  <2> QED
    BY <1>1, <2>6, <2>10
<1> HIDE DEF P
<1>14. \A n \in 0 .. Len(u) : n \in P
  BY ONLY <1>1, <1>12, <1>13, UpTo
<1>15. Len(u) \in P
  BY <1>1, <1>14
<1>16. Good(Len(u)) /\ g[Len(u)] = Bits!ExtractNALs(u, cap)
  BY <1>15 DEF P, g, Bits!ExtractNALs
<1> QED
  BY <1>16 DEF AnnexB, By

\* The n-th of some positions in order.
LEMMA RankedCount ==
  ASSUME NEW m \in Nat, NEW p \in [1 .. m -> Nat], \A i, j \in 1 .. m : i < j => p[i] < p[j]
  PROVE  \A n \in 0 .. m : Cardinality({p[i] : i \in 1 .. n}) = n
<1> TAKE n \in 0 .. m
<1> DEFINE T == {p[i] : i \in 1 .. n}
           b == [i \in 1 .. n |-> p[i]]
<1>1. IsFiniteSet(1 .. n) /\ Cardinality(1 .. n) = n
  BY FS_Interval
<1>2. \A i, j \in 1 .. n : i # j => p[i] # p[j]
  <2> TAKE i, j \in 1 .. n
  <2>1. i \in 1 .. m /\ j \in 1 .. m /\ p[i] \in Nat /\ p[j] \in Nat
    OBVIOUS
  <2>2. (i < j => p[i] < p[j]) /\ (j < i => p[j] < p[i])
    BY <2>1
  <2> QED
    BY ONLY <2>1, <2>2
<1>3. b \in Bijection(1 .. n, T)
  <2>1. \A i \in 1 .. n : b[i] = p[i] /\ b[i] \in T
    OBVIOUS
  <2>2. b \in [1 .. n -> T]
    OBVIOUS
  <2>3. \A i, j \in 1 .. n : b[i] = b[j] => i = j
    BY <1>2, <2>1
  <2>4. \A t \in T : \E i \in 1 .. n : b[i] = t
    OBVIOUS
  <2> HIDE DEF b, T
  <2> QED
    BY ONLY <2>2, <2>3, <2>4 DEF Bijection, Injection, Surjection, IsInjective
<1>4. Cardinality(T) = n
  BY <1>1, <1>3, FS_Bijection DEF ExistsBijection
<1> QED
  BY <1>4

LEMMA RankedIs ==
  ASSUME NEW m \in Nat, NEW p \in [1 .. m -> Nat], \A i, j \in 1 .. m : i < j => p[i] < p[j],
         NEW S, S = {p[i] : i \in 1 .. m}
  PROVE  /\ Bits!Cardinality(S) = m
         /\ \A n \in 1 .. m : Bits!Nth(S, n) = p[n]
<1>1. \A T : Bits!Cardinality(T) = Cardinality(T)
  BY DEF Bits!Cardinality, Cardinality
<1>2. \A n \in 0 .. m : Cardinality({p[i] : i \in 1 .. n}) = n
  BY RankedCount
<1>3. \A n \in 1 .. m : {j \in S : j <= p[n]} = {p[i] : i \in 1 .. n}
  <2> TAKE n \in 1 .. m
  <2>1. \A i \in 1 .. m : p[i] <= p[n] <=> i \in 1 .. n
    <3> TAKE i \in 1 .. m
    <3>1. p[i] \in Nat /\ p[n] \in Nat /\ (i < n => p[i] < p[n]) /\ (n < i => p[n] < p[i])
      OBVIOUS
    <3> QED
      BY ONLY <3>1, i \in 1 .. m, n \in 1 .. m, m \in Nat
  <2>2. \A i \in 1 .. n : i \in 1 .. m
    OBVIOUS
  <2> QED
    BY <2>1, <2>2
<1>4. \A n \in 1 .. m : Bits!Cardinality({j \in S : j <= p[n]}) = n
  <2> TAKE n \in 1 .. m
  <2>1. n \in 0 .. m
    OBVIOUS
  <2> QED
    BY ONLY <1>1, <1>2, <1>3, <2>1, n \in 1 .. m
<1>5. Bits!Cardinality(S) = m
  <2>1. m \in 0 .. m
    OBVIOUS
  <2> QED
    BY ONLY <1>1, <1>2, <2>1, S = {p[i] : i \in 1 .. m}
<1>6. ASSUME NEW n \in 1 .. m
      PROVE  Bits!Nth(S, n) = p[n]
  <2>1. p[n] \in S
    OBVIOUS
  <2>2. \A j \in S : Bits!Cardinality({k \in S : k <= j}) = n => j = p[n]
    <3> TAKE j \in S
    <3>1. PICK i \in 1 .. m : j = p[i]
      OBVIOUS
    <3> QED
      BY ONLY <1>4, <3>1
  <2> DEFINE Rank(j) == Bits!Cardinality({k \in S : k <= j})
  <2>3. Bits!Nth(S, n) = CHOOSE j \in S : Rank(j) = n
    BY DEF Bits!Nth
  <2>4. Rank(p[n]) = n
    BY <1>4
  <2> HIDE DEF Rank
  <2>5. \A j \in S : Rank(j) = n => j = p[n]
    BY <2>2 DEF Rank
  <2> QED
    BY ONLY <2>1, <2>3, <2>4, <2>5
<1> QED
  BY <1>5, <1>6

\* What is known of a unit in the data.
LEMMA UnitHeld ==
  ASSUME NEW u, NEW f, AnnexB(data, u, f), NEW n \in 1 .. Len(u)
  PROVE  /\ Len(data) \in Nat /\ Len(u) \in Nat /\ f[n - 1] \in Nat /\ Len(u[n]) \in Nat \ {0}
         /\ f[n] = f[n - 1] + 4 + Len(u[n]) /\ f[n] <= Len(data)
         /\ u[n] \in Nal /\ Holds(data, u, f, n)
<1>1. /\ u \in Seq(Nal) /\ Off(u, f) /\ data \in Seq(0 .. 255) /\ Len(data) = f[Len(u)]
      /\ Holds(data, u, f, n)
  BY DEF AnnexB
<1>2. Len(u) \in Nat /\ u[n] \in Nal
  BY <1>1
<1>3. n - 1 \in 0 .. Len(u) /\ n \in 0 .. Len(u) /\ Len(u) \in 0 .. Len(u)
  BY <1>2
<1>4. f[n - 1] \in Nat /\ f[n] = f[n - 1] + 4 + Len(u[n]) /\ f[n] \in Nat /\ f[Len(u)] \in Nat
  BY <1>1, <1>3 DEF Off
<1>5. n < Len(u) => f[n] + 5 <= f[Len(u)]
  BY <1>1, <1>3, OffsetsGrow
<1>6. n < Len(u) \/ n = Len(u)
  BY <1>2
<1>7. f[n] <= Len(data) /\ Len(data) \in Nat
  BY ONLY <1>1, <1>4, <1>5, <1>6
<1>8. Len(u[n]) \in Nat \ {0}
  BY <1>2, NalIs
<1> QED
  BY <1>1, <1>2, <1>4, <1>7, <1>8

\* The same with names for where it is, how long and what.
UnitAt(u, f, n, p, l, x, all) ==
  /\ p \in Nat /\ l \in Nat \ {0} /\ x \in Nal /\ all \in Nat
  /\ p = f[n - 1] /\ l = Len(u[n]) /\ x = u[n] /\ p + 4 + l = f[n]
  /\ p + 4 + l <= all /\ all = Len(data)
  /\ data[p + 1] = 0 /\ data[p + 2] = 0 /\ data[p + 3] = 0 /\ data[p + 4] = 1
  /\ \A j \in 1 .. l : data[p + 4 + j] = x[j]

LEMMA UnitIsAt ==
  ASSUME NEW u, NEW f, AnnexB(data, u, f), NEW n \in 1 .. Len(u)
  PROVE  \E p, l, x, all : UnitAt(u, f, n, p, l, x, all)
<1>1. PICK p \in Nat : p = f[n - 1]
  BY UnitHeld
<1>2. PICK l \in Nat \ {0} : l = Len(u[n])
  BY UnitHeld
<1>3. PICK x \in Nal : x = u[n]
  BY UnitHeld
<1>4. PICK all \in Nat : all = Len(data)
  BY UnitHeld
<1>5. f[n] = p + 4 + l /\ f[n] <= all
  BY UnitHeld, <1>1, <1>2, <1>4
<1>6. /\ data[p + 1] = 0 /\ data[p + 2] = 0 /\ data[p + 3] = 0 /\ data[p + 4] = 1
      /\ \A j \in 1 .. l : data[p + 4 + j] = x[j]
  <2>1. Holds(data, u, f, n)
    BY UnitHeld
  <2> QED
    BY ONLY <2>1, <1>1, <1>2, <1>3 DEF Holds
<1>7. p + 4 + l = f[n] /\ p + 4 + l <= all
  BY ONLY <1>5
<1>8. UnitAt(u, f, n, p, l, x, all)
  BY ONLY <1>1, <1>2, <1>3, <1>4, <1>6, <1>7 DEF UnitAt
<1> QED
  BY <1>8

\* Byte i is in unit n, or in the start code before it.
In(u, f, i, n) == \E k \in 1 .. 4 + Len(u[n]) : i = f[n - 1] + k

LEMMA DataLocated ==
  ASSUME NEW u, NEW f, AnnexB(data, u, f), NEW i \in 1 .. Len(data)
  PROVE  \E n \in 1 .. Len(u) : In(u, f, i, n)
<1>1. u \in Seq(Nal) /\ Off(u, f) /\ Len(data) = f[Len(u)]
  BY DEF AnnexB
<1> QED
  BY <1>1, Located DEF In

\* 0 0 1 is the end of a start code and nothing else.
LEMMA ShortCode ==
  ASSUME NEW u, NEW f, AnnexB(data, u, f), NEW i \in 1 .. Len(data)
  PROVE  Bits!Code3(i) <=> \E n \in 1 .. Len(u) : i = f[n - 1] + 2
<1>1. ASSUME NEW n \in 1 .. Len(u), i = f[n - 1] + 2
      PROVE  Bits!Code3(i)
  <2>1. PICK p, l, x, all : UnitAt(u, f, n, p, l, x, all)
    BY UnitIsAt
  <2>2. /\ p \in Nat /\ all \in Nat /\ l \in Nat \ {0} /\ i = p + 2 /\ p + 4 + l <= all
        /\ all = Len(data) /\ data[p + 2] = 0 /\ data[p + 3] = 0 /\ data[p + 4] = 1
    BY ONLY <1>1, <2>1 DEF UnitAt
  <2>3. i + 1 = p + 3 /\ i + 2 = p + 4 /\ i + 2 <= all
    BY ONLY <2>2
  <2> QED
    BY ONLY <2>2, <2>3 DEF Bits!Code3
<1>2. ASSUME Bits!Code3(i)
      PROVE  \E n \in 1 .. Len(u) : i = f[n - 1] + 2
  <2>1. PICK n \in 1 .. Len(u) : In(u, f, i, n)
    BY DataLocated
  <2>2. PICK p, l, x, all : UnitAt(u, f, n, p, l, x, all)
    BY UnitIsAt
  <2>3. p \in Nat /\ l \in Nat \ {0} /\ p = f[n - 1] /\ l = Len(u[n]) /\ x \in Nal /\ l = Len(x)
    BY ONLY <2>2 DEF UnitAt
  <2>4. /\ x[l] # 0
        /\ \A j \in 1 .. l - 2 : ~(x[j] = 0 /\ x[j + 1] = 0 /\ x[j + 2] = 1)
    BY <2>3, NalIs
  <2>5. PICK k \in 1 .. 4 + l : i = p + k
    BY ONLY <2>1, <2>3 DEF In
  <2>6. data[p + k] = 0 /\ data[p + k + 1] = 0 /\ data[p + k + 2] = 1
    BY ONLY <1>2, <2>5 DEF Bits!Code3
  <2>7. k # 1 /\ k # 3 /\ k # 4
    <3>1. p + 1 + 2 = p + 3 /\ p + 3 + 1 = p + 4
      BY ONLY <2>3
    <3>2. data[p + 3] = 0 /\ data[p + 4] = 1
      BY ONLY <2>2 DEF UnitAt
    <3>3. k # 1
      BY ONLY <2>6, <3>1, <3>2
    <3>4. k # 3
      BY ONLY <2>6, <3>1, <3>2
    <3>5. k # 4
      BY ONLY <2>6, <3>1, <3>2
    <3> QED
      BY <3>3, <3>4, <3>5
  <2>8. ASSUME k > 4 PROVE FALSE
    <3>1. PICK j \in 1 .. l : k = 4 + j /\ p + k = p + 4 + j
      <4>1. k - 4 \in 1 .. l /\ k = 4 + (k - 4) /\ p + k = p + 4 + (k - 4)
        <5>1. p \in Nat /\ l \in Nat
          BY ONLY <2>3
        <5> QED
          BY ONLY <5>1, <2>8, k \in 1 .. 4 + l
      <4> QED
        BY ONLY <4>1
    <3>2. data[p + 4 + j] = 0 /\ data[p + 4 + j + 1] = 0 /\ data[p + 4 + j + 2] = 1
      BY ONLY <2>6, <3>1
    <3>3. \A h \in 1 .. l : data[p + 4 + h] = x[h]
      BY ONLY <2>2 DEF UnitAt
    <3>4. x[j] = 0 /\ j # l
      BY ONLY <2>4, <3>2, <3>3
    <3>5. j + 1 \in 1 .. l /\ p + 4 + j + 1 = p + 4 + (j + 1)
      BY ONLY <3>4, <2>3, j \in 1 .. l
    <3>6. x[j + 1] = 0 /\ j + 1 # l
      BY ONLY <2>4, <3>2, <3>3, <3>5
    <3>7. j + 2 \in 1 .. l /\ p + 4 + j + 2 = p + 4 + (j + 2) /\ j \in 1 .. l - 2
      BY ONLY <3>4, <3>6, <2>3, j \in 1 .. l
    <3>8. x[j + 2] = 1
      BY ONLY <3>2, <3>3, <3>7
    <3> QED
      BY ONLY <2>4, <3>4, <3>6, <3>7, <3>8
  <2>9. k = 2
    BY ONLY <2>3, <2>7, <2>8, k \in 1 .. 4 + l
  <2> QED
    BY ONLY <2>3, <2>5, <2>9, n \in 1 .. Len(u)
<1> QED
  BY <1>1, <1>2

\* 0 0 0 1 is a start code and nothing else.
LEMMA LongCode ==
  ASSUME NEW u, NEW f, AnnexB(data, u, f), NEW i \in 1 .. Len(data)
  PROVE  Bits!Code4(i) <=> \E n \in 1 .. Len(u) : i = f[n - 1] + 1
<1>1. ASSUME NEW n \in 1 .. Len(u), i = f[n - 1] + 1
      PROVE  Bits!Code4(i)
  <2>1. PICK p, l, x, all : UnitAt(u, f, n, p, l, x, all)
    BY UnitIsAt
  <2>2. /\ p \in Nat /\ all \in Nat /\ l \in Nat \ {0} /\ p + 4 + l <= all /\ all = Len(data)
        /\ p = f[n - 1] /\ data[p + 1] = 0
    BY ONLY <2>1 DEF UnitAt
  <2>3. i = p + 1 /\ i + 1 = p + 2 /\ i + 1 \in 1 .. all /\ i + 3 <= all
    BY ONLY <1>1, <2>2
  <2>4. i + 1 \in 1 .. Len(data) /\ i + 1 = f[n - 1] + 2
    BY ONLY <2>2, <2>3
  <2>5. Bits!Code3(i + 1)
    BY <2>4, ShortCode
  <2> QED
    BY ONLY <2>2, <2>3, <2>5 DEF Bits!Code4
<1>2. ASSUME Bits!Code4(i)
      PROVE  \E n \in 1 .. Len(u) : i = f[n - 1] + 1
  <2>1. i + 3 <= Len(data) /\ Bits!Code3(i + 1)
    BY <1>2 DEF Bits!Code4
  <2>2. Len(data) \in Nat
    BY LenProperties DEF AnnexB
  <2>3. i + 1 \in 1 .. Len(data)
    BY ONLY <2>1, <2>2, i \in 1 .. Len(data)
  <2>4. PICK n \in 1 .. Len(u) : i + 1 = f[n - 1] + 2
    BY <2>1, <2>3, ShortCode
  <2>5. f[n - 1] \in Nat
    BY UnitHeld
  <2>6. i = f[n - 1] + 1
    BY ONLY <2>4, <2>5, i \in 1 .. Len(data), <2>2
  <2> QED
    BY <2>6
<1> QED
  BY <1>1, <1>2

LEMMA UnitIs ==
  ASSUME NEW u, NEW f, AnnexB(data, u, f), NEW n \in 1 .. Len(u)
  PROVE  SubSeq(data, f[n - 1] + 5, f[n]) = u[n]
<1>1. PICK p, l, x, all : UnitAt(u, f, n, p, l, x, all)
  BY UnitIsAt
<1>2. /\ p \in Nat /\ l \in Nat \ {0} /\ x \in Nal /\ all \in Nat /\ p = f[n - 1] /\ x = u[n]
      /\ f[n] = p + 4 + l /\ p + 4 + l <= all /\ all = Len(data)
  BY ONLY <1>1 DEF UnitAt
<1>3. /\ \A j \in 1 .. l : data[p + 4 + j] = x[j]
      /\ l = Len(x)
  BY ONLY <1>1 DEF UnitAt
<1>4. data \in Seq(0 .. 255) /\ x \in Seq(0 .. 255)
  BY <1>2, NalIs DEF AnnexB
<1> DEFINE b == p + 5
           e == p + 4 + l
           t == SubSeq(data, b, e)
<1>5. b \in Int /\ e \in Int /\ b <= e /\ e - b + 1 = l
  <2>1. p \in Nat /\ l \in Nat \ {0}
    BY ONLY <1>2
  <2> QED
    BY ONLY <2>1
<1>6. \A i \in b .. e : data[i] \in 0 .. 255
  <2> TAKE i \in b .. e
  <2>1. i \in 1 .. all
    BY ONLY <1>2
  <2> QED
    BY ONLY <1>2, <1>4, <2>1, ElementOfSeq
<1>7. \A j \in 1 .. l : b + j - 1 = p + 4 + j
  BY ONLY <1>2
<1> HIDE DEF b, e
<1>8. /\ t \in Seq(0 .. 255)
      /\ Len(t) = IF b <= e THEN e - b + 1 ELSE 0
      /\ \A j \in 1 .. e - b + 1 : t[j] = data[b + j - 1]
  BY <1>5, <1>6, SubSeqProperties
<1> HIDE DEF t
<1>9. Len(t) = Len(x)
  BY ONLY <1>3, <1>5, <1>8
<1>10. \A j \in 1 .. Len(t) : t[j] = x[j]
  <2> TAKE j \in 1 .. Len(t)
  <2>1. j \in 1 .. l /\ j \in 1 .. e - b + 1
    BY ONLY <1>3, <1>5, <1>9, j \in 1 .. Len(t)
  <2>2. t[j] = data[b + j - 1] /\ b + j - 1 = p + 4 + j /\ data[p + 4 + j] = x[j]
    BY ONLY <1>3, <1>7, <1>8, <2>1
  <2> QED
    BY ONLY <2>2
<1>11. t = x
  BY ONLY <1>4, <1>8, <1>9, <1>10, SeqEqual
<1>12. b = f[n - 1] + 5 /\ e = f[n]
  BY ONLY <1>2 DEF b, e
<1> QED
  BY ONLY <1>2, <1>11, <1>12 DEF t

\* The least of some positions, or one past the end of the data.
LEMMA FirstIs ==
  ASSUME NEW S \in SUBSET Nat, NEW m \in Nat, m \in S \cup {Len(data) + 1},
         \A i \in S : m <= i, m <= Len(data) + 1
  PROVE  Bits!FirstOf(S) = m
<1> DEFINE T == S \cup {Len(data) + 1}
<1>1. Bits!FirstOf(S) = CHOOSE x \in T : \A y \in T : x <= y
  BY DEF Bits!FirstOf, Bits!Min
<1>2. m \in T /\ \A y \in T : m <= y
  OBVIOUS
<1>3. \A x \in T : (\A y \in T : x <= y) => x = m
  <2> SUFFICES ASSUME NEW x \in T, \A y \in T : x <= y PROVE x = m
    OBVIOUS
  <2>1. x <= m /\ m <= x
    BY <1>2
  <2>2. x \in Int
    <3>1. CASE x \in S
      BY <3>1
    <3>2. CASE x = Len(data) + 1
      BY <2>1, <3>2
    <3> QED
      BY <3>1, <3>2
  <2> QED
    BY ONLY <2>1, <2>2, m \in Nat
<1> HIDE DEF T
<1> QED
  BY ONLY <1>1, <1>2, <1>3

\* The c-th bytes of the start codes.
StartsAt(S, u, f, c) == S = {f[m - 1] + c : m \in 1 .. Len(u)}

\* Where a unit's start code is followed by the next, or the end.
LEMMA NextStart ==
  ASSUME NEW u, NEW f, AnnexB(data, u, f), NEW c \in {1, 2}, NEW n \in 1 .. Len(u),
         NEW S, StartsAt(S, u, f, c)
  PROVE  Bits!FirstOf({j \in S : j > f[n - 1] + c}) =
           IF n < Len(u) THEN f[n] + c ELSE Len(data) + 1
<1>0. S = {f[m - 1] + c : m \in 1 .. Len(u)}
  BY DEF StartsAt
<1>1. /\ u \in Seq(Nal) /\ Off(u, f) /\ Len(data) = f[Len(u)] /\ Len(u) \in Nat /\ Len(data) \in Nat
  BY UnitHeld DEF AnnexB
<1>2. \A m \in 0 .. Len(u) : f[m] \in Nat
  BY <1>1 DEF Off
<1>3. \A i, j \in 0 .. Len(u) : i < j => f[i] + 5 <= f[j]
  BY <1>1, OffsetsGrow
<1> DEFINE T == {j \in S : j > f[n - 1] + c}
<1>4. \A j \in T : \E m \in 1 .. Len(u) : j = f[m - 1] + c /\ m > n
  <2> TAKE j \in T
  <2>1. PICK m \in 1 .. Len(u) : j = f[m - 1] + c
    BY <1>0
  <2>2. f[m - 1] \in Nat /\ f[n - 1] \in Nat /\ m - 1 \in 0 .. Len(u) /\ n - 1 \in 0 .. Len(u)
    BY <1>1, <1>2
  <2>3. f[m - 1] > f[n - 1]
    BY <2>1, <2>2
  <2>4. ~(m < n) /\ m # n
    BY <1>3, <2>2, <2>3
  <2> QED
    BY <1>1, <2>1, <2>4
<1>5. T \in SUBSET Nat
  BY <1>0, <1>1, <1>2
<1>6. CASE n < Len(u)
  <2>1. f[n] \in Nat /\ f[n - 1] \in Nat /\ f[n - 1] + 5 <= f[n] /\ f[n] + 5 <= Len(data)
    <3>1. n \in 0 .. Len(u) /\ n - 1 \in 0 .. Len(u) /\ Len(u) \in 0 .. Len(u) /\ n - 1 < n
      BY <1>1
    <3> QED
      BY <1>1, <1>2, <1>3, <1>6, <3>1
  <2>2. f[n] + c \in T
    <3>1. n + 1 \in 1 .. Len(u) /\ (n + 1) - 1 = n
      BY <1>1, <1>6
    <3>2. f[n] + c \in S
      BY <1>0, <3>1
    <3>3. f[n] + c > f[n - 1] + c
      BY ONLY <2>1, c \in {1, 2}
    <3> QED
      BY <3>2, <3>3
  <2>3. \A j \in T : f[n] + c <= j
    <3> TAKE j \in T
    <3>1. PICK m \in 1 .. Len(u) : j = f[m - 1] + c /\ m > n
      BY <1>4
    <3>2. m - 1 = n \/ (n < m - 1 /\ m - 1 \in 0 .. Len(u) /\ n \in 0 .. Len(u))
      BY <1>1, <3>1
    <3>3. f[m - 1] \in Nat
      BY <1>1, <1>2
    <3>4. f[n] <= f[m - 1]
      <4>1. n < m - 1 => f[n] + 5 <= f[m - 1]
        BY <1>3, <3>2
      <4> QED
        BY ONLY <2>1, <3>2, <3>3, <4>1
    <3> QED
      BY ONLY <2>1, <3>1, <3>3, <3>4, c \in {1, 2}
  <2>4. f[n] + c \in Nat /\ f[n] + c <= Len(data) + 1
    BY ONLY <1>1, <2>1, c \in {1, 2}
  <2> HIDE DEF T
  <2>5. Bits!FirstOf(T) = f[n] + c
    BY <1>5, <2>2, <2>3, <2>4, FirstIs
  <2> QED
    BY <1>6, <2>5 DEF T
<1>7. CASE ~(n < Len(u))
  <2>1. T = {}
    BY <1>1, <1>4, <1>7
  <2> HIDE DEF T
  <2>2. Bits!FirstOf(T) = Len(data) + 1
    <3>1. Len(data) + 1 \in Nat /\ Len(data) + 1 <= Len(data) + 1
      BY ONLY <1>1
    <3> QED
      BY <1>5, <2>1, <3>1, FirstIs
  <2> QED
    BY <1>7, <2>2 DEF T
<1> QED
  BY <1>6, <1>7

\* The scanners see a start code before each unit, in the order of the units.
LEMMA StartsRanked ==
  ASSUME NEW u, NEW f, AnnexB(data, u, f), NEW c \in {1, 2},
         NEW S, StartsAt(S, u, f, c)
  PROVE  /\ Bits!Cardinality(S) = Len(u)
         /\ \A n \in 1 .. Len(u) : Bits!Nth(S, n) = f[n - 1] + c
<1>1. u \in Seq(Nal) /\ Off(u, f) /\ Len(u) \in Nat
  BY DEF AnnexB
<1>2. \A n \in 1 .. Len(u) : n - 1 \in 0 .. Len(u) /\ f[n - 1] \in Nat
  <2>1. \A n \in 0 .. Len(u) : f[n] \in Nat
    BY <1>1 DEF Off
  <2>2. \A n \in 1 .. Len(u) : n - 1 \in 0 .. Len(u)
    BY <1>1
  <2> QED
    BY ONLY <2>1, <2>2
<1> DEFINE p == [n \in 1 .. Len(u) |-> f[n - 1] + c]
<1>3. p \in [1 .. Len(u) -> Nat]
  BY <1>2
<1>4. \A i, j \in 1 .. Len(u) : i < j => p[i] < p[j]
  <2> SUFFICES ASSUME NEW i \in 1 .. Len(u), NEW j \in 1 .. Len(u), i < j PROVE p[i] < p[j]
    OBVIOUS
  <2>1. i - 1 < j - 1
    OBVIOUS
  <2>2. f[i - 1] + 5 <= f[j - 1]
    BY <1>1, <1>2, <2>1, OffsetsGrow
  <2> QED
    BY <1>2, <2>2
<1>5. S = {p[n] : n \in 1 .. Len(u)}
  BY DEF StartsAt
<1>6. \A n \in 1 .. Len(u) : p[n] = f[n - 1] + c
  OBVIOUS
<1> HIDE DEF p
<1>7. /\ Bits!Cardinality(S) = Len(u)
      /\ \A n \in 1 .. Len(u) : Bits!Nth(S, n) = p[n]
  BY ONLY <1>1, <1>3, <1>4, <1>5, RankedIs
<1> QED
  BY ONLY <1>6, <1>7

LEMMA EndIs ==
  ASSUME NEW u, NEW f, AnnexB(data, u, f), NEW n \in 1 .. Len(u), n = Len(u)
  PROVE  f[n] = Len(data)
BY DEF AnnexB

\* A scan that looks as far as the last unit's start code finds the units.
LEMMA UnitsAre ==
  ASSUME NEW u, NEW f, AnnexB(data, u, f), Len(u) > 0, NEW limit \in Nat,
         f[Len(u) - 1] + 1 <= limit, limit <= Len(data)
  PROVE  Bits!Units(limit) = u
<1>1. u \in Seq(Nal) /\ Off(u, f) /\ Len(u) \in Nat /\ Len(data) \in Nat
  BY UnitHeld, LenProperties DEF AnnexB
<1>2. \A n \in 1 .. Len(u) : n - 1 \in 0 .. Len(u) /\ f[n - 1] \in Nat
  <2>1. \A n \in 0 .. Len(u) : f[n] \in Nat
    BY <1>1 DEF Off
  <2>2. \A n \in 1 .. Len(u) : n - 1 \in 0 .. Len(u)
    BY <1>1
  <2> QED
    BY ONLY <2>1, <2>2
<1>3. \A i, j \in 0 .. Len(u) : i < j => f[i] + 5 <= f[j]
  BY <1>1, OffsetsGrow
<1> DEFINE Starts == {i \in 1 .. limit : (Bits!Code3(i) \/ Bits!Code4(i)) /\ ~(i > 1 /\ Bits!Code4(i - 1))}
           S == {f[m - 1] + 1 : m \in 1 .. Len(u)}
           Unit(i) == SubSeq(data, IF Bits!Code4(i) THEN i + 4 ELSE i + 3,
                             Bits!FirstOf({j \in S : j > i}) - 1)
<1>0. StartsAt(S, u, f, 1) /\ 1 \in {1, 2}
  BY DEF StartsAt
<1>4. Starts = S
  <2>1. ASSUME NEW n \in 1 .. Len(u)
        PROVE  f[n - 1] + 1 \in Starts
    <3> DEFINE i == f[n - 1] + 1
    <3>1. i \in 1 .. limit
      <4>1. Len(u) \in 1 .. Len(u) /\ Len(u) - 1 \in 0 .. Len(u) /\ f[Len(u) - 1] \in Nat
        BY <1>1, <1>2
      <4>2. n - 1 < Len(u) - 1 => f[n - 1] + 5 <= f[Len(u) - 1]
        BY <1>2, <1>3, <4>1
      <4>3. n - 1 = Len(u) - 1 \/ n - 1 < Len(u) - 1
        BY <1>1
      <4>4. f[n - 1] \in Nat /\ f[n - 1] <= f[Len(u) - 1]
        BY <1>2, <4>1, <4>2, <4>3
      <4> QED
        BY ONLY <4>1, <4>4, limit \in Nat, f[Len(u) - 1] + 1 <= limit
    <3>2. i \in 1 .. Len(data) /\ f[n - 1] \in Nat
      BY ONLY <1>1, <1>2, <3>1, limit \in Nat, limit <= Len(data), n \in 1 .. Len(u)
    <3>3. Bits!Code4(i)
      BY <3>2, LongCode
    <3>4. ASSUME i > 1, Bits!Code4(i - 1)
          PROVE  FALSE
      <4>1. i - 1 \in 1 .. Len(data)
        BY ONLY <1>1, <3>2, <3>4
      <4>2. PICK m \in 1 .. Len(u) : i - 1 = f[m - 1] + 1
        BY <3>4, <4>1, LongCode
      <4>3. f[n - 1] = f[m - 1] + 1 /\ f[m - 1] \in Nat
        BY <1>2, <3>2, <4>2
      <4>4. m - 1 < n - 1 => f[m - 1] + 5 <= f[n - 1]
        BY <1>2, <1>3
      <4>5. n - 1 < m - 1 => f[n - 1] + 5 <= f[m - 1]
        BY <1>2, <1>3
      <4>6. m - 1 < n - 1 \/ n - 1 < m - 1 \/ m - 1 = n - 1
        BY <1>1
      <4>7. m - 1 = n - 1 => f[m - 1] = f[n - 1]
        OBVIOUS
      <4> QED
        BY ONLY <3>2, <4>3, <4>4, <4>5, <4>6, <4>7
    <3> HIDE DEF i
    <3>5. i \in Starts
      BY <3>1, <3>3, <3>4
    <3> QED
      BY <3>5 DEF i
  <2>2. ASSUME NEW i \in Starts
        PROVE  \E n \in 1 .. Len(u) : i = f[n - 1] + 1
    <3>1. i \in 1 .. Len(data) /\ i \in 1 .. limit
      BY <1>1
    <3>2. CASE Bits!Code4(i)
      BY <3>1, <3>2, LongCode
    <3>3. CASE Bits!Code3(i)
      <4>1. PICK n \in 1 .. Len(u) : i = f[n - 1] + 2
        BY <3>1, <3>3, ShortCode
      <4>2. i > 1 /\ i - 1 = f[n - 1] + 1 /\ i - 1 \in 1 .. Len(data)
        BY <1>1, <1>2, <3>1, <4>1
      <4>3. Bits!Code4(i - 1)
        BY <4>2, LongCode
      <4> QED
        BY <4>2, <4>3
    <3> QED
      BY <3>2, <3>3
  <2> HIDE DEF Starts
  <2> QED
    BY <2>1, <2>2
<1>5. Bits!Units(limit) = [n \in 1 .. Bits!Cardinality(S) |-> Unit(Bits!Nth(S, n))]
  <2>1. Bits!Units(limit) =
          [n \in 1 .. Bits!Cardinality(Starts) |->
             SubSeq(data, IF Bits!Code4(Bits!Nth(Starts, n)) THEN Bits!Nth(Starts, n) + 4
                          ELSE Bits!Nth(Starts, n) + 3,
                    Bits!FirstOf({j \in Starts : j > Bits!Nth(Starts, n)}) - 1)]
    BY DEF Bits!Units
  <2> HIDE DEF Starts
  <2> QED
    BY ONLY <1>4, <2>1
<1>6. \A n \in 1 .. Len(u) : Unit(f[n - 1] + 1) = u[n]
  <2> TAKE n \in 1 .. Len(u)
  <2>1. PICK p, l, x, all : UnitAt(u, f, n, p, l, x, all)
    BY UnitIsAt
  <2>2. p \in Nat /\ p = f[n - 1] /\ l \in Nat /\ all \in Nat /\ p + 4 + l <= all /\ all = Len(data)
        /\ f[n] = p + 4 + l
    BY ONLY <2>1 DEF UnitAt
  <2>3. p + 1 \in 1 .. all
    BY ONLY <2>2
  <2>4. Bits!Code4(f[n - 1] + 1)
    BY ONLY <2>2, <2>3, LongCode, AnnexB(data, u, f), n \in 1 .. Len(u)
  <2>5. Bits!FirstOf({j \in S : j > f[n - 1] + 1}) = IF n < Len(u) THEN f[n] + 1 ELSE Len(data) + 1
    <3> HIDE DEF S
    <3> QED
      BY <1>0, NextStart
  <2>6. ~(n < Len(u)) => f[n] = Len(data)
    BY <1>1, EndIs
  <2>7. Bits!FirstOf({j \in S : j > f[n - 1] + 1}) = f[n] + 1
    BY ONLY <2>5, <2>6
  <2>8. (f[n] + 1) - 1 = f[n] /\ (f[n - 1] + 1) + 4 = f[n - 1] + 5
    BY ONLY <2>2
  <2>9. SubSeq(data, f[n - 1] + 5, f[n]) = u[n]
    BY UnitIs
  <2> HIDE DEF S
  <2> QED
    BY ONLY <2>4, <2>7, <2>8, <2>9
<1>7. Bits!Cardinality(S) = Len(u) /\ \A n \in 1 .. Len(u) : Bits!Nth(S, n) = f[n - 1] + 1
  <2> HIDE DEF S
  <2> QED
    BY <1>0, StartsRanked
<1> HIDE DEF S, Unit
<1>8. Bits!Units(limit) = [n \in 1 .. Len(u) |-> u[n]]
  BY ONLY <1>5, <1>6, <1>7
<1>9. u = [n \in 1 .. Len(u) |-> u[n]]
  BY <1>1
<1> QED
  BY ONLY <1>8, <1>9

\* A unit ends with another byte than zero, so that taking off zeros gives it back.
LEMMA ZerosGone ==
  ASSUME NEW x \in Nal, NEW y \in Seq(0 .. 255), NEW z \in 0 .. 1, Len(y) = Len(x) + z,
         \A i \in 1 .. Len(x) : y[i] = x[i],
         \A i \in 1 .. Len(y) : i > Len(x) => y[i] = 0
  PROVE  Bits!WithoutZeros(y) = x
<1>1. x \in Seq(0 .. 255) /\ Len(x) \in Nat \ {0} /\ x[Len(x)] # 0
  BY NalIs
<1>2. PICK l \in Nat \ {0} : l = Len(x)
  BY ONLY <1>1
<1>3. DOMAIN y = 1 .. l + z /\ l \in 1 .. l + z
  <2>1. DOMAIN y = 1 .. Len(y)
    BY LenProperties
  <2> QED
    BY <1>2, <2>1
<1> DEFINE T == {0} \cup {i \in DOMAIN y : y[i] # 0}
<1>4. l \in T
  BY <1>1, <1>2, <1>3
<1>5. \A i \in T : i <= l /\ i \in Nat
  <2> TAKE i \in T
  <2>1. CASE i = 0
    BY <2>1
  <2>2. CASE i # 0
    <3>1. i \in 1 .. Len(y) /\ y[i] # 0 /\ i \in 1 .. l + z
      BY <2>2, <1>2, <1>3
    <3>2. ~(i > Len(x))
      BY ONLY <3>1, \A k \in 1 .. Len(y) : k > Len(x) => y[k] = 0
    <3> QED
      BY ONLY <1>2, <3>1, <3>2
  <2> QED
    BY <2>1, <2>2
<1>6. Bits!WithoutZeros(y) = SubSeq(y, 1, Bits!Max(T))
  BY DEF Bits!WithoutZeros
<1>7. Bits!Max(T) = CHOOSE i \in T : \A j \in T : i >= j
  BY DEF Bits!Max
<1> HIDE DEF T
<1>8. \A i \in T : (\A j \in T : i >= j) => i = l
  <2> SUFFICES ASSUME NEW i \in T, \A j \in T : i >= j PROVE i = l
    OBVIOUS
  <2>1. i >= l /\ i <= l /\ i \in Nat
    BY <1>4, <1>5
  <2> QED
    BY ONLY <2>1, l \in Nat \ {0}
<1>9. \A j \in T : l >= j
  BY <1>5
<1>10. Bits!Max(T) = l
  BY ONLY <1>4, <1>7, <1>8, <1>9
<1> DEFINE t == SubSeq(y, 1, l)
<1>11. /\ t \in Seq(0 .. 255) /\ Len(t) = l /\ \A i \in 1 .. l : t[i] = y[i]
  <2>1. \A i \in 1 .. l : y[i] \in 0 .. 255
    <3> TAKE i \in 1 .. l
    <3>1. i \in 1 .. Len(y)
      BY <1>2
    <3> QED
      BY <3>1, ElementOfSeq
  <2>2. /\ t \in Seq(0 .. 255)
        /\ Len(t) = IF 1 <= l THEN l - 1 + 1 ELSE 0
        /\ \A i \in 1 .. l - 1 + 1 : t[i] = y[1 + i - 1]
    <3>1. 1 \in Int /\ l \in Int
      OBVIOUS
    <3> QED
      BY ONLY <2>1, <3>1, SubSeqProperties
  <2>3. 1 <= l /\ l - 1 + 1 = l /\ \A i \in 1 .. l : 1 + i - 1 = i
    BY ONLY l \in Nat \ {0}
  <2> HIDE DEF t
  <2> QED
    BY ONLY <2>2, <2>3
<1> HIDE DEF t
<1>12. t = x
  <2>1. Len(t) = Len(x) /\ \A i \in 1 .. Len(t) : t[i] = x[i]
    BY ONLY <1>2, <1>11, \A i \in 1 .. Len(x) : y[i] = x[i]
  <2> QED
    BY ONLY <1>1, <1>11, <2>1, SeqEqual
<1> QED
  BY ONLY <1>6, <1>10, <1>12 DEF t

\* The short scanner finds the units too.
LEMMA AnnexbNalUnitsAre ==
  ASSUME NEW u, NEW f, AnnexB(data, u, f), Len(u) > 0
  PROVE  Bits!AnnexbNalUnits = u
<1>1. u \in Seq(Nal) /\ Off(u, f) /\ Len(u) \in Nat /\ Len(data) \in Nat /\ data \in Seq(0 .. 255)
  BY UnitHeld, LenProperties DEF AnnexB
<1> DEFINE Starts == {i \in 1 .. Len(data) : Bits!Code3(i)}
           S == {f[m - 1] + 2 : m \in 1 .. Len(u)}
           Unit(i) == Bits!WithoutZeros(SubSeq(data, i + 3, Bits!FirstOf({j \in S : j > i}) - 1))
<1>2. StartsAt(S, u, f, 2) /\ 2 \in {1, 2}
  BY DEF StartsAt
<1>3. Starts = S
  <2>1. ASSUME NEW n \in 1 .. Len(u)
        PROVE  f[n - 1] + 2 \in Starts
    <3>1. PICK p, l, x, all : UnitAt(u, f, n, p, l, x, all)
      BY UnitIsAt
    <3>2. p \in Nat /\ p = f[n - 1] /\ l \in Nat /\ all \in Nat /\ p + 4 + l <= all /\ all = Len(data)
      BY ONLY <3>1 DEF UnitAt
    <3>3. p + 2 \in 1 .. all
      BY ONLY <3>2
    <3>4. f[n - 1] + 2 \in 1 .. Len(data)
      BY ONLY <3>2, <3>3
    <3>5. Bits!Code3(f[n - 1] + 2)
      BY <3>4, ShortCode
    <3> QED
      BY <3>4, <3>5
  <2>2. ASSUME NEW i \in Starts
        PROVE  \E n \in 1 .. Len(u) : i = f[n - 1] + 2
    BY ShortCode
  <2> HIDE DEF Starts
  <2> QED
    BY <2>1, <2>2
<1>4. Bits!AnnexbNalUnits = [n \in 1 .. Bits!Cardinality(S) |-> Unit(Bits!Nth(S, n))]
  <2>1. Bits!AnnexbNalUnits =
          [n \in 1 .. Bits!Cardinality(Starts) |->
             Bits!WithoutZeros(SubSeq(data, Bits!Nth(Starts, n) + 3,
                    Bits!FirstOf({j \in Starts : j > Bits!Nth(Starts, n)}) - 1))]
    BY DEF Bits!AnnexbNalUnits
  <2> HIDE DEF Starts
  <2> QED
    BY ONLY <1>3, <2>1
<1>5. Bits!Cardinality(S) = Len(u) /\ \A n \in 1 .. Len(u) : Bits!Nth(S, n) = f[n - 1] + 2
  <2> HIDE DEF S
  <2> QED
    BY <1>2, StartsRanked
<1>6. \A n \in 1 .. Len(u) : Unit(f[n - 1] + 2) = u[n]
  <2> TAKE n \in 1 .. Len(u)
  <2>1. PICK p, l, x, all : UnitAt(u, f, n, p, l, x, all)
    BY UnitIsAt
  <2>2. /\ p \in Nat /\ p = f[n - 1] /\ l \in Nat \ {0} /\ all \in Nat /\ p + 4 + l <= all
        /\ f[n] = p + 4 + l /\ x = u[n] /\ x \in Nal /\ all = Len(data) /\ l = Len(x)
    BY ONLY <2>1 DEF UnitAt
  <2>3. \A j \in 1 .. l : data[p + 4 + j] = x[j]
    BY ONLY <2>1 DEF UnitAt
  <2>4. Bits!FirstOf({j \in S : j > f[n - 1] + 2}) = IF n < Len(u) THEN f[n] + 2 ELSE Len(data) + 1
    <3> HIDE DEF S
    <3> QED
      BY <1>2, NextStart
  <2>5. ~(n < Len(u)) => f[n] = Len(data)
    BY <1>1, EndIs
  <2>6. PICK z \in 0 .. 1 : /\ Bits!FirstOf({j \in S : j > f[n - 1] + 2}) = p + 4 + l + z + 1
                            /\ p + 4 + l + z <= all
                            /\ z = 1 => data[p + 4 + l + 1] = 0
    <3>1. CASE n < Len(u)
      <4>1. n + 1 \in 1 .. Len(u) /\ (n + 1) - 1 = n
        BY <1>1, <3>1
      <4>2. PICK q, k, y, every : UnitAt(u, f, n + 1, q, k, y, every)
        BY <4>1, UnitIsAt
      <4>3. q = f[(n + 1) - 1] /\ data[q + 1] = 0 /\ q + 4 + k <= every /\ every = Len(data)
            /\ q \in Nat /\ k \in Nat
        BY ONLY <4>2 DEF UnitAt
      <4>4. q = p + 4 + l
        BY ONLY <2>2, <4>1, <4>3
      <4>5. data[p + 4 + l + 1] = 0
        BY ONLY <4>3, <4>4
      <4>6. p + 4 + l + 1 <= all
        <5>1. q + 4 + k <= all /\ q \in Nat /\ k \in Nat /\ q = p + 4 + l
          BY ONLY <2>2, <4>3, <4>4
        <5>2. all \in Nat /\ p \in Nat /\ l \in Nat
          BY ONLY <2>2
        <5> QED
          BY ONLY <5>1, <5>2
      <4>7. Bits!FirstOf({j \in S : j > f[n - 1] + 2}) = (p + 4 + l) + 2
        BY ONLY <2>2, <2>4, <3>1
      <4>8. (p + 4 + l) + 2 = p + 4 + l + 1 + 1
        <5>1. p \in Nat /\ l \in Nat
          BY ONLY <2>2
        <5> QED
          BY ONLY <5>1
      <4>9. 1 \in 0 .. 1
        OBVIOUS
      <4> HIDE DEF S
      <4> QED
        BY ONLY <4>5, <4>6, <4>7, <4>8, <4>9
    <3>2. CASE ~(n < Len(u))
      <4>1. Bits!FirstOf({j \in S : j > f[n - 1] + 2}) = (p + 4 + l) + 1 /\ p + 4 + l = all
        BY ONLY <2>2, <2>4, <2>5, <3>2
      <4>2. p + 4 + l + 0 = p + 4 + l /\ p + 4 + l + 0 + 1 = (p + 4 + l) + 1
        <5>1. p \in Nat /\ l \in Nat
          BY ONLY <2>2
        <5> QED
          BY ONLY <5>1
      <4>3. 0 \in 0 .. 1 /\ 0 # 1
        OBVIOUS
      <4>4. p + 4 + l + 0 <= all
        BY ONLY <4>1, <4>2, <2>2
      <4> HIDE DEF S
      <4> QED
        BY ONLY <4>1, <4>2, <4>3, <4>4
    <3> QED
      BY <3>1, <3>2
  <2> DEFINE b == p + 5
             e == p + 4 + l + z
             y == SubSeq(data, b, e)
  <2>7. b \in Int /\ e \in Int /\ b <= e /\ e - b + 1 = l + z
    <3>1. p \in Nat /\ l \in Nat \ {0}
      BY ONLY <2>2
    <3> QED
      BY ONLY <3>1, z \in 0 .. 1
  <2>8. \A i \in b .. e : data[i] \in 0 .. 255
    <3> TAKE i \in b .. e
    <3>1. p \in Nat /\ l \in Nat \ {0} /\ all \in Nat
      BY ONLY <2>2
    <3>2. i \in 1 .. all
      BY ONLY <2>6, <3>1, z \in 0 .. 1, i \in b .. e
    <3> QED
      BY ONLY <1>1, <2>2, <3>2, ElementOfSeq
  <2>9. \A j \in 1 .. l + z : b + j - 1 = p + 4 + j
    <3>1. p \in Nat /\ l \in Nat \ {0}
      BY ONLY <2>2
    <3> QED
      BY ONLY <3>1, z \in 0 .. 1
  <2>10. (e + 1) - 1 = e /\ (f[n - 1] + 2) + 3 = b
    <3>1. p \in Nat /\ l \in Nat \ {0} /\ p = f[n - 1]
      BY ONLY <2>2
    <3> QED
      BY ONLY <3>1, z \in 0 .. 1
  <2>11. Unit(f[n - 1] + 2) = Bits!WithoutZeros(y)
    <3>1. Bits!FirstOf({j \in S : j > f[n - 1] + 2}) = e + 1
      BY ONLY <2>6
    <3>2. (e + 1) - 1 = e /\ (f[n - 1] + 2) + 3 = b
      BY ONLY <2>10
    <3> HIDE DEF S, b, e
    <3> QED
      BY ONLY <3>1, <3>2
  <2> HIDE DEF b, e
  <2>12. /\ y \in Seq(0 .. 255)
         /\ Len(y) = IF b <= e THEN e - b + 1 ELSE 0
         /\ \A j \in 1 .. e - b + 1 : y[j] = data[b + j - 1]
    BY <2>7, <2>8, SubSeqProperties
  <2> HIDE DEF y, Unit
  <2>13. Len(y) = l + z /\ \A j \in 1 .. l + z : y[j] = data[p + 4 + j]
    BY ONLY <2>7, <2>9, <2>12
  <2>14. \A j \in 1 .. Len(x) : y[j] = x[j]
    <3> TAKE j \in 1 .. Len(x)
    <3>0. l \in Nat
      BY ONLY <2>2
    <3>1. j \in 1 .. l
      BY ONLY <2>2
    <3>2. j \in 1 .. l + z
      BY ONLY <3>0, <3>1, z \in 0 .. 1
    <3> QED
      BY ONLY <2>3, <2>13, <3>1, <3>2
  <2>15. \A j \in 1 .. Len(y) : j > Len(x) => y[j] = 0
    <3> TAKE j \in 1 .. Len(y)
    <3> HAVE j > Len(x)
    <3>0a. j \in 1 .. l + z /\ j > l
      BY ONLY <2>2, <2>13, j \in 1 .. Len(y), j > Len(x)
    <3>0. l \in Nat
      BY ONLY <2>2
    <3>1. z = 1 /\ j = l + 1
      BY ONLY <3>0, <3>0a, z \in 0 .. 1
    <3>2. data[p + 4 + (l + 1)] = data[p + 4 + l + 1]
      <4>1. p \in Nat /\ l \in Nat
        BY ONLY <2>2
      <4>2. p + 4 + (l + 1) = p + 4 + l + 1
        BY ONLY <4>1
      <4> QED
        BY ONLY <4>2
    <3> QED
      BY ONLY <2>6, <2>13, <3>0a, <3>1, <3>2
  <2>16. Len(y) = Len(x) + z
    BY ONLY <2>2, <2>13
  <2>17. Bits!WithoutZeros(y) = x
    BY ONLY <2>2, <2>12, <2>14, <2>15, <2>16, z \in 0 .. 1, ZerosGone
  <2> QED
    BY ONLY <2>2, <2>11, <2>17
<1> HIDE DEF S, Unit
<1>7. Bits!AnnexbNalUnits = [n \in 1 .. Len(u) |-> u[n]]
  BY ONLY <1>4, <1>5, <1>6
<1>8. u = [n \in 1 .. Len(u) |-> u[n]]
  BY <1>1
<1> QED
  BY ONLY <1>7, <1>8

\* What the constants are.
LEMMA BitsConstants ==
  /\ Codec \in {"hevc", "h264"}
  /\ MaxSlices \in Nat \ {0} /\ BitsMaxFrames \in Nat \ {0} /\ ChunkSize \in Nat \ {0}
  /\ MinCapacity \in Nat
  /\ \A s \in ParameterSets :
       /\ s \in Seq(Seq(0 .. 255)) /\ Len(s) = Len(Bits!SetKinds)
       /\ \A i \in DOMAIN s : Bits!WellFormed(s[i]) /\ Bits!Kind(s[i]) = Bits!SetKinds[i]
  /\ \A n \in Slices : Bits!WellFormed(n) /\ Bits!Kind(n) \notin Bits!ToSet(Bits!SetKinds)
BY PartsAssumption DEF Bits!Assumption, Bits!Bytes

\* The kinds of parameter sets: two or three, all different.
LEMMA KindsAre ==
  /\ Len(Bits!SetKinds) \in 2 .. 3 /\ DOMAIN Bits!SetKinds = 1 .. Len(Bits!SetKinds)
  /\ \A i, j \in 1 .. Len(Bits!SetKinds) : Bits!SetKinds[i] = Bits!SetKinds[j] => i = j
  /\ \A i \in 1 .. Len(Bits!SetKinds) : Bits!SetKinds[i] \in Bits!ToSet(Bits!SetKinds)
<1> DEFINE K == Bits!SetKinds
<1>1. K = <<32, 33, 34>> \/ K = <<7, 8>>
  BY BitsConstants DEF Bits!SetKinds
<1> HIDE DEF K
<1>2. /\ Len(K) \in 2 .. 3 /\ DOMAIN K = 1 .. Len(K)
      /\ \A i, j \in 1 .. Len(K) : K[i] = K[j] => i = j
  <2>1. CASE K = <<32, 33, 34>>
    <3>1. Len(K) = 3 /\ DOMAIN K = 1 .. 3 /\ K[1] = 32 /\ K[2] = 33 /\ K[3] = 34
      BY <2>1
    <3> QED
      BY ONLY <3>1
  <2>2. CASE K = <<7, 8>>
    <3>1. Len(K) = 2 /\ DOMAIN K = 1 .. 2 /\ K[1] = 7 /\ K[2] = 8
      BY <2>2
    <3> QED
      BY ONLY <3>1
  <2> QED
    BY <1>1, <2>1, <2>2
<1>3. Bits!ToSet(K) = {K[i] : i \in DOMAIN K}
  BY DEF Bits!ToSet
<1>4. \A i \in 1 .. Len(K) : K[i] \in Bits!ToSet(K)
  BY ONLY <1>2, <1>3
<1> QED
  BY ONLY <1>2, <1>4 DEF K

LEMMA SetIs ==
  ASSUME NEW s \in ParameterSets
  PROVE  /\ s \in Seq(Nal) /\ Len(s) = Len(Bits!SetKinds)
         /\ \A i \in 1 .. Len(s) : Bits!Kind(s[i]) = Bits!SetKinds[i] /\ s[i] # <<>>
<1>1. /\ s \in Seq(Seq(0 .. 255)) /\ Len(s) = Len(Bits!SetKinds)
      /\ \A i \in DOMAIN s : Bits!WellFormed(s[i]) /\ Bits!Kind(s[i]) = Bits!SetKinds[i]
  BY BitsConstants
<1>2. DOMAIN s = 1 .. Len(s) /\ Len(s) \in Nat /\ s = [i \in 1 .. Len(s) |-> s[i]]
  BY <1>1
<1>3. \A i \in 1 .. Len(s) : s[i] \in Seq(0 .. 255)
  BY <1>1
<1>4. \A i \in 1 .. Len(s) : s[i] \in Nal
  BY ONLY <1>1, <1>2, <1>3 DEF Nal
<1>5. s \in [1 .. Len(s) -> Nal]
  BY ONLY <1>2, <1>4
<1>6. s \in Seq(Nal)
  BY ONLY <1>2, <1>5, SeqDef
<1>7. \A i \in 1 .. Len(s) : s[i] # <<>>
  <2> TAKE i \in 1 .. Len(s)
  <2>1. Len(s[i]) \in Nat \ {0}
    BY ONLY <1>4, i \in 1 .. Len(s), NalIs
  <2>2. Len(<<>>) = 0
    OBVIOUS
  <2> QED
    BY ONLY <2>1, <2>2
<1> QED
  BY ONLY <1>1, <1>2, <1>6, <1>7

LEMMA SliceIs ==
  ASSUME NEW n \in Slices
  PROVE  n \in Nal /\ Bits!Kind(n) \notin Bits!ToSet(Bits!SetKinds)
<1>1. Bits!WellFormed(n) /\ Bits!Kind(n) \notin Bits!ToSet(Bits!SetKinds)
  BY BitsConstants
<1>2. n \in Seq(0 .. 255)
  BY <1>1 DEF Bits!WellFormed, Bits!Bytes
<1> QED
  BY ONLY <1>1, <1>2 DEF Nal

\* The units of a keyframe, and of another frame.
Keyed(u, s) ==
  /\ u \in Seq(Nal) /\ s \in ParameterSets /\ Len(u) > Len(s)
  /\ \A i \in 1 .. Len(s) : u[i] = s[i]
  /\ \A i \in 1 .. Len(u) : i > Len(s) => u[i] \in Slices

Plain(u) == u \in Seq(Nal) /\ Len(u) > 0 /\ \A i \in 1 .. Len(u) : u[i] \in Slices

\* Some parameter sets, one after the other.
Joined(s) == IF Len(s) = 2 THEN s[1] \o s[2] ELSE (s[1] \o s[2]) \o s[3]

IsSet(x) == x # <<>> /\ Bits!Kind(x) \in Bits!ToSet(Bits!SetKinds)

LEMMA SetsInIs ==
  ASSUME NEW u \in Seq(Nal)
  PROVE  /\ Bits!SetsIn(u)[0] = <<>>
         /\ \A n \in 1 .. Len(u) :
              Bits!SetsIn(u)[n] =
                IF IsSet(u[n]) THEN Bits!SetsIn(u)[n - 1] \o u[n] ELSE Bits!SetsIn(u)[n - 1]
<1> DEFINE By == Seq(0 .. 255)
           To(n, x) == IF IsSet(u[n]) THEN x \o u[n] ELSE x
           step == [n \in 1 .. Len(u) |-> [x \in By |-> To(n, x)]]
<1>1. Len(u) \in Nat /\ \A n \in 1 .. Len(u) : u[n] \in By
  <2>1. Len(u) \in Nat /\ \A n \in 1 .. Len(u) : u[n] \in Nal
    OBVIOUS
  <2> QED
    BY <2>1, NalIs
<1>2. step \in Steps(Len(u), By)
  <2>1. \A n \in 1 .. Len(u), x \in By : To(n, x) \in By
    <3> TAKE n \in 1 .. Len(u), x \in By
    <3>1. u[n] \in By
      BY <1>1
    <3>2. x \o u[n] \in By
      BY ONLY <3>1, x \in By, ConcatProperties
    <3> QED
      BY ONLY <3>2, x \in By
  <2> HIDE DEF To
  <2> QED
    BY ONLY <2>1 DEF Steps
<1>3. <<>> \in By
  OBVIOUS
<1>4. PICK h \in [0 .. Len(u) -> By] : Unfolds(h, Len(u), <<>>, step)
  BY <1>1, <1>2, <1>3, FoldExists
<1>5. h[0] = <<>> /\ \A n \in 1 .. Len(u) : h[n] = To(n, h[n - 1])
  <2>1. \A n \in 1 .. Len(u) : h[n - 1] \in By
    <3> TAKE n \in 1 .. Len(u)
    <3>1. n - 1 \in 0 .. Len(u)
      BY ONLY <1>1, n \in 1 .. Len(u)
    <3> QED
      BY ONLY <1>4, <3>1
  <2> HIDE DEF To
  <2>2. \A n \in 1 .. Len(u), x \in By : step[n][x] = To(n, x)
    OBVIOUS
  <2> HIDE DEF step
  <2> QED
    BY ONLY <1>4, <2>1, <2>2 DEF Unfolds
<1>6. h = [n \in 0 .. Len(u) |-> IF n = 0 THEN <<>>
             ELSE IF u[n] # <<>> /\ Bits!Kind(u[n]) \in Bits!ToSet(Bits!SetKinds)
             THEN h[n - 1] \o u[n] ELSE h[n - 1]]
  <2>1. \A n \in 0 .. Len(u) : n = 0 \/ n \in 1 .. Len(u)
    BY <1>1
  <2>2. \A n \in 0 .. Len(u) : h[n] = IF n = 0 THEN <<>> ELSE To(n, h[n - 1])
    <3> HIDE DEF To
    <3> QED
      BY ONLY <1>5, <2>1
  <2>3. h = [n \in 0 .. Len(u) |-> h[n]]
    BY ONLY <1>4
  <2> QED
    BY ONLY <2>2, <2>3 DEF IsSet
<1> DEFINE g == Bits!SetsIn(u)
<1>7. g = [n \in 0 .. Len(u) |-> IF n = 0 THEN <<>>
             ELSE IF u[n] # <<>> /\ Bits!Kind(u[n]) \in Bits!ToSet(Bits!SetKinds)
             THEN g[n - 1] \o u[n] ELSE g[n - 1]]
  BY <1>6 DEF Bits!SetsIn
<1> HIDE DEF g
<1>8. g[0] = <<>> /\ \A n \in 1 .. Len(u) : g[n] = IF IsSet(u[n]) THEN g[n - 1] \o u[n] ELSE g[n - 1]
  <2>1. 0 \in 0 .. Len(u) /\ \A n \in 1 .. Len(u) : n \in 0 .. Len(u) /\ n # 0
    BY ONLY <1>1
  <2> QED
    BY ONLY <1>7, <2>1 DEF IsSet
<1> QED
  BY ONLY <1>8 DEF g

\* What is neither does not add to them.
LEMMA NoMoreSets ==
  ASSUME NEW u \in Seq(Nal), NEW k \in 0 .. Len(u),
         \A i \in 1 .. Len(u) : i > k => u[i] \in Slices
  PROVE  Bits!SetsIn(u)[Len(u)] = Bits!SetsIn(u)[k]
<1> DEFINE g == Bits!SetsIn(u)
           P == {n \in 0 .. Len(u) : n >= k => g[n] = g[k]}
<1>1. \A n \in 1 .. Len(u) : n > k => g[n] = g[n - 1]
  <2> TAKE n \in 1 .. Len(u)
  <2> HAVE n > k
  <2>1. ~IsSet(u[n])
    BY SliceIs DEF IsSet
  <2> QED
    BY <2>1, SetsInIs
<1>2. Len(u) \in Nat
  OBVIOUS
<1> HIDE DEF g
<1>3. 0 \in P
  <2>1. 0 >= k => 0 = k
    BY <1>2
  <2>2. 0 \in 0 .. Len(u)
    BY <1>2
  <2> QED
    BY ONLY <2>1, <2>2
<1>4. ASSUME NEW n \in 1 .. Len(u), n - 1 \in P
      PROVE  n \in P
  <2>1. n \in 0 .. Len(u) /\ (n >= k => n = k \/ (n > k /\ n - 1 >= k))
    BY ONLY <1>2, n \in 1 .. Len(u), k \in 0 .. Len(u)
  <2> QED
    BY ONLY <1>1, <1>4, <2>1, n \in 1 .. Len(u)
<1> HIDE DEF P
<1>5. \A n \in 0 .. Len(u) : n \in P
  BY ONLY <1>2, <1>3, <1>4, UpTo
<1>6. Len(u) \in 0 .. Len(u) /\ Len(u) >= k
  BY ONLY <1>2, k \in 0 .. Len(u)
<1> QED
  BY ONLY <1>5, <1>6 DEF P, g

LEMMA NoSets ==
  ASSUME NEW u, Plain(u)
  PROVE  Bits!SetsIn(u)[Len(u)] = <<>>
<1>1. u \in Seq(Nal) /\ 0 \in 0 .. Len(u) /\ \A i \in 1 .. Len(u) : i > 0 => u[i] \in Slices
  BY DEF Plain
<1> QED
  BY <1>1, SetsInIs, NoMoreSets

LEMMA SetsJoined ==
  ASSUME NEW u, NEW s, Keyed(u, s)
  PROVE  Bits!SetsIn(u)[Len(u)] = Joined(s)
<1> DEFINE g == Bits!SetsIn(u)
<1>1. /\ u \in Seq(Nal) /\ s \in ParameterSets /\ Len(u) > Len(s)
      /\ \A i \in 1 .. Len(s) : u[i] = s[i]
      /\ \A i \in 1 .. Len(u) : i > Len(s) => u[i] \in Slices
  BY DEF Keyed
<1>2. /\ Len(s) \in 2 .. 3 /\ Len(u) \in Nat
      /\ \A i \in 1 .. Len(s) : s[i] # <<>> /\ Bits!Kind(s[i]) \in Bits!ToSet(Bits!SetKinds)
  <2>1. Len(u) \in Nat
    BY <1>1
  <2>2. /\ Len(s) = Len(Bits!SetKinds)
        /\ \A i \in 1 .. Len(s) : Bits!Kind(s[i]) = Bits!SetKinds[i] /\ s[i] # <<>>
    BY <1>1, SetIs
  <2> QED
    BY ONLY <2>1, <2>2, KindsAre
<1>3. s[1] \in Seq(0 .. 255) /\ <<>> \o s[1] = s[1]
  <2>0. s \in Seq(Nal)
    BY ONLY <1>1, SetIs
  <2>1. Len(s) \in 2 .. 3
    BY ONLY <1>2
  <2>1a. 1 \in 1 .. Len(s)
    BY ONLY <2>1
  <2>2. s[1] \in Nal
    BY ONLY <2>0, <2>1a, ElementOfSeq
  <2>3. s[1] \in Seq(0 .. 255)
    BY <2>2, NalIs
  <2> QED
    BY ONLY <2>3, ConcatEmptySeq
<1>4. g[0] = <<>> /\ \A n \in 1 .. Len(u) : g[n] = IF IsSet(u[n]) THEN g[n - 1] \o u[n] ELSE g[n - 1]
  BY <1>1, SetsInIs
<1>5. g[Len(u)] = g[Len(s)]
  <2>1. Len(s) \in 0 .. Len(u)
    BY ONLY <1>1, <1>2
  <2> QED
    BY ONLY <1>1, <2>1, NoMoreSets
<1> HIDE DEF g
<1>6. \A n \in 1 .. Len(s) : g[n] = g[n - 1] \o s[n]
  <2> TAKE n \in 1 .. Len(s)
  <2>1. n \in 1 .. Len(u)
    BY ONLY <1>1, <1>2, n \in 1 .. Len(s)
  <2>2. IsSet(u[n]) /\ u[n] = s[n]
    BY ONLY <1>1, <1>2, n \in 1 .. Len(s) DEF IsSet
  <2> QED
    BY ONLY <1>4, <2>1, <2>2
<1>7. g[1] = s[1] /\ g[2] = s[1] \o s[2]
  <2>1. 1 \in 1 .. Len(s) /\ 2 \in 1 .. Len(s) /\ 1 - 1 = 0 /\ 2 - 1 = 1
    BY ONLY <1>2
  <2>2. g[1] = g[0] \o s[1] /\ g[2] = g[1] \o s[2]
    BY ONLY <1>6, <2>1
  <2> QED
    BY ONLY <1>3, <1>4, <2>2
<1>8. CASE Len(s) = 2
  BY ONLY <1>5, <1>7, <1>8 DEF Joined, g
<1>9. CASE Len(s) = 3
  <2>1. 3 \in 1 .. Len(s) /\ 3 - 1 = 2 /\ 3 # 2
    BY ONLY <1>9
  <2>2. g[3] = g[2] \o s[3]
    BY ONLY <1>6, <2>1
  <2> QED
    BY ONLY <1>5, <1>7, <1>9, <2>1, <2>2 DEF Joined, g
<1> QED
  BY ONLY <1>2, <1>8, <1>9

LEMMA JoinedBytes ==
  ASSUME NEW s \in ParameterSets
  PROVE  Joined(s) \in Seq(0 .. 255) /\ Joined(s) # <<>>
<1>1. s \in Seq(Nal) /\ Len(s) \in 2 .. 3
  BY SetIs, KindsAre
<1>2. \A i \in 1 .. Len(s) : s[i] \in Seq(0 .. 255) /\ Len(s[i]) \in Nat \ {0}
  <2> TAKE i \in 1 .. Len(s)
  <2>1. s[i] \in Nal
    BY <1>1
  <2> QED
    BY <2>1, NalIs
<1>3. PICK a, b : a = s[1] /\ b = s[2]
  OBVIOUS
<1>4. a \in Seq(0 .. 255) /\ Len(a) \in Nat \ {0} /\ b \in Seq(0 .. 255) /\ Len(b) \in Nat \ {0}
  <2>1. 1 \in 1 .. Len(s) /\ 2 \in 1 .. Len(s)
    BY ONLY <1>1
  <2> QED
    BY ONLY <1>2, <1>3, <2>1
<1>5. a \o b \in Seq(0 .. 255) /\ Len(a \o b) = Len(a) + Len(b)
  BY ONLY <1>4, Joint
<1>6. Len(a \o b) \in Nat \ {0}
  BY ONLY <1>4, <1>5
<1>7. Len(<<>>) = 0
  OBVIOUS
<1>8. CASE Len(s) = 2
  BY ONLY <1>3, <1>5, <1>6, <1>7, <1>8 DEF Joined
<1>9. CASE Len(s) = 3
  <2>1. 3 \in 1 .. Len(s) /\ 3 # 2
    BY ONLY <1>9
  <2>2. PICK c : c = s[3]
    OBVIOUS
  <2>3. c \in Seq(0 .. 255) /\ Len(c) \in Nat \ {0}
    BY ONLY <1>2, <2>1, <2>2
  <2>4. (a \o b) \o c \in Seq(0 .. 255) /\ Len((a \o b) \o c) = Len(a \o b) + Len(c)
    BY ONLY <1>5, <2>3, Joint
  <2>5. Len((a \o b) \o c) # 0
    BY ONLY <1>6, <2>3, <2>4
  <2> QED
    BY ONLY <1>3, <1>7, <1>9, <2>1, <2>2, <2>4, <2>5 DEF Joined
<1> QED
  BY ONLY <1>1, <1>8, <1>9

\* The decoder of a frame finds its parameter sets, if it is a keyframe.
LEMMA SetsFound ==
  ASSUME NEW u, NEW f, AnnexB(data, u, f)
  PROVE  /\ \A s : Keyed(u, s) => Bits!ParameterSetsOf = Joined(s)
         /\ Plain(u) => Bits!ParameterSetsOf = <<>>
<1>1. ASSUME Len(u) > 0 PROVE Bits!ParameterSetsOf = Bits!SetsIn(u)[Len(u)]
  <2>1. Bits!AnnexbNalUnits = u
    BY <1>1, AnnexbNalUnitsAre
  <2> QED
    BY ONLY <2>1 DEF Bits!ParameterSetsOf
<1>2. ASSUME NEW s, Keyed(u, s) PROVE Len(u) > 0 /\ Bits!SetsIn(u)[Len(u)] = Joined(s)
  <2>1. u \in Seq(Nal) /\ s \in ParameterSets /\ Len(u) > Len(s)
    BY <1>2 DEF Keyed
  <2>2. Len(s) \in 2 .. 3 /\ Len(u) \in Nat
    <3>1. Len(s) = Len(Bits!SetKinds)
      BY ONLY <2>1, SetIs
    <3>2. Len(u) \in Nat
      BY ONLY <2>1, LenProperties
    <3> QED
      BY ONLY <3>1, <3>2, KindsAre
  <2>3. Len(u) > 0
    BY ONLY <2>1, <2>2
  <2> QED
    BY <1>2, <2>3, SetsJoined
<1>3. ASSUME Plain(u) PROVE Len(u) > 0 /\ Bits!SetsIn(u)[Len(u)] = <<>>
  BY <1>3, NoSets DEF Plain
<1> QED
  BY ONLY <1>1, <1>2, <1>3

\* The description made of a frame: of the keyframe's sets, and of others none.
LEMMA DescriptionMade ==
  ASSUME NEW u, NEW f, AnnexB(data, u, f)
  PROVE  /\ \A s : Keyed(u, s) => Bits!CreateFormatDescription = s
         /\ Plain(u) => Bits!CreateFormatDescription = <<>>
<1> DEFINE K == Bits!SetKinds
           limit == Len(data) - 4
           units == Bits!Units(limit)
           Of(k) == {n \in DOMAIN units : units[n] # <<>> /\ Bits!Kind(units[n]) = K[k]}
<1>1. Bits!CreateFormatDescription =
        IF Len(data) > 8 /\ \A k \in DOMAIN K : Of(k) # {}
        THEN [k \in DOMAIN K |-> units[Bits!Max(Of(k))]]
        ELSE <<>>
  BY DEF Bits!CreateFormatDescription, Bits!None
<1>2. u \in Seq(Nal) /\ Off(u, f) /\ Len(data) = f[Len(u)] /\ Len(u) \in Nat
  BY LenProperties DEF AnnexB
<1>3. ASSUME Len(u) > 0
      PROVE  units = u /\ DOMAIN u = 1 .. Len(u)
  <2>1. Len(u) - 1 \in 0 .. Len(u) /\ Len(u) \in 0 .. Len(u) /\ Len(u) - 1 < Len(u)
    BY ONLY <1>2, <1>3
  <2>2. f[Len(u) - 1] + 5 <= f[Len(u)]
    BY <1>2, <2>1, OffsetsGrow
  <2>3. f[Len(u) - 1] \in Nat /\ f[Len(u)] \in Nat
    BY <1>2, <2>1 DEF Off
  <2>4. limit \in Nat /\ f[Len(u) - 1] + 1 <= limit /\ limit <= Len(data)
    BY ONLY <1>2, <2>2, <2>3
  <2>5. Bits!Units(limit) = u
    <3> HIDE DEF limit
    <3> QED
      BY <1>3, <2>4, UnitsAre
  <2> QED
    BY <1>2, <2>5
<1>4. ASSUME NEW s, Keyed(u, s)
      PROVE  Bits!CreateFormatDescription = s
  <2>1. /\ s \in ParameterSets /\ Len(u) > Len(s)
        /\ \A i \in 1 .. Len(s) : u[i] = s[i]
        /\ \A i \in 1 .. Len(u) : i > Len(s) => u[i] \in Slices
    BY <1>4 DEF Keyed
  <2>2. /\ s \in Seq(Nal) /\ Len(s) = Len(K)
        /\ \A i \in 1 .. Len(s) : Bits!Kind(s[i]) = K[i] /\ s[i] # <<>>
    BY ONLY <2>1, SetIs
  <2>3. /\ Len(K) \in 2 .. 3 /\ DOMAIN K = 1 .. Len(K)
        /\ \A i, j \in 1 .. Len(K) : K[i] = K[j] => i = j
        /\ \A i \in 1 .. Len(K) : K[i] \in Bits!ToSet(K)
    BY ONLY KindsAre
  <2>4. units = u /\ DOMAIN u = 1 .. Len(u)
    <3>1. Len(u) > 0
      BY ONLY <1>2, <2>1, <2>2, <2>3
    <3> QED
      BY ONLY <1>3, <3>1
  <2> HIDE DEF units, K
  <2>5. Len(data) > 8
    <3>1. 0 \in 0 .. Len(u) /\ 1 \in 0 .. Len(u) /\ 2 \in 0 .. Len(u) /\ 0 < 1 /\ 1 < 2
      BY ONLY <1>2, <2>1, <2>2, <2>3
    <3>2. f[0] + 5 <= f[1] /\ f[1] + 5 <= f[2]
      BY ONLY <1>2, <3>1, OffsetsGrow
    <3>3. 2 < Len(u) /\ Len(u) \in 0 .. Len(u)
      BY ONLY <1>2, <2>1, <2>2, <2>3
    <3>4. f[2] + 5 <= f[Len(u)]
      BY ONLY <1>2, <3>1, <3>3, OffsetsGrow
    <3>5. f[0] = 0 /\ f[1] \in Nat /\ f[2] \in Nat /\ f[Len(u)] \in Nat
      BY ONLY <1>2, <3>1, <3>3 DEF Off
    <3> QED
      BY ONLY <1>2, <3>2, <3>4, <3>5
  <2>6. \A k \in 1 .. Len(K) : Of(k) = {k}
    <3> TAKE k \in 1 .. Len(K)
    <3>1. k \in 1 .. Len(u) /\ k \in 1 .. Len(s)
      BY ONLY <1>2, <2>1, <2>2, <2>3, k \in 1 .. Len(K)
    <3>2. u[k] = s[k] /\ u[k] # <<>> /\ Bits!Kind(u[k]) = K[k]
      BY ONLY <2>1, <2>2, <3>1
    <3>3. \A n \in 1 .. Len(u) : Bits!Kind(u[n]) = K[k] => n = k
      <4> TAKE n \in 1 .. Len(u)
      <4> HAVE Bits!Kind(u[n]) = K[k]
      <4>1. CASE n > Len(s)
        <5>1. u[n] \in Slices
          BY ONLY <2>1, <4>1, n \in 1 .. Len(u)
        <5>2. Bits!Kind(u[n]) \notin Bits!ToSet(K)
          BY ONLY <5>1, SliceIs DEF K
        <5> QED
          BY ONLY <2>3, <5>2, Bits!Kind(u[n]) = K[k], k \in 1 .. Len(K)
      <4>2. CASE ~(n > Len(s))
        <5>1. n \in 1 .. Len(s) /\ n \in 1 .. Len(K)
          BY ONLY <1>2, <2>2, <2>3, <4>2, n \in 1 .. Len(u)
        <5>2. u[n] = s[n] /\ Bits!Kind(s[n]) = K[n]
          BY ONLY <2>1, <2>2, <5>1
        <5>3. K[n] = K[k]
          BY ONLY <5>2, Bits!Kind(u[n]) = K[k]
        <5> QED
          BY ONLY <2>3, <5>1, <5>3, k \in 1 .. Len(K)
      <4> QED
        BY ONLY <4>1, <4>2
    <3> QED
      BY ONLY <2>4, <3>1, <3>2, <3>3
  <2>7. \A k \in 1 .. Len(K) : Bits!Max({k}) = k
    BY DEF Bits!Max
  <2> HIDE DEF Of
  <2>8. \A k \in 1 .. Len(K) : Of(k) # {} /\ units[Bits!Max(Of(k))] = s[k]
    <3> TAKE k \in 1 .. Len(K)
    <3>1. Bits!Max(Of(k)) = k /\ Of(k) # {}
      BY ONLY <2>6, <2>7, k \in 1 .. Len(K)
    <3>2. u[k] = s[k]
      BY ONLY <2>1, <2>2, k \in 1 .. Len(K)
    <3> QED
      BY ONLY <2>4, <3>1, <3>2
  <2>9. Bits!CreateFormatDescription = [k \in 1 .. Len(K) |-> units[Bits!Max(Of(k))]]
    BY ONLY <1>1, <2>3, <2>5, <2>8
  <2>10. Bits!CreateFormatDescription = [k \in 1 .. Len(K) |-> s[k]]
    BY ONLY <2>8, <2>9
  <2>11. s = [k \in 1 .. Len(s) |-> s[k]]
    BY ONLY <2>2
  <2> QED
    BY ONLY <2>2, <2>10, <2>11
<1>5. ASSUME Plain(u)
      PROVE  Bits!CreateFormatDescription = <<>>
  <2>1. Len(u) > 0 /\ \A i \in 1 .. Len(u) : u[i] \in Slices
    BY <1>5 DEF Plain
  <2>2. units = u /\ DOMAIN u = 1 .. Len(u)
    BY ONLY <1>3, <2>1
  <2>3. /\ Len(K) \in 2 .. 3 /\ DOMAIN K = 1 .. Len(K)
        /\ \A i \in 1 .. Len(K) : K[i] \in Bits!ToSet(K)
    BY ONLY KindsAre
  <2> HIDE DEF units
  <2>4. \A n \in 1 .. Len(u) : Bits!Kind(u[n]) \notin Bits!ToSet(K)
    BY ONLY <2>1, SliceIs
  <2> HIDE DEF K
  <2>5. 1 \in DOMAIN K /\ K[1] \in Bits!ToSet(K)
    BY ONLY <2>3
  <2>6. Of(1) = {}
    BY ONLY <2>2, <2>4, <2>5
  <2> HIDE DEF Of
  <2> QED
    BY ONLY <1>1, <2>5, <2>6
<1> QED
  BY ONLY <1>4, <1>5

\* What a sample's parts take, together.
LEMMA EncodedSum ==
  ASSUME NEW a \in Seq(Nal), NEW b \in Seq(Nal)
  PROVE  /\ Bits!Encoded(a) \in Nat /\ Bits!Encoded(b) \in Nat
         /\ Bits!Encoded(a \o b) = Bits!Encoded(a) + Bits!Encoded(b)
<1> DEFINE fa == Bits!EncodedUpTo(a)
           fb == Bits!EncodedUpTo(b)
           c == a \o b
           fc == Bits!EncodedUpTo(c)
<1>1. /\ Len(a) \in Nat /\ Len(b) \in Nat /\ c \in Seq(Nal) /\ Len(c) = Len(a) + Len(b)
      /\ \A i \in 1 .. Len(a) : c[i] = a[i]
      /\ \A i \in 1 .. Len(b) : c[Len(a) + i] = b[i]
  <2>1. Len(a) \in Nat /\ Len(b) \in Nat
    OBVIOUS
  <2>2. c \in Seq(Nal) /\ Len(c) = Len(a) + Len(b)
    BY ConcatProperties
  <2>3. \A i \in 1 .. Len(a) + Len(b) : c[i] = IF i <= Len(a) THEN a[i] ELSE b[i - Len(a)]
    BY ConcatProperties
  <2> HIDE DEF c
  <2>4. \A i \in 1 .. Len(a) : i \in 1 .. Len(a) + Len(b) /\ i <= Len(a)
    BY ONLY <2>1
  <2>5. \A i \in 1 .. Len(b) : /\ Len(a) + i \in 1 .. Len(a) + Len(b)
                              /\ ~(Len(a) + i <= Len(a)) /\ (Len(a) + i) - Len(a) = i
    BY ONLY <2>1
  <2>6. \A i \in 1 .. Len(b) : c[Len(a) + i] = b[i]
    <3> TAKE i \in 1 .. Len(b)
    <3>1. c[Len(a) + i] = b[(Len(a) + i) - Len(a)]
      BY ONLY <2>3, <2>5, i \in 1 .. Len(b)
    <3> QED
      BY ONLY <2>5, <3>1, i \in 1 .. Len(b)
  <2>7. \A i \in 1 .. Len(a) : c[i] = a[i]
    BY ONLY <2>3, <2>4
  <2> QED
    BY ONLY <2>1, <2>2, <2>6, <2>7
<1>2. Off(a, fa) /\ Off(b, fb) /\ Off(c, fc)
  BY ONLY <1>1, a \in Seq(Nal), b \in Seq(Nal), OffExists
<1>3. Bits!Encoded(a) = fa[Len(a)] /\ Bits!Encoded(b) = fb[Len(b)] /\ Bits!Encoded(c) = fc[Len(c)]
  BY DEF Bits!Encoded
<1> HIDE DEF c, fa, fb, fc
<1>4. /\ fa \in [0 .. Len(a) -> Nat] /\ fa[0] = 0
      /\ \A n \in 1 .. Len(a) : fa[n] = fa[n - 1] + 4 + Len(a[n])
      /\ fb \in [0 .. Len(b) -> Nat] /\ fb[0] = 0
      /\ \A n \in 1 .. Len(b) : fb[n] = fb[n - 1] + 4 + Len(b[n])
      /\ fc \in [0 .. Len(c) -> Nat] /\ fc[0] = 0
      /\ \A n \in 1 .. Len(c) : fc[n] = fc[n - 1] + 4 + Len(c[n])
  BY ONLY <1>2 DEF Off
<1> DEFINE P == {n \in 0 .. Len(a) : fc[n] = fa[n]}
           Q == {n \in 0 .. Len(b) : fc[Len(a) + n] = fa[Len(a)] + fb[n]}
<1>5. Len(a) \in P
  <2>1. 0 \in P
    BY ONLY <1>1, <1>4
  <2>2. ASSUME NEW n \in 1 .. Len(a), n - 1 \in P PROVE n \in P
    <3>1. n \in 1 .. Len(c) /\ n \in 0 .. Len(a)
      BY ONLY <1>1, n \in 1 .. Len(a)
    <3>2. fc[n] = fc[n - 1] + 4 + Len(c[n]) /\ fa[n] = fa[n - 1] + 4 + Len(a[n]) /\ c[n] = a[n]
      BY ONLY <1>1, <1>4, <3>1, n \in 1 .. Len(a)
    <3> QED
      BY ONLY <2>2, <3>1, <3>2
  <2> HIDE DEF P
  <2>3. \A n \in 0 .. Len(a) : n \in P
    BY ONLY <1>1, <2>1, <2>2, UpTo
  <2> QED
    BY ONLY <1>1, <2>3
<1>6. Len(b) \in Q
  <2>1. 0 \in Q
    <3>1. Len(a) + 0 = Len(a) /\ fa[Len(a)] \in Nat /\ 0 \in 0 .. Len(b)
      <4>1. Len(a) + 0 = Len(a) /\ Len(a) \in 0 .. Len(a) /\ 0 \in 0 .. Len(b)
        BY ONLY <1>1
      <4>2. fa[Len(a)] \in Nat
        BY ONLY <1>4, <4>1
      <4> QED
        BY ONLY <4>1, <4>2
    <3>2. fa[Len(a)] + 0 = fa[Len(a)]
      BY ONLY <3>1
    <3>3. fc[Len(a)] = fa[Len(a)]
      BY ONLY <1>5
    <3> QED
      BY ONLY <1>4, <3>1, <3>2, <3>3
  <2>2. ASSUME NEW n \in 1 .. Len(b), n - 1 \in Q PROVE n \in Q
    <3>1. Len(a) + n \in 1 .. Len(c) /\ n \in 0 .. Len(b) /\ (Len(a) + n) - 1 = Len(a) + (n - 1)
          /\ n - 1 \in 0 .. Len(b) /\ Len(a) \in 0 .. Len(a)
      BY ONLY <1>1, n \in 1 .. Len(b)
    <3>2. fc[Len(a) + n] = fc[(Len(a) + n) - 1] + 4 + Len(c[Len(a) + n])
      BY ONLY <1>4, <3>1
    <3>3. c[Len(a) + n] = b[n] /\ fb[n] = fb[n - 1] + 4 + Len(b[n])
      BY ONLY <1>1, <1>4, n \in 1 .. Len(b)
    <3>4. fc[Len(a) + (n - 1)] = fa[Len(a)] + fb[n - 1]
      BY ONLY <2>2
    <3>5. fc[Len(a) + n] = fa[Len(a)] + fb[n - 1] + 4 + Len(b[n])
      BY ONLY <3>1, <3>2, <3>3, <3>4
    <3>6. PICK l : l = Len(b[n])
      OBVIOUS
    <3>7. l \in Nat
      <4>1. b[n] \in Nal
        BY ONLY b \in Seq(Nal), n \in 1 .. Len(b), ElementOfSeq
      <4> QED
        BY ONLY <3>6, <4>1, NalIs
    <3>8. PICK x, y : x = fa[Len(a)] /\ y = fb[n - 1]
      OBVIOUS
    <3>9. x \in Nat /\ y \in Nat
      BY ONLY <1>4, <3>1, <3>8
    <3>10. x + y + 4 + l = x + (y + 4 + l)
      BY ONLY <3>7, <3>9
    <3>11. fc[Len(a) + n] = fa[Len(a)] + fb[n]
      BY ONLY <3>3, <3>5, <3>6, <3>8, <3>10
    <3> QED
      BY ONLY <3>1, <3>11
  <2> HIDE DEF Q
  <2>3. \A n \in 0 .. Len(b) : n \in Q
    BY ONLY <1>1, <2>1, <2>2, UpTo
  <2> QED
    BY ONLY <1>1, <2>3
<1>7. fa[Len(a)] \in Nat /\ fb[Len(b)] \in Nat
  <2>1. Len(a) \in 0 .. Len(a) /\ Len(b) \in 0 .. Len(b)
    BY ONLY <1>1
  <2> QED
    BY ONLY <1>4, <2>1
<1> QED
  BY ONLY <1>1, <1>3, <1>6, <1>7 DEF c

\* A frame's fragments, put together.
LEMMA FragmentsJoin ==
  ASSUME NEW key, NEW d \in Seq(0 .. 255), Len(d) > 0
  PROVE  LET fr == Bits!FragmentFrame(key, d)
         IN  /\ Len(fr) > 0 /\ Len(fr) \in Nat /\ fr[1].key = key
             /\ Bits!Assembled(fr)[Len(fr)] = d
<1> DEFINE By == Seq(0 .. 255)
           total == (Len(d) + ChunkSize - 1) \div ChunkSize
           fr == Bits!FragmentFrame(key, d)
           cut(i) == IF i = total THEN Len(d) ELSE i * ChunkSize
<1>1. ChunkSize \in Nat \ {0} /\ Len(d) \in Nat \ {0}
  <2>1. Len(d) \in Nat
    OBVIOUS
  <2> QED
    BY ONLY <2>1, Len(d) > 0, BitsConstants
<1>2. total \in Nat \ {0} /\ \A i \in 0 .. total - 1 : i * ChunkSize \in Nat /\ i * ChunkSize <= Len(d) - 1
  <2>1. PICK c, n : c = ChunkSize /\ n = Len(d)
    OBVIOUS
  <2>2. c \in Nat \ {0} /\ n \in Nat \ {0} /\ n + c - 1 \in Nat
    BY ONLY <1>1, <2>1
  <2>3. PICK t : t = (n + c - 1) \div c
    OBVIOUS
  <2>4. t \in Nat /\ (n + c - 1) % c \in 0 .. c - 1 /\ n + c - 1 = c * t + ((n + c - 1) % c)
    BY ONLY <2>2, <2>3, DivisionIs
  <2>5. c * t <= n + c - 1 /\ n <= c * t
    <3>1. PICK r, m : r = (n + c - 1) % c /\ m = c * t
      OBVIOUS
    <3>2. m \in Int
      BY ONLY <2>2, <2>4, <3>1
    <3> QED
      BY ONLY <2>2, <2>4, <3>1, <3>2
  <2>6. t # 0
    <3>1. c * 0 = 0
      BY ONLY <2>2
    <3> QED
      BY ONLY <2>2, <2>5, <3>1
  <2>7. ASSUME NEW i \in 0 .. t - 1 PROVE i * c \in Nat /\ i * c <= n - 1
    <3>1. i \in Int /\ t \in Int /\ i < t
      BY ONLY <2>4, <2>7
    <3>2. c * i + c <= c * t
      BY ONLY <2>2, <3>1, Multiples
    <3>3. i * c = c * i /\ c * i \in Nat /\ c * t \in Int
      BY ONLY <2>2, <2>4, <2>7
    <3> QED
      BY ONLY <2>2, <2>5, <3>2, <3>3
  <2>8. total = t
    BY ONLY <2>1, <2>3
  <2> HIDE DEF total
  <2> QED
    BY ONLY <2>1, <2>4, <2>6, <2>7, <2>8
<1>3. fr = [i \in 1 .. total |->
              [key |-> key, first |-> i = 1, last |-> i = total, total |-> total,
               chunk |-> SubSeq(d, (i - 1) * ChunkSize + 1, cut(i))]]
  BY DEF Bits!FragmentFrame
<1> HIDE DEF total, fr
<1>4. /\ \A i \in 1 .. total : fr[i].chunk = SubSeq(d, (i - 1) * ChunkSize + 1, cut(i))
      /\ fr[1].key = key
  <2>1. 1 \in 1 .. total
    BY ONLY <1>2
  <2> HIDE DEF cut
  <2> QED
    BY ONLY <1>3, <2>1
<1>5. Len(fr) = total
  <2>1. DOMAIN fr = 1 .. total /\ total \in Nat
    BY ONLY <1>2, <1>3
  <2>2. PICK g : g = fr
    OBVIOUS
  <2>3. fr = [i \in 1 .. total |-> fr[i]]
    BY ONLY <1>3
  <2>4. \A i \in 1 .. total : fr[i] \in {fr[j] : j \in 1 .. total}
    OBVIOUS
  <2>5. fr \in [1 .. total -> {fr[j] : j \in 1 .. total}]
    BY ONLY <2>3, <2>4
  <2>6. fr \in Seq({fr[j] : j \in 1 .. total})
    BY ONLY <2>1, <2>5, SeqDef
  <2>7. Len(fr) \in Nat /\ DOMAIN fr = 1 .. Len(fr)
    BY ONLY <2>6, LenProperties
  <2> QED
    BY ONLY <2>1, <2>7
\* Each fragment begins where the one before ends.
<1>6. ASSUME NEW i \in 1 .. total
      PROVE  /\ (i - 1) * ChunkSize \in 0 .. Len(d) /\ cut(i) \in (i - 1) * ChunkSize .. Len(d)
             /\ i # 1 => cut(i - 1) = (i - 1) * ChunkSize
             /\ (1 - 1) * ChunkSize = 0
  <2>1. i - 1 \in 0 .. total - 1 /\ (i # total => i \in 0 .. total - 1) /\ i - 1 # total /\ 1 - 1 = 0
    BY ONLY <1>2, i \in 1 .. total
  <2>2. PICK x, y, n : x = (i - 1) * ChunkSize /\ y = i * ChunkSize /\ n = Len(d)
    OBVIOUS
  <2>3. x \in Nat /\ x <= n - 1 /\ n \in Nat
    BY ONLY <1>1, <1>2, <2>1, <2>2
  <2>4. i # total => y \in Nat /\ y <= n - 1
    BY ONLY <1>2, <2>1, <2>2
  <2>5. x <= y
    <3>1. y = x + ChunkSize
      BY ONLY <1>1, <1>2, <2>2, i \in 1 .. total
    <3> QED
      BY ONLY <1>1, <2>3, <3>1
  <2>6. x \in 0 .. n /\ (IF i = total THEN n ELSE y) \in x .. n
    BY ONLY <2>3, <2>4, <2>5
  <2>7. 0 * ChunkSize = 0
    BY ONLY <1>1
  <2> QED
    BY ONLY <2>1, <2>2, <2>6, <2>7
<1>7. ASSUME NEW i \in 1 .. total
      PROVE  fr[i].chunk \in By
  <2>1. PICK b, e : b = (i - 1) * ChunkSize + 1 /\ e = cut(i)
    OBVIOUS
  <2>2. b \in 1 .. Len(d) + 1 /\ e \in 0 .. Len(d)
    BY ONLY <1>1, <1>6, <2>1
  <2>3. \A k \in b .. e : d[k] \in 0 .. 255
    <3> TAKE k \in b .. e
    <3>1. k \in 1 .. Len(d)
      BY ONLY <1>1, <2>2, k \in b .. e
    <3> QED
      BY ONLY <3>1, d \in By, ElementOfSeq
  <2>4. b \in Int /\ e \in Int
    BY ONLY <1>1, <2>2
  <2>5. SubSeq(d, b, e) \in By
    BY ONLY <2>3, <2>4, SubSeqProperties
  <2> HIDE DEF cut
  <2> QED
    BY ONLY <1>4, <2>1, <2>5
<1> DEFINE step == [n \in 1 .. total |-> [x \in By |-> x \o fr[n].chunk]]
<1>8. step \in Steps(total, By)
  <2>1. \A n \in 1 .. total, x \in By : x \o fr[n].chunk \in By
    BY ONLY <1>7, ConcatProperties
  <2> QED
    BY ONLY <2>1 DEF Steps
<1>9. PICK h \in [0 .. total -> By] : Unfolds(h, total, <<>>, step)
  <2>1. <<>> \in By /\ total \in Nat
    BY <1>2
  <2> QED
    BY <1>8, <2>1, FoldExists
<1>10. h[0] = <<>> /\ \A n \in 1 .. total : h[n] = h[n - 1] \o fr[n].chunk
  <2>1. \A n \in 1 .. total : h[n - 1] \in By
    <3> TAKE n \in 1 .. total
    <3>1. n - 1 \in 0 .. total
      BY ONLY <1>2, n \in 1 .. total
    <3> QED
      BY ONLY <1>9, <3>1
  <2>2. \A n \in 1 .. total, x \in By : step[n][x] = x \o fr[n].chunk
    OBVIOUS
  <2> HIDE DEF step
  <2> QED
    BY ONLY <1>9, <2>1, <2>2 DEF Unfolds
<1>11. h = [n \in 0 .. Len(fr) |-> IF n = 0 THEN <<>> ELSE h[n - 1] \o fr[n].chunk]
  <2>1. \A n \in 0 .. total : n = 0 \/ n \in 1 .. total
    BY <1>2
  <2>2. \A n \in 0 .. total : h[n] = IF n = 0 THEN <<>> ELSE h[n - 1] \o fr[n].chunk
    BY ONLY <1>10, <2>1
  <2>3. h = [n \in 0 .. total |-> h[n]]
    BY ONLY <1>9
  <2> QED
    BY ONLY <1>5, <2>2, <2>3
<1> DEFINE g == Bits!Assembled(fr)
<1>12. g = [n \in 0 .. Len(fr) |-> IF n = 0 THEN <<>> ELSE g[n - 1] \o fr[n].chunk]
  BY <1>11 DEF Bits!Assembled
<1> HIDE DEF g
<1>13. g[0] = <<>> /\ \A n \in 1 .. total : g[n] = g[n - 1] \o fr[n].chunk
  <2>1. 0 \in 0 .. total /\ \A n \in 1 .. total : n \in 0 .. total /\ n # 0
    BY ONLY <1>2
  <2> QED
    BY ONLY <1>5, <1>12, <2>1
<1> DEFINE P == {n \in 0 .. total : n # 0 => g[n] = SubSeq(d, 1, cut(n))}
<1>14. ASSUME NEW n \in 1 .. total, n - 1 \in P
       PROVE  n \in P
  <2>1. PICK a, e : a = (n - 1) * ChunkSize /\ e = cut(n)
    OBVIOUS
  <2>2. /\ a \in 0 .. Len(d) /\ e \in a .. Len(d) /\ (n # 1 => cut(n - 1) = a)
        /\ (1 - 1) * ChunkSize = 0
    BY ONLY <1>6, <2>1, n \in 1 .. total
  <2>3. g[n] = g[n - 1] \o SubSeq(d, a + 1, e)
    <3> HIDE DEF cut
    <3> QED
      BY ONLY <1>4, <1>13, <2>1, n \in 1 .. total
  <2>4. g[n - 1] = SubSeq(d, 1, a)
    <3>1. CASE n = 1
      <4>1. a = 0 /\ n - 1 = 0
        BY ONLY <2>1, <2>2, <3>1
      <4>2. SubSeq(d, 1, 0) = <<>>
        BY ONLY SubSeqEmpty
      <4> QED
        BY ONLY <1>13, <4>1, <4>2
    <3>2. CASE n # 1
      <4>1. n - 1 # 0
        BY ONLY <3>2, <1>2, n \in 1 .. total
      <4>2. cut(n - 1) = a
        BY ONLY <2>2, <3>2
      <4> HIDE DEF cut
      <4> QED
        BY ONLY <1>14, <4>1, <4>2
    <3> QED
      BY ONLY <3>1, <3>2
  <2>5. SubSeq(d, 1, a) \o SubSeq(d, a + 1, e) = SubSeq(d, 1, e)
    <3>1. 1 \in 1 .. Len(d) + 1 /\ a \in 1 - 1 .. Len(d)
      BY ONLY <1>1, <2>2
    <3> QED
      BY ONLY <2>2, <3>1, d \in By, ConcatAdjacentSubSeq
  <2>6. n \in 0 .. total
    BY ONLY <1>2, n \in 1 .. total
  <2> HIDE DEF cut
  <2> QED
    BY ONLY <2>1, <2>3, <2>4, <2>5, <2>6
<1>15. 0 \in P
  BY ONLY <1>2
<1> HIDE DEF P
<1>16. \A n \in 0 .. total : n \in P
  BY ONLY <1>2, <1>14, <1>15, UpTo
<1>17. g[total] = SubSeq(d, 1, Len(d))
  <2>1. total \in 0 .. total /\ total # 0 /\ cut(total) = Len(d)
    BY ONLY <1>2
  <2>2. g[total] = SubSeq(d, 1, cut(total))
    BY ONLY <1>16, <2>1 DEF P
  <2> QED
    BY ONLY <2>1, <2>2
<1>18. g[total] = d
  BY ONLY <1>17, d \in By, SubSeqFull
<1>19. Len(fr) > 0 /\ Len(fr) \in Nat
  BY ONLY <1>2, <1>5
<1>20. g = Bits!Assembled(fr) /\ fr = Bits!FragmentFrame(key, d)
  BY DEF g, fr
<1> QED
  BY ONLY <1>4, <1>5, <1>18, <1>19, <1>20

\* What the encoder can put out.
SampleIs ==
  /\ sample.key \in BOOLEAN /\ sample.sets = inForce
  /\ \E n \in 1 .. MaxSlices : sample.nals \in [1 .. n -> Slices]

Written(d) == AnnexB(d, Bits!NALs(sample), Bits!EncodedUpTo(Bits!NALs(sample)))

BitsInv ==
  /\ inForce \in ParameterSets /\ bitsFrames \in Nat
  /\ needKey \in BOOLEAN
  /\ bitsFrames = 0 => bitsAt = "encoding" /\ needKey = TRUE
  /\ bitsFrames > 0 => SampleIs
  /\ bitsAt \in {"encoding", "extracting", "fragmenting", "sending", "decoding"}
  \* The frame is all there, as bytes or as datagrams.
  /\ bitsAt \in {"fragmenting", "decoding"} => Written(data)
  /\ bitsAt = "sending" => \E d : Written(d) /\ datagrams = Bits!FragmentFrame(sample.key, d)
  /\ bitsAt = "decoding" => needKey = FALSE
  \* The session's description, and the bytes it is told from another by.
  /\ bitsSession # <<>> =>
       bitsSession \in ParameterSets /\ paramSets = Joined(bitsSession) /\ formatDesc = bitsSession
  \* A frame that is no keyframe is for the session there is.
  /\ needKey = FALSE /\ (bitsAt = "encoding" \/ sample.key = FALSE) => bitsSession = inForce
  /\ bitsAt = "encoding" /\ needKey = FALSE =>
       handed.nals = Bits!NALs(sample) /\ handed.desc = inForce

\* The units written are those of a keyframe or of another frame, and fit.
LEMMA SampleWritten ==
  ASSUME SampleIs, inForce \in ParameterSets
  PROVE  LET u == Bits!NALs(sample)
             needed == Bits!EncodedLength(sample)
         IN  /\ u \in Seq(Nal) /\ Len(u) > 0
             /\ sample.key = TRUE => Keyed(u, inForce)
             /\ sample.key = FALSE => Plain(u)
             /\ needed \in Nat /\ Bits!Encoded(u) <= needed
<1> DEFINE v == sample.nals
           s == inForce
<1>1. PICK n \in 1 .. MaxSlices : v \in [1 .. n -> Slices]
  BY DEF SampleIs
<1>2. n \in Nat \ {0}
  BY BitsConstants
<1>3. v \in Seq(Nal) /\ Len(v) = n /\ \A i \in 1 .. n : v[i] \in Slices
  <2>1. \A i \in 1 .. n : v[i] \in Nal
    BY <1>1, SliceIs
  <2>2. v \in [1 .. n -> Nal]
    BY <1>1, <2>1
  <2> QED
    BY <1>1, <1>2, <2>2
<1>4. s \in Seq(Nal) /\ Len(s) \in Nat
  BY SetIs, LenProperties
<1>5. Bits!NALs(sample) = (IF sample.key THEN s ELSE <<>>) \o v /\ sample.sets = s
  BY DEF Bits!NALs, SampleIs
<1>6. /\ Bits!Encoded(s) \in Nat /\ Bits!Encoded(v) \in Nat
      /\ Bits!Encoded(s \o v) = Bits!Encoded(s) + Bits!Encoded(v)
  BY ONLY <1>3, <1>4, EncodedSum
<1>7. Bits!EncodedLength(sample) = Bits!Encoded(s) + Bits!Encoded(v)
  BY <1>5 DEF Bits!EncodedLength
<1>8. Bits!EncodedLength(sample) \in Nat /\ Bits!Encoded(s \o v) <= Bits!EncodedLength(sample)
      /\ Bits!Encoded(v) <= Bits!EncodedLength(sample)
  <2>1. PICK x, y : x = Bits!Encoded(s) /\ y = Bits!Encoded(v)
    OBVIOUS
  <2>2. x \in Nat /\ y \in Nat
    BY ONLY <1>6, <2>1
  <2>3. x + y \in Nat /\ x + y <= x + y /\ y <= x + y
    BY ONLY <2>2
  <2> QED
    BY ONLY <1>6, <1>7, <2>1, <2>3
<1>9. CASE sample.key = TRUE
  <2> DEFINE u == s \o v
  <2>1. u \in Seq(Nal) /\ Len(u) = Len(s) + Len(v)
    BY ONLY <1>3, <1>4, ConcatProperties
  <2>2. \A i \in 1 .. Len(s) + Len(v) : u[i] = IF i <= Len(s) THEN s[i] ELSE v[i - Len(s)]
    BY ONLY <1>3, <1>4, ConcatProperties
  <2>3. Bits!NALs(sample) = u
    BY ONLY <1>5, <1>9
  <2> HIDE DEF u
  <2>4. \A i \in 1 .. Len(s) : i \in 1 .. Len(s) + Len(v) /\ i <= Len(s)
    BY ONLY <1>2, <1>3, <1>4
  <2>5. \A i \in 1 .. Len(s) : u[i] = s[i]
    BY ONLY <2>2, <2>4
  <2>6. ASSUME NEW i \in 1 .. Len(u), i > Len(s) PROVE u[i] \in Slices
    <3>1. i - Len(s) \in 1 .. n /\ i \in 1 .. Len(s) + Len(v) /\ ~(i <= Len(s))
      BY ONLY <1>2, <1>3, <1>4, <2>1, <2>6
    <3> QED
      BY ONLY <1>3, <2>2, <3>1
  <2>7. Len(u) > Len(s) /\ Len(u) > 0
    BY ONLY <1>2, <1>3, <1>4, <2>1
  <2>8. Keyed(u, s)
    BY ONLY <2>1, <2>5, <2>6, <2>7, inForce \in ParameterSets DEF Keyed
  <2> QED
    BY ONLY <1>8, <1>9, <2>1, <2>3, <2>7, <2>8 DEF u
<1>10. CASE sample.key = FALSE
  <2>1. Bits!NALs(sample) = v
    BY ONLY <1>3, <1>5, <1>10, ConcatEmptySeq
  <2>2. Len(v) > 0
    BY ONLY <1>2, <1>3
  <2>3. Plain(v)
    BY ONLY <1>3, <2>2 DEF Plain
  <2> QED
    BY ONLY <1>3, <1>8, <1>10, <2>1, <2>2, <2>3
<1> QED
  BY <1>9, <1>10 DEF SampleIs

LEMMA BitsInit ==
  ASSUME Init
  PROVE  BitsInv
<1>1. Bits!Init
  BY DEF Init
<1>2. /\ bitsFrames = 0 /\ inForce \in ParameterSets /\ needKey = TRUE
      /\ bitsSession = <<>> /\ bitsAt = "encoding"
  BY <1>1 DEF Bits!Init, Bits!None
<1> QED
  BY <1>2 DEF BitsInv

\* Written bytes are a frame's, so they are not none.
LEMMA WrittenIs ==
  ASSUME NEW d, Written(d), SampleIs, inForce \in ParameterSets
  PROVE  d \in Seq(0 .. 255) /\ Len(d) > 0
<1> DEFINE u == Bits!NALs(sample)
           f == Bits!EncodedUpTo(u)
<1>1. u \in Seq(Nal) /\ Len(u) > 0
  BY SampleWritten
<1> HIDE DEF u
<1>2. Off(u, f) /\ d \in Seq(0 .. 255) /\ Len(d) = f[Len(u)]
  BY DEF Written, AnnexB, u
<1> HIDE DEF f
<1>3. Len(u) \in Nat
  BY ONLY <1>1, LenProperties
<1>4. 0 \in 0 .. Len(u) /\ Len(u) \in 0 .. Len(u) /\ 0 < Len(u)
  BY ONLY <1>1, <1>3
<1>5. f[0] + 5 <= f[Len(u)] /\ f[0] = 0
  BY ONLY <1>1, <1>2, <1>4, OffsetsGrow DEF Off
<1>6. f[Len(u)] \in Nat
  BY ONLY <1>2, <1>4 DEF Off
<1> QED
  BY ONLY <1>2, <1>5, <1>6

LEMMA EncodeKeeps ==
  ASSUME BitsInv, Bits!Encode
  PROVE  BitsInv'
<1>1. /\ bitsAt = "encoding" /\ bitsFrames' = bitsFrames + 1 /\ inForce' \in ParameterSets
      /\ bitsAt' = "extracting"
      /\ needKey' = needKey /\ bitsSession' = bitsSession /\ paramSets' = paramSets
      /\ formatDesc' = formatDesc /\ handed' = handed
  BY DEF Bits!Encode, Bits!viewer
<1>2. PICK key \in BOOLEAN, nals \in UNION {[1 .. n -> Slices] : n \in 1 .. MaxSlices} :
        /\ key \/ (bitsFrames > 0 /\ inForce' = inForce)
        /\ sample' = [key |-> key, sets |-> inForce', nals |-> nals]
  BY DEF Bits!Encode
<1>3. \E n \in 1 .. MaxSlices : nals \in [1 .. n -> Slices]
  OBVIOUS
<1>4. sample'.key = key /\ sample'.sets = inForce' /\ sample'.nals = nals
  BY <1>2
<1>5. SampleIs'
  BY ONLY <1>3, <1>4, key \in BOOLEAN DEF SampleIs
<1>6. bitsFrames \in Nat /\ bitsFrames + 1 \in Nat /\ bitsFrames + 1 # 0
  BY DEF BitsInv
<1>7. needKey \in BOOLEAN
      /\ (bitsSession # <<>> =>
            bitsSession \in ParameterSets /\ paramSets = Joined(bitsSession) /\ formatDesc = bitsSession)
      /\ (needKey = FALSE => bitsSession = inForce)
  BY <1>1 DEF BitsInv
<1>8. needKey' = FALSE /\ sample'.key = FALSE => bitsSession' = inForce'
  BY ONLY <1>1, <1>2, <1>4, <1>7
<1>9. bitsFrames' \in Nat /\ bitsFrames' # 0
  BY ONLY <1>1, <1>6
<1>10. Joined(bitsSession)' = Joined(bitsSession)
  BY ONLY <1>1 DEF Joined
<1> QED
  BY ONLY <1>1, <1>5, <1>7, <1>8, <1>9, <1>10 DEF BitsInv

LEMMA ExtractKeeps ==
  ASSUME BitsInv, Bits!Extract
  PROVE  BitsInv'
<1> DEFINE u == Bits!NALs(sample)
           needed == Bits!EncodedLength(sample)
           cap == IF needed < MinCapacity THEN MinCapacity ELSE needed
<1>1. /\ bitsAt = "extracting" /\ data' = Bits!ExtractNALs(u, cap) /\ bitsAt' = "fragmenting"
      /\ bitsFrames' = bitsFrames /\ inForce' = inForce /\ sample' = sample
      /\ needKey' = needKey /\ bitsSession' = bitsSession /\ paramSets' = paramSets
      /\ formatDesc' = formatDesc /\ handed' = handed
  BY DEF Bits!Extract, Bits!viewer
<1>2. SampleIs /\ inForce \in ParameterSets
  BY <1>1 DEF BitsInv
<1>3. u \in Seq(Nal) /\ needed \in Nat /\ Bits!Encoded(u) <= needed
  BY <1>2, SampleWritten
<1>4. cap \in Nat /\ Bits!Encoded(u) <= cap
  <2>1. Bits!Encoded(u) \in Nat
    <3>1. Off(u, Bits!EncodedUpTo(u)) /\ Len(u) \in Nat
      BY <1>3, OffExists, LenProperties
    <3>2. Len(u) \in 0 .. Len(u)
      BY ONLY <3>1
    <3> QED
      BY ONLY <3>1, <3>2 DEF Off, Bits!Encoded
  <2> HIDE DEF u, needed
  <2> QED
    BY <1>3, <2>1, BitsConstants
<1> HIDE DEF cap, needed
<1>5. AnnexB(Bits!ExtractNALs(u, cap), u, Bits!EncodedUpTo(u))
  <2>1. Off(u, Bits!EncodedUpTo(u))
    BY <1>3, OffExists
  <2>2. Bits!EncodedUpTo(u)[Len(u)] <= cap
    BY <1>4 DEF Bits!Encoded
  <2> HIDE DEF u
  <2> QED
    BY ONLY <1>3, <1>4, <2>1, <2>2, ExtractWrites
<1>6. Written(data)'
  BY <1>1, <1>5 DEF Written
<1>7. SampleIs' = SampleIs /\ Joined(bitsSession)' = Joined(bitsSession)
      /\ Bits!NALs(sample)' = Bits!NALs(sample)
  BY <1>1 DEF SampleIs, Joined, Bits!NALs
<1> HIDE DEF u
<1> QED
  BY <1>1, <1>6, <1>7 DEF BitsInv

LEMMA FragmentKeeps ==
  ASSUME BitsInv, Bits!Fragment
  PROVE  BitsInv'
<1>1. /\ bitsAt = "fragmenting" /\ bitsAt' = "sending"
      /\ datagrams' = Bits!FragmentFrame(sample.key, data)
      /\ bitsFrames' = bitsFrames /\ inForce' = inForce /\ sample' = sample
      /\ needKey' = needKey /\ bitsSession' = bitsSession /\ paramSets' = paramSets
      /\ formatDesc' = formatDesc /\ handed' = handed
  BY DEF Bits!Fragment, Bits!viewer
<1>2. Written(data)
  BY <1>1 DEF BitsInv
<1>3. \E d : Written(d)' /\ datagrams' = Bits!FragmentFrame(sample.key, d)'
  <2>1. PICK d : d = data
    OBVIOUS
  <2>2. Written(d)' /\ datagrams' = Bits!FragmentFrame(sample.key, d)'
    BY <1>1, <1>2, <2>1 DEF Written, Bits!NALs, Bits!FragmentFrame
  <2> QED
    BY <2>2
<1>4. SampleIs' = SampleIs /\ Joined(bitsSession)' = Joined(bitsSession)
      /\ Bits!NALs(sample)' = Bits!NALs(sample)
  BY <1>1 DEF SampleIs, Joined, Bits!NALs
<1> QED
  BY <1>1, <1>3, <1>4 DEF BitsInv

LEMMA ArriveInSession ==
  ASSUME BitsInv, Bits!Arrive
  PROVE  BitsInv'
<1>1. /\ bitsAt = "sending" /\ bitsAt' = "decoding" /\ needKey' = FALSE
      /\ datagrams[1].key \/ ~needKey
      /\ data' = Bits!Assembled(datagrams)[Len(datagrams)]
      /\ bitsFrames' = bitsFrames /\ inForce' = inForce /\ sample' = sample
      /\ bitsSession' = bitsSession /\ paramSets' = paramSets
      /\ formatDesc' = formatDesc /\ handed' = handed
  BY DEF Bits!Arrive
<1>2. SampleIs /\ inForce \in ParameterSets /\ needKey \in BOOLEAN
      /\ (needKey = FALSE /\ sample.key = FALSE => bitsSession = inForce)
  BY <1>1 DEF BitsInv
<1>3. PICK d : Written(d) /\ datagrams = Bits!FragmentFrame(sample.key, d)
  BY <1>1 DEF BitsInv
<1>4. d \in Seq(0 .. 255) /\ Len(d) > 0
  BY <1>2, <1>3, WrittenIs
<1>5. datagrams[1].key = sample.key /\ Bits!Assembled(datagrams)[Len(datagrams)] = d
  BY <1>3, <1>4, FragmentsJoin
<1>6. Written(data)'
  BY <1>1, <1>3, <1>5 DEF Written, Bits!NALs
<1>7. needKey' = FALSE /\ sample'.key = FALSE => bitsSession' = inForce'
  BY ONLY <1>1, <1>2, <1>5
<1>8. SampleIs' = SampleIs /\ Joined(bitsSession)' = Joined(bitsSession)
  BY ONLY <1>1 DEF SampleIs, Joined
<1>9. bitsFrames' = 0 => FALSE
  BY <1>1 DEF BitsInv
<1>10. /\ bitsFrames \in Nat /\ FALSE \in BOOLEAN
       /\ bitsSession # <<>> =>
            bitsSession \in ParameterSets /\ paramSets = Joined(bitsSession) /\ formatDesc = bitsSession
  BY DEF BitsInv
<1> QED
  BY ONLY <1>1, <1>2, <1>6, <1>7, <1>8, <1>9, <1>10 DEF BitsInv

LEMMA LostKeeps ==
  ASSUME BitsInv, Bits!Lost
  PROVE  BitsInv'
<1>1. /\ bitsAt = "sending" /\ bitsAt' = "encoding" /\ needKey' = TRUE
      /\ bitsFrames' = bitsFrames /\ inForce' = inForce /\ sample' = sample
      /\ bitsSession' = bitsSession /\ paramSets' = paramSets
      /\ formatDesc' = formatDesc /\ handed' = handed
  BY DEF Bits!Lost
<1>2. SampleIs' = SampleIs /\ Joined(bitsSession)' = Joined(bitsSession)
  BY ONLY <1>1 DEF SampleIs, Joined
<1> QED
  BY <1>1, <1>2 DEF BitsInv

\* Parameter sets are told apart by their bytes.
Distinct == \A s, t \in ParameterSets : Joined(s) = Joined(t) => s = t

LEMMA DecodePacketKeeps ==
  ASSUME BitsInv, Bits!DecodePacket, Distinct
  PROVE  BitsInv'
<1> DEFINE u == Bits!NALs(sample)
           f == Bits!EncodedUpTo(u)
           sets == Bits!ParameterSetsOf
           desc == Bits!CreateFormatDescription
           rebuilt == Bits!Rebuilds
           was == IF rebuilt THEN <<>> ELSE formatDesc
           kept == IF desc # <<>> THEN desc ELSE was
<1>1. /\ bitsAt = "decoding" /\ bitsAt' = "encoding"
      /\ paramSets' = IF sets # <<>> THEN sets ELSE paramSets
      /\ bitsSession' \in IF rebuilt THEN {<<>>, desc} ELSE {bitsSession}
      /\ rebuilt <=> (bitsSession = <<>> \/ (sets # <<>> /\ sets # paramSets))
      /\ bitsSession' = <<>> => needKey' = TRUE
      /\ bitsSession' # <<>> =>
           /\ formatDesc' = kept /\ needKey' = FALSE
           /\ handed' = IF kept = <<>> THEN handed
                        ELSE [desc |-> kept, nals |-> Bits!Units(Len(data))]
      /\ bitsFrames' = bitsFrames /\ inForce' = inForce /\ sample' = sample
  BY DEF Bits!DecodePacket, Bits!Rebuilds, Bits!CreateFromNAL, Bits!GiveFrame, Bits!None
<1>2. /\ SampleIs /\ inForce \in ParameterSets /\ needKey = FALSE /\ bitsFrames \in Nat
      /\ bitsFrames # 0 /\ Written(data)
      /\ (sample.key = FALSE => bitsSession = inForce)
      /\ bitsSession # <<>> =>
           bitsSession \in ParameterSets /\ paramSets = Joined(bitsSession) /\ formatDesc = bitsSession
  BY <1>1 DEF BitsInv
<1>3. /\ u \in Seq(Nal) /\ Len(u) > 0
      /\ sample.key = TRUE => Keyed(u, inForce)
      /\ sample.key = FALSE => Plain(u)
  BY <1>2, SampleWritten
<1>4. AnnexB(data, u, f)
  BY <1>2 DEF Written
<1>5. Bits!Units(Len(data)) = u
  <2>1. Off(u, f) /\ Len(data) = f[Len(u)] /\ Len(u) \in Nat
    BY <1>3, <1>4, LenProperties DEF AnnexB
  <2> HIDE DEF u, f
  <2>2. Len(u) - 1 \in 0 .. Len(u) /\ Len(u) \in 0 .. Len(u) /\ Len(u) - 1 < Len(u)
    BY ONLY <1>3, <2>1
  <2>3. f[Len(u) - 1] + 5 <= f[Len(u)]
    BY ONLY <1>3, <2>1, <2>2, OffsetsGrow
  <2>4. f[Len(u) - 1] \in Nat /\ f[Len(u)] \in Nat
    BY ONLY <2>1, <2>2 DEF Off
  <2>5. Len(data) \in Nat /\ f[Len(u) - 1] + 1 <= Len(data) /\ Len(data) <= Len(data)
    BY ONLY <2>1, <2>3, <2>4
  <2> QED
    BY ONLY <1>3, <1>4, <2>5, UnitsAre
<1>6. /\ sample.key = TRUE => sets = Joined(inForce) /\ desc = inForce
      /\ sample.key = FALSE => sets = <<>> /\ desc = <<>>
  <2> HIDE DEF u, f, sets, desc
  <2> QED
    BY ONLY <1>3, <1>4, SetsFound, DescriptionMade DEF sets, desc
<1>7. inForce # <<>> /\ Joined(inForce) # <<>>
  <2>1. Len(inForce) \in 2 .. 3 /\ Joined(inForce) # <<>>
    BY ONLY <1>2, SetIs, KindsAre, JoinedBytes
  <2>2. Len(<<>>) = 0
    OBVIOUS
  <2> QED
    BY ONLY <2>1, <2>2
<1>8. sample.key \in BOOLEAN
  BY <1>2 DEF SampleIs
<1> HIDE DEF u, f, sets, desc, rebuilt
\* The session that goes on, or is made, is for the sets in force.
<1>9. /\ bitsSession' # <<>> => bitsSession' = inForce /\ kept = inForce
      /\ bitsSession' # <<>> => paramSets' = Joined(inForce)
  <2>1. CASE sample.key = TRUE
    <3>1. sets = Joined(inForce) /\ desc = inForce /\ kept = inForce /\ paramSets' = Joined(inForce)
      BY ONLY <1>1, <1>6, <1>7, <2>1
    <3>2. CASE rebuilt
      BY ONLY <1>1, <3>1, <3>2
    <3>3. CASE ~rebuilt
      <4>1. bitsSession # <<>> /\ sets = paramSets /\ bitsSession' = bitsSession
        BY ONLY <1>1, <1>7, <3>1, <3>3
      <4>2. bitsSession \in ParameterSets /\ Joined(bitsSession) = Joined(inForce)
        BY ONLY <1>2, <3>1, <4>1
      <4>3. bitsSession = inForce
        BY ONLY <1>2, <4>2, Distinct DEF Distinct
      <4> QED
        BY ONLY <3>1, <4>1, <4>3
    <3> QED
      BY ONLY <3>1, <3>2, <3>3
  <2>2. CASE sample.key = FALSE
    <3>1. sets = <<>> /\ desc = <<>> /\ bitsSession = inForce /\ paramSets' = paramSets
      BY ONLY <1>1, <1>2, <1>6, <2>2
    <3>2. ~rebuilt /\ formatDesc = inForce /\ paramSets = Joined(inForce)
      BY ONLY <1>1, <1>2, <1>7, <3>1
    <3> QED
      BY ONLY <1>1, <3>1, <3>2
  <2> QED
    BY ONLY <1>8, <2>1, <2>2
<1> HIDE DEF kept
<1>10. needKey' = FALSE => bitsSession' # <<>>
  BY ONLY <1>1
<1>11. bitsSession' # <<>> =>
         /\ needKey' = FALSE /\ formatDesc' = inForce
         /\ handed'.nals = u /\ handed'.desc = inForce
  BY ONLY <1>1, <1>5, <1>7, <1>9
<1>12. needKey' \in BOOLEAN
  BY ONLY <1>1
<1>13. SampleIs' = SampleIs /\ Bits!NALs(sample)' = u
       /\ (bitsSession' = inForce => Joined(bitsSession)' = Joined(inForce))
  BY ONLY <1>1 DEF SampleIs, Joined, Bits!NALs, u
<1> QED
  BY ONLY <1>1, <1>2, <1>9, <1>10, <1>11, <1>12, <1>13 DEF BitsInv

LEMMA BitsStep ==
  ASSUME BitsInv, [Next]_vars, Distinct
  PROVE  BitsInv'
<1>1. CASE UNCHANGED bits
  <2>1. UNCHANGED <<bitsFrames, inForce, sample, data, datagrams, needKey, paramSets,
                    bitsSession, formatDesc, handed, bitsAt>>
    BY <1>1 DEF bits
  <2>2. /\ SampleIs' = SampleIs /\ Joined(bitsSession)' = Joined(bitsSession)
        /\ Bits!NALs(sample)' = Bits!NALs(sample)
    BY ONLY <2>1 DEF SampleIs, Joined, Bits!NALs
  <2>3. Written(data) => Written(data)'
    BY ONLY <2>1 DEF Written, Bits!NALs
  <2>4. ASSUME NEW d, Written(d), datagrams = Bits!FragmentFrame(sample.key, d)
        PROVE  Written(d)' /\ datagrams' = Bits!FragmentFrame(sample.key, d)'
    BY ONLY <2>1, <2>4 DEF Written, Bits!NALs, Bits!FragmentFrame
  <2> QED
    BY ONLY <2>1, <2>2, <2>3, <2>4, BitsInv DEF BitsInv
<1>2. CASE Bits!Next
  <2>1. CASE Bits!Encode
    BY <2>1, EncodeKeeps
  <2>2. CASE Bits!Extract
    BY <2>2, ExtractKeeps
  <2>3. CASE Bits!Fragment
    BY <2>3, FragmentKeeps
  <2>4. CASE Bits!Arrive
    BY <2>4, ArriveInSession
  <2>5. CASE Bits!Lost
    BY <2>5, LostKeeps
  <2>6. CASE Bits!DecodePacket
    BY <2>6, DecodePacketKeeps
  <2> QED
    BY <1>2, <2>1, <2>2, <2>3, <2>4, <2>5, <2>6 DEF Bits!Next
<1>3. UNCHANGED bits \/ Bits!Next
  BY DEF Next, vars
<1> QED
  BY <1>1, <1>2, <1>3

LEMMA BitsWhole ==
  ASSUME BitsInv
  PROVE  Bits!BitstreamWhole
<1> SUFFICES ASSUME bitsAt = "encoding", bitsFrames > 0, ~needKey
             PROVE  /\ handed.nals = (IF sample.key THEN sample.sets ELSE <<>>) \o sample.nals
                    /\ handed.desc = inForce /\ bitsSession = inForce
  BY DEF Bits!BitstreamWhole
<1>1. needKey = FALSE
  BY DEF BitsInv
<1>2. handed.nals = Bits!NALs(sample) /\ handed.desc = inForce /\ bitsSession = inForce
  BY <1>1 DEF BitsInv
<1> QED
  BY ONLY <1>2 DEF Bits!NALs

\* The NAL units and parameter sets that VideoToolbox on the host puts out are
\* those that VideoToolbox on the viewer is given, whatever their bytes, the size
\* of a datagram and the capacity of the buffers; provided that no two groups of
\* parameter sets have the same bytes, by which the viewer's decoder tells them
\* apart.
THEOREM BytesAreWhole == Distinct => (Spec => []Bits!BitstreamWhole)
<1> SUFFICES ASSUME Distinct PROVE Spec => []Bits!BitstreamWhole
  OBVIOUS
<1>1. Init => BitsInv
  BY BitsInit
<1>2. BitsInv /\ [Next]_vars => BitsInv'
  BY BitsStep
<1>3. BitsInv => Bits!BitstreamWhole
  BY BitsWhole
<1> QED
  BY <1>1, <1>2, <1>3, PTL DEF Spec

\* What comes out of many pieces is whole, on the viewer's Macintosh as in the buffer of
\* the older protocol: frames are put together right from datagrams however they come,
\* and what VideoToolbox on the host encoded is what VideoToolbox on the viewer is given;
\* if groups of parameter sets differ in their bytes.
THEOREM BitstreamIsWhole == Distinct => (Spec => []BitstreamWhole)
<1>1. Distinct => (Spec => []Bits!BitstreamWhole)
  BY BytesAreWhole
<1>2. Spec => []Reassembly!FramesWhole
  BY ReassembledWhole
<1> QED
  BY <1>1, <1>2, PTL DEF BitstreamWhole

-----------------------------------------------------------------------------
(* Reassembly: the types of its variables.                                 *)

LEMMA WatermarkKept ==
  ASSUME ReassemblyInv, watermark \in Frames \cup {-1}, [Reassembly!Next]_reassembly
  PROVE  watermark' \in Frames \cup {-1}
<1>1. DOMAIN pending \in SUBSET Nat /\ DOMAIN pending \in SUBSET Frames
  BY ReassemblyConstants DEF ReassemblyInv
<1>2. \A mark, f : Reassembly!Retired(mark, f) \in {mark, f}
  BY DEF Reassembly!Retired
<1>3. ASSUME NEW h \in Reassembly!Header PROVE Reassembly!Made(h, watermark) \in Frames \cup {-1}
  <2>1. CASE Reassembly!Full(h)
    <3>1. Cardinality(DOMAIN pending) >= ReassemblyCapacity
      BY <2>1, ReassemblyConstants DEF Reassembly!Full
    <3>2. DOMAIN pending # {}
      BY <3>1, FS_EmptySet, ReassemblyConstants
    <3>3. PICK f \in DOMAIN pending : Reassembly!Oldest = {f}
      BY <3>2, OldestIs
    <3>4. (CHOOSE g \in Reassembly!Oldest : TRUE) = f
      BY <3>3
    <3>5. Reassembly!Made(h, watermark) = Reassembly!Retired(watermark, f)
      BY <2>1, <3>4 DEF Reassembly!Made
    <3>6. Reassembly!Made(h, watermark) \in {watermark, f}
      BY <1>2, <3>5
    <3> QED
      BY ONLY <1>1, <3>6, watermark \in Frames \cup {-1}
  <2>2. CASE ~Reassembly!Full(h)
    BY <2>2 DEF Reassembly!Made
  <2> QED
    BY <2>1, <2>2
<1>4. CASE UNCHANGED reassembly \/ Reassembly!InsertRefused
  BY <1>4 DEF reassembly, Reassembly!InsertRefused, Reassembly!vars
<1>5. CASE Reassembly!InsertPartial
  BY <1>3, <1>5 DEF Reassembly!InsertPartial
<1>6. CASE Reassembly!InsertLast
  <2>1. PICK h \in Reassembly!Header : watermark' = Reassembly!Completed(h)
    BY <1>6 DEF Reassembly!InsertLast
  <2>2. h.id \in Frames
    BY DEF Reassembly!Header
  <2>3. watermark' \in {Reassembly!Made(h, watermark), h.id}
    BY <1>2, <2>1 DEF Reassembly!Completed
  <2> QED
    BY <1>3, <2>2, <2>3
<1>7. CASE Reassembly!DropOlderThan
  <2>1. PICK min \in Frames :
          /\ Reassembly!Older(min) # {}
          /\ watermark' = Reassembly!Retired(watermark,
               CHOOSE f \in Reassembly!Older(min) : \A g \in Reassembly!Older(min) : g <= f)
    BY <1>7 DEF Reassembly!DropOlderThan
  <2>2. PICK old : old = Reassembly!Older(min)
    OBVIOUS
  <2>3. min \in Nat /\ old \in SUBSET DOMAIN pending /\ old \in SUBSET (0 .. min) /\ old # {}
    BY <1>1, <2>1, <2>2, ReassemblyConstants DEF Reassembly!Older
  <2>4. \E newest \in old : \A g \in old : g <= newest
    BY ONLY <2>3, GreatestElement
  <2>5. PICK mark : mark = CHOOSE f \in old : \A g \in old : g <= f
    OBVIOUS
  <2>6. mark \in old
    BY ONLY <2>4, <2>5
  <2>7. watermark' \in {watermark, mark}
    BY <1>2, <2>1, <2>2, <2>5
  <2> QED
    BY ONLY <1>1, <2>3, <2>6, <2>7, watermark \in Frames \cup {-1}
<1> QED
  BY <1>4, <1>5, <1>6, <1>7 DEF Reassembly!Next

ReassemblyTyped == ReassemblyInv /\ watermark \in Frames \cup {-1}

LEMMA ReassemblyTypesHold ==
  /\ Init => ReassemblyTyped
  /\ ReassemblyTyped /\ [Reassembly!Next]_reassembly => ReassemblyTyped'
  /\ ReassemblyTyped => Reassembly!TypeOK
<1>1. ASSUME Init PROVE ReassemblyTyped
  <2>1. ReassemblyInv
    BY <1>1, ReassemblyInit DEF Init
  <2>2. watermark = -1
    BY <1>1, ReassemblyConstants DEF Init, Reassembly!Init
  <2> QED
    BY <2>1, <2>2 DEF ReassemblyTyped
<1>2. ASSUME ReassemblyTyped, [Reassembly!Next]_reassembly PROVE ReassemblyTyped'
  BY <1>2, WatermarkKept, ReassemblyStep DEF ReassemblyTyped
<1>3. ASSUME ReassemblyTyped PROVE Reassembly!TypeOK
  <2>1. \A f \in DOMAIN pending : pending[f] \in Reassembly!PendingFrame
    <3> TAKE f \in DOMAIN pending
    <3>1. PartlyThere(pending[f]) /\ MaxTotal \in Nat
      BY <1>3, ReassemblyConstants DEF ReassemblyTyped, ReassemblyInv
    <3>2. pending[f].got \in SUBSET (0 .. MaxTotal - 1)
      BY ONLY <3>1 DEF PartlyThere
    <3> QED
      BY ONLY <3>1, <3>2 DEF PartlyThere, Reassembly!PendingFrame
  <2> QED
    BY <1>3, <2>1, ReassemblyConstants DEF ReassemblyTyped, ReassemblyInv, Reassembly!TypeOK
<1> QED
  BY <1>1, <1>2, <1>3

-----------------------------------------------------------------------------
(* Bitstream: the types of its variables.                                  *)

\* The bytes of a frame, whatever session the viewer has for them.
BitsShape ==
  /\ inForce \in ParameterSets /\ bitsFrames \in 0 .. BitsMaxFrames
  /\ needKey \in BOOLEAN /\ sample.key \in BOOLEAN
  /\ bitsFrames = 0 => bitsAt = "encoding"
  /\ bitsFrames > 0 => SampleIs
  /\ bitsAt \in {"encoding", "extracting", "fragmenting", "sending", "decoding"}
  /\ data \in Seq(0 .. 255) /\ paramSets \in Seq(0 .. 255)
  /\ bitsAt \in {"fragmenting", "decoding"} => Written(data)
  /\ bitsAt = "sending" => \E d : Written(d) /\ datagrams = Bits!FragmentFrame(sample.key, d)

LEMMA ShapeEncodes ==
  ASSUME BitsShape, Bits!Encode
  PROVE  BitsShape'
<1>1. /\ bitsAt = "encoding" /\ bitsFrames' = bitsFrames + 1 /\ inForce' \in ParameterSets
      /\ bitsAt' = "extracting" /\ bitsFrames < BitsMaxFrames
      /\ needKey' = needKey /\ paramSets' = paramSets /\ data' = data
  BY DEF Bits!Encode, Bits!viewer
<1>2. PICK key \in BOOLEAN, nals \in UNION {[1 .. n -> Slices] : n \in 1 .. MaxSlices} :
        sample' = [key |-> key, sets |-> inForce', nals |-> nals]
  BY DEF Bits!Encode
<1>3. \E n \in 1 .. MaxSlices : nals \in [1 .. n -> Slices]
  OBVIOUS
<1>4. sample'.key = key /\ sample'.sets = inForce' /\ sample'.nals = nals
  BY <1>2
<1>5. SampleIs' /\ sample'.key \in BOOLEAN
  BY ONLY <1>3, <1>4, key \in BOOLEAN DEF SampleIs
<1>6. bitsFrames \in 0 .. BitsMaxFrames /\ BitsMaxFrames \in Nat
  BY PartsAssumption DEF BitsShape, Bits!Assumption
<1>7. bitsFrames' \in 0 .. BitsMaxFrames /\ bitsFrames' # 0
  BY ONLY <1>1, <1>6
<1>8. needKey \in BOOLEAN /\ data \in Seq(0 .. 255) /\ paramSets \in Seq(0 .. 255)
  BY DEF BitsShape
<1> QED
  BY ONLY <1>1, <1>5, <1>7, <1>8 DEF BitsShape

LEMMA ShapeExtracts ==
  ASSUME BitsShape, Bits!Extract
  PROVE  BitsShape'
<1> DEFINE u == Bits!NALs(sample)
           needed == Bits!EncodedLength(sample)
           cap == IF needed < MinCapacity THEN MinCapacity ELSE needed
<1>1. /\ bitsAt = "extracting" /\ data' = Bits!ExtractNALs(u, cap) /\ bitsAt' = "fragmenting"
      /\ bitsFrames' = bitsFrames /\ inForce' = inForce /\ sample' = sample
      /\ needKey' = needKey /\ paramSets' = paramSets
  BY DEF Bits!Extract, Bits!viewer
<1>2. /\ inForce \in ParameterSets /\ bitsFrames \in 0 .. BitsMaxFrames
      /\ needKey \in BOOLEAN /\ sample.key \in BOOLEAN /\ paramSets \in Seq(0 .. 255)
      /\ bitsFrames # 0 /\ SampleIs
  BY <1>1, PartsAssumption DEF BitsShape, Bits!Assumption
<1>3. u \in Seq(Nal) /\ needed \in Nat /\ Bits!Encoded(u) <= needed
  BY <1>2, SampleWritten
<1>4. Off(u, Bits!EncodedUpTo(u)) /\ Bits!EncodedUpTo(u)[Len(u)] \in Nat
  <2>1. Off(u, Bits!EncodedUpTo(u)) /\ Len(u) \in Nat
    BY <1>3, OffExists, LenProperties
  <2>2. Len(u) \in 0 .. Len(u)
    BY ONLY <2>1
  <2> QED
    BY ONLY <2>1, <2>2 DEF Off
<1>5. cap \in Nat /\ Bits!EncodedUpTo(u)[Len(u)] <= cap
  <2>1. Bits!EncodedUpTo(u)[Len(u)] <= needed
    BY <1>3 DEF Bits!Encoded
  <2> HIDE DEF u, needed
  <2> QED
    BY <1>3, <1>4, <2>1, BitsConstants
<1> HIDE DEF cap, needed
<1>6. Written(data)'
  <2>1. AnnexB(Bits!ExtractNALs(u, cap), u, Bits!EncodedUpTo(u))
    <3> HIDE DEF u
    <3> QED
      BY ONLY <1>3, <1>4, <1>5, ExtractWrites
  <2> QED
    BY <1>1, <2>1 DEF Written
<1>7. SampleIs'
  BY ONLY <1>1, <1>2 DEF SampleIs
<1>8. data' \in Seq(0 .. 255)
  BY ONLY <1>6 DEF Written, AnnexB
<1> HIDE DEF u
<1> QED
  BY ONLY <1>1, <1>2, <1>6, <1>7, <1>8 DEF BitsShape

LEMMA ShapeTravels ==
  ASSUME BitsShape, Bits!Fragment \/ Bits!Arrive \/ Bits!Lost
  PROVE  BitsShape'
<1>1. /\ bitsFrames' = bitsFrames /\ inForce' = inForce /\ sample' = sample
      /\ paramSets' = paramSets /\ bitsAt # "encoding"
      /\ needKey' \in {needKey, TRUE, FALSE}
  BY DEF Bits!Fragment, Bits!Arrive, Bits!Lost, Bits!viewer
<1>2. /\ inForce \in ParameterSets /\ bitsFrames \in 0 .. BitsMaxFrames
      /\ needKey \in BOOLEAN /\ sample.key \in BOOLEAN
      /\ data \in Seq(0 .. 255) /\ paramSets \in Seq(0 .. 255)
      /\ bitsFrames # 0 /\ SampleIs
  BY <1>1, PartsAssumption DEF BitsShape, Bits!Assumption
<1>3. SampleIs' /\ needKey' \in BOOLEAN
  BY ONLY <1>1, <1>2 DEF SampleIs
<1>4. CASE Bits!Fragment
  <2>1. /\ bitsAt = "fragmenting" /\ bitsAt' = "sending" /\ data' = <<>>
        /\ datagrams' = Bits!FragmentFrame(sample.key, data)
    BY <1>4 DEF Bits!Fragment
  <2>2. Written(data)
    BY <2>1 DEF BitsShape
  <2>3. \E d : Written(d)' /\ datagrams' = Bits!FragmentFrame(sample.key, d)'
    <3>1. PICK d : d = data
      OBVIOUS
    <3>2. Written(d)' /\ datagrams' = Bits!FragmentFrame(sample.key, d)'
      BY <1>1, <2>1, <2>2, <3>1 DEF Written, Bits!NALs, Bits!FragmentFrame
    <3> QED
      BY <3>2
  <2>4. data' \in Seq(0 .. 255)
    BY ONLY <2>1
  <2> QED
    BY ONLY <1>1, <1>2, <1>3, <2>1, <2>3, <2>4 DEF BitsShape
<1>5. CASE Bits!Arrive
  <2>1. /\ bitsAt = "sending" /\ bitsAt' = "decoding"
        /\ data' = Bits!Assembled(datagrams)[Len(datagrams)]
    BY <1>5 DEF Bits!Arrive
  <2>2. PICK d : Written(d) /\ datagrams = Bits!FragmentFrame(sample.key, d)
    BY <2>1 DEF BitsShape
  <2>3. d \in Seq(0 .. 255) /\ Len(d) > 0
    BY <1>2, <2>2, WrittenIs
  <2>4. data' = d
    BY <2>1, <2>2, <2>3, FragmentsJoin
  <2>5. Written(data)' /\ data' \in Seq(0 .. 255)
    BY <1>1, <2>2, <2>3, <2>4 DEF Written, Bits!NALs
  <2> QED
    BY ONLY <1>1, <1>2, <1>3, <2>1, <2>5 DEF BitsShape
<1>6. CASE Bits!Lost
  <2>1. bitsAt' = "encoding" /\ data' = data
    BY <1>6 DEF Bits!Lost
  <2> QED
    BY ONLY <1>1, <1>2, <1>3, <2>1 DEF BitsShape
<1> QED
  BY <1>4, <1>5, <1>6

LEMMA ShapeDecodes ==
  ASSUME BitsShape, Bits!DecodePacket
  PROVE  BitsShape'
<1> DEFINE u == Bits!NALs(sample)
           f == Bits!EncodedUpTo(u)
           sets == Bits!ParameterSetsOf
<1>1. /\ bitsAt = "decoding" /\ bitsAt' = "encoding"
      /\ paramSets' = IF sets # <<>> THEN sets ELSE paramSets
      /\ bitsFrames' = bitsFrames /\ inForce' = inForce /\ sample' = sample /\ data' = data
      /\ needKey' \in {TRUE, FALSE}
  BY DEF Bits!DecodePacket
<1>2. /\ inForce \in ParameterSets /\ bitsFrames \in 0 .. BitsMaxFrames
      /\ sample.key \in BOOLEAN /\ Written(data)
      /\ data \in Seq(0 .. 255) /\ paramSets \in Seq(0 .. 255)
      /\ bitsFrames # 0 /\ SampleIs
  BY <1>1, PartsAssumption DEF BitsShape, Bits!Assumption
<1>3. Keyed(u, inForce) \/ Plain(u)
  BY <1>2, SampleWritten
<1>4. AnnexB(data, u, f)
  BY <1>2 DEF Written
<1> HIDE DEF u, f, sets
<1>5. sets = Joined(inForce) \/ sets = <<>>
  BY ONLY <1>3, <1>4, SetsFound DEF sets
<1>6. sets \in Seq(0 .. 255)
  <2>1. Joined(inForce) \in Seq(0 .. 255)
    BY <1>2, JoinedBytes
  <2>2. <<>> \in Seq(0 .. 255)
    OBVIOUS
  <2> QED
    BY ONLY <1>5, <2>1, <2>2
<1>7. paramSets' \in Seq(0 .. 255)
  BY ONLY <1>1, <1>2, <1>6
<1>8. SampleIs' /\ needKey' \in BOOLEAN
  BY ONLY <1>1, <1>2 DEF SampleIs
<1> QED
  BY ONLY <1>1, <1>2, <1>7, <1>8 DEF BitsShape

LEMMA BitsTypesHold ==
  /\ Init => BitsShape
  /\ BitsShape /\ [Bits!Next]_bits => BitsShape'
  /\ BitsShape => Bits!TypeOK
<1>1. ASSUME Init PROVE BitsShape
  <2>1. /\ bitsFrames = 0 /\ inForce \in ParameterSets /\ needKey = TRUE /\ data = <<>>
        /\ paramSets = <<>> /\ bitsAt = "encoding" /\ sample.key = FALSE
    BY <1>1 DEF Init, Bits!Init, Bits!NoSample
  <2>2. BitsMaxFrames \in Nat
    BY PartsAssumption DEF Bits!Assumption
  <2>3. needKey \in BOOLEAN /\ sample.key \in BOOLEAN
    BY ONLY <2>1
  <2>4. data \in Seq(0 .. 255) /\ paramSets \in Seq(0 .. 255)
    BY ONLY <2>1
  <2> QED
    BY ONLY <2>1, <2>2, <2>3, <2>4 DEF BitsShape
<1>2. ASSUME BitsShape, UNCHANGED bits PROVE BitsShape'
  <2>1. UNCHANGED <<bitsFrames, inForce, sample, data, datagrams, needKey, paramSets, bitsAt>>
    BY <1>2 DEF bits
  <2>2. SampleIs' = SampleIs
    BY ONLY <2>1 DEF SampleIs
  <2>3. Written(data) => Written(data)'
    BY ONLY <2>1 DEF Written, Bits!NALs
  <2>4. ASSUME NEW d, Written(d), datagrams = Bits!FragmentFrame(sample.key, d)
        PROVE  Written(d)' /\ datagrams' = Bits!FragmentFrame(sample.key, d)'
    BY ONLY <2>1, <2>4 DEF Written, Bits!NALs, Bits!FragmentFrame
  <2> QED
    BY ONLY <2>1, <2>2, <2>3, <2>4, <1>2 DEF BitsShape
<1>3. ASSUME BitsShape, Bits!Next PROVE BitsShape'
  BY <1>3, ShapeEncodes, ShapeExtracts, ShapeTravels, ShapeDecodes DEF Bits!Next
<1>4. ASSUME BitsShape PROVE Bits!TypeOK
  BY ONLY <1>4 DEF BitsShape, Bits!TypeOK, Bits!Bytes
<1> QED
  BY <1>1, <1>2, <1>3, <1>4

=============================================================================
