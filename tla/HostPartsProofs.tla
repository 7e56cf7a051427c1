-------------------------- MODULE HostPartsProofs --------------------------
(***************************************************************************)
(* Proofs about the parts of the host, for every value of their constants. *)
(* Each part has an inductive invariant of its own, which its steps keep.  *)
(***************************************************************************)
EXTENDS HostParts, Integers, DataLemmas, FiniteSetTheorems

-----------------------------------------------------------------------------
(* StillScreen: what the viewer is left looking at.                        *)

\* The frames in the hardware that do not show the newest capture.
Stale == {i \in DOMAIN coding : coding[i].shows # screen}

\* The passes that landed since the newest capture, or are about to count.
Counted == Passes - passes + IF pending # 0 /\ outputs > pending - 1 THEN 1 ELSE 0

\* A pass was submitted since the newest capture.
Started == screen > 0 /\ (passes < Passes \/ pending # 0)

\* Only the newest session holds frames, and none came out that is newer.
InOneSession ==
  /\ \A i \in DOMAIN coding : coding[i].session = session
  /\ out.session <= session

\* A pass that is scheduled has an attempt left, and who submits what.
Carries ==
  /\ next # "none" => attempts > 0
  /\ latest \in {0, screen}
  /\ at["capture"] # "idle" => carried["capture"] = screen
  /\ Started /\ at["refiner"] \in {"submitting", "stamped"} => carried["refiner"] = screen

\* Every pass that landed since the newest capture used up an output, and what was
\* in the hardware before the first of them is all that can be stale.
PassesOvertake ==
  Started =>
    \/ out.shows = screen /\ Stale = {}
    \/ Counted <= MaxCoding /\ \A i \in Stale : i + Counted <= MaxCoding

StillInv == Still!TypeOK /\ InOneSession /\ Carries /\ PassesOvertake

LEMMA StillCardinality == \A S : Still!Cardinality(S) = Cardinality(S)
  BY DEF Still!Cardinality, Cardinality

\* The session that holds every frame holds as many as there are.
LEMMA HeldIsAll ==
  ASSUME NEW s, NEW S, s \in Seq(S)
  PROVE  Still!Cardinality(1 .. Len(s)) = Len(s)
<1> DEFINE n == Len(s)
<1>1. n \in Int /\ n >= 0 /\ 1 \in Int
  OBVIOUS
<1> HIDE DEF n
<1>2. Cardinality(1 .. n) = IF 1 > n THEN 0 ELSE n - 1 + 1
  BY ONLY <1>1, FS_Interval
<1>3. Cardinality(1 .. n) = n
  BY ONLY <1>1, <1>2
<1> QED
  BY ONLY <1>3, StillCardinality DEF n

\* What is left when the oldest frame is gone.
LEMMA OldestGone ==
  ASSUME NEW S, NEW s \in Seq(S), Len(s) > 0
  PROVE  /\ Still!RemoveAt(s, 1) \in Seq(S)
         /\ Len(Still!RemoveAt(s, 1)) = Len(s) - 1
         /\ \A j \in 1 .. Len(s) - 1 : Still!RemoveAt(s, 1)[j] = s[j + 1]
<1>1. Still!RemoveAt(s, 1) = SubSeq(s, 1, 0) \o SubSeq(s, 2, Len(s))
  BY DEF Still!RemoveAt
<1>2. SubSeq(s, 1, 0) = <<>>
  OBVIOUS
<1>3. /\ SubSeq(s, 2, Len(s)) \in Seq(S) /\ Len(SubSeq(s, 2, Len(s))) = Len(s) - 1
      /\ \A j \in 1 .. Len(s) - 1 : SubSeq(s, 2, Len(s))[j] = s[j + 1]
  <2>1. Len(s) \in Int /\ 2 \in Int /\ \A i \in 2 .. Len(s) : s[i] \in S
    OBVIOUS
  <2>2. /\ SubSeq(s, 2, Len(s)) \in Seq(S)
        /\ Len(SubSeq(s, 2, Len(s))) = IF 2 <= Len(s) THEN Len(s) - 2 + 1 ELSE 0
        /\ \A j \in 1 .. Len(s) - 2 + 1 : SubSeq(s, 2, Len(s))[j] = s[2 + j - 1]
    BY <2>1, SubSeqProperties
  <2>3. \A j \in 1 .. Len(s) - 1 : j \in 1 .. Len(s) - 2 + 1 /\ 2 + j - 1 = j + 1
    BY <2>1
  <2>4. (IF 2 <= Len(s) THEN Len(s) - 2 + 1 ELSE 0) = Len(s) - 1
    <3> DEFINE n == Len(s)
    <3>1. n \in Int /\ n > 0
      BY <2>1
    <3> HIDE DEF n
    <3>2. (IF 2 <= n THEN n - 2 + 1 ELSE 0) = n - 1
      BY <3>1
    <3> QED
      BY <3>2 DEF n
  <2>5. \A j \in 1 .. Len(s) - 1 : SubSeq(s, 2, Len(s))[j] = s[j + 1]
    BY ONLY <2>2, <2>3
  <2> QED
    BY ONLY <2>2, <2>4, <2>5
<1>4. <<>> \o SubSeq(s, 2, Len(s)) = SubSeq(s, 2, Len(s))
  BY <1>3, ConcatEmptySeq
<1> QED
  BY <1>1, <1>2, <1>3, <1>4

LEMMA StillInit == Still!Init => StillInv
<1> SUFFICES ASSUME Still!Init PROVE StillInv
  OBVIOUS
<1> USE PartsAssumption DEF Still!Assumption, Still!Init, Still!None, Still!Nobody
<1>1. coding = <<>> /\ coding \in Seq(Still!Frame) /\ DOMAIN coding = {}
  OBVIOUS
<1>2. Still!Cardinality(Still!Held(session)) = 0
  BY <1>1, StillCardinality, FS_EmptySet DEF Still!Held
<1>3. {stop, sharpened, owed} \subseteq BOOLEAN
  BY Zenon
<1>4. Still!TypeOK
  BY <1>1, <1>2, <1>3 DEF Still!TypeOK, Still!Thread, Still!Frame
<1> QED
  <2>1. InOneSession
    BY <1>1 DEF InOneSession
  <2>2. ~Started
    BY DEF Started
  <2>3. Carries /\ PassesOvertake
    BY <2>2 DEF Carries, PassesOvertake, Still!Thread
  <2> QED
    BY <1>4, <2>1, <2>3 DEF StillInv

LEMMA StillStep == StillInv /\ [Still!Next]_still => StillInv'
<1> SUFFICES ASSUME StillInv, [Still!Next]_still PROVE StillInv'
  OBVIOUS
<1> USE PartsAssumption DEF Still!Assumption, StillInv, InOneSession, Carries, PassesOvertake, Started,
      Stale, Counted, Still!TypeOK, Still!Held, Still!Thread, Still!None, Still!Nobody, Still!refiner,
      Still!encoder, Still!Goes
<1>1. ASSUME Still!OnCapture PROVE StillInv'
  <2>1. PICK p \in {"restoring", "noted"} : at' = [at EXCEPT !["capture"] = p]
    BY <1>1 DEF Still!OnCapture
  <2>2. /\ screen' = screen + 1 /\ latest' = screen + 1 /\ screen < MaxCaptures
        /\ passes' = Passes /\ attempts' = Attempts /\ next' = "later" /\ pending' = 0
        /\ carried' = [carried EXCEPT !["capture"] = screen + 1]
        /\ sharpen' \in {"never", "at"}
        /\ stop' = stop /\ life' = life /\ UNCHANGED Still!encoder
    BY <1>1 DEF Still!OnCapture, Still!Scheduled
  <2>3. ~Started'
    BY <2>2
  <2>4. Still!TypeOK'
    BY <2>1, <2>2
  <2>5. InOneSession'
    BY <2>2
  <2> HIDE DEF Started
  <2>6. Carries'
    BY <2>1, <2>2, <2>3
  <2>7. PassesOvertake'
    BY <2>3
  <2> QED
    BY <2>4, <2>5, <2>6, <2>7 DEF StillInv
<1>2. ASSUME NEW t \in Still!Thread, Still!Submit(t) PROVE StillInv'
  <2>1. PICK p \in {"idle", "stamped"} : at' = [at EXCEPT ![t] = p]
    BY <1>2 DEF Still!Submit
  <2>2. /\ at[t] = IF t = "capture" THEN "noted" ELSE "submitting"
        /\ UNCHANGED <<screen, carried, Still!refiner, life, sharpened, locked, session, coding,
                       outputs, out, drops>>
    BY <1>2 DEF Still!Submit
  <2>3. owed' \in BOOLEAN
    <3>1. owed \in BOOLEAN
      BY Zenon DEF StillInv, Still!TypeOK
    <3> QED
      BY <1>2, <3>1, Zenon DEF Still!Submit
  <2> QED
    BY <2>1, <2>2, <2>3
<1>3. ASSUME NEW t \in Still!Thread, Still!Encode(t) PROVE StillInv'
  <2> DEFINE f == [shows |-> carried[t], session |-> session]
  <2>1. /\ at[t] = "stamped" /\ Still!Cardinality(Still!Held(session)) < MaxCoding
        /\ coding' = Append(coding, f) /\ at' = [at EXCEPT ![t] = "idle"]
        /\ UNCHANGED <<screen, carried, Still!refiner, life, sharpened, locked, session, outputs,
                       out, owed, drops>>
    BY <1>3 DEF Still!Encode
  <2>2. f \in Still!Frame /\ f.session = session /\ f.shows = carried[t]
    BY DEF Still!Frame
  <2> HIDE DEF f
  <2>3. /\ coding' \in Seq(Still!Frame) /\ Len(coding') = Len(coding) + 1
        /\ \A i \in 1 .. Len(coding) : coding'[i] = coding[i]
        /\ coding'[Len(coding) + 1] = f
    BY <2>1, <2>2
  <2>4. InOneSession'
    BY <2>1, <2>2, <2>3
  <2>5. Still!Held(session) = 1 .. Len(coding) /\ Still!Held(session)' = 1 .. Len(coding')
    <3>1. DOMAIN coding = 1 .. Len(coding) /\ DOMAIN coding' = 1 .. Len(coding')
      BY <2>3
    <3>2. /\ \A i \in DOMAIN coding : coding[i].session = session
          /\ \A i \in DOMAIN coding' : coding'[i].session = session'
      BY <2>4
    <3> QED
      BY ONLY <3>1, <3>2
  <2>6. Still!Cardinality(Still!Held(session))' <= MaxCoding
    <3> HIDE DEF Still!Held
    <3>1. /\ Still!Cardinality(1 .. Len(coding)) = Len(coding)
          /\ Still!Cardinality(1 .. Len(coding')) = Len(coding')
      BY <2>3, HeldIsAll
    <3>2. /\ Still!Cardinality(Still!Held(session)) = Len(coding)
          /\ Still!Cardinality(Still!Held(session))' = Len(coding')
      BY ONLY <2>5, <3>1
    <3>3. Still!Cardinality(Still!Held(session)) <= MaxCoding
      OBVIOUS
    <3> QED
      BY ONLY <2>1, <2>3, <3>2, <3>3, PartsAssumption DEF Still!Assumption
  <2>7. Still!TypeOK'
    BY <2>1, <2>3, <2>6
  <2>8. Carries'
    BY <2>1
  <2>9. PassesOvertake'
    <3>1. SUFFICES ASSUME Started PROVE PassesOvertake'
      BY <2>1
    <3>2. f.shows = screen
      BY <2>1, <2>2, <3>1
    <3>3. Stale' = Stale
      <4>1. /\ screen' = screen /\ Len(coding) \in Nat
            /\ DOMAIN coding = 1 .. Len(coding) /\ DOMAIN coding' = 1 .. Len(coding) + 1
        BY <2>1, <2>3
      <4> QED
        BY ONLY <2>3, <3>2, <4>1 DEF Stale
    <3> HIDE DEF Stale
    <3> QED
      BY <2>1, <3>1, <3>3
  <2> QED
    BY <2>4, <2>7, <2>8, <2>9
<1>4. ASSUME NEW t \in Still!Thread, Still!BeginSwap(t) PROVE StillInv'
  BY <1>4 DEF Still!BeginSwap, Still!Rebuilding
<1>5. ASSUME NEW t \in Still!Thread, Still!SwapRefused(t) PROVE StillInv'
  BY <1>5 DEF Still!SwapRefused, Still!Rebuilding
<1>6. ASSUME NEW t \in Still!Thread, Still!Swapped(t) PROVE StillInv'
  <2>1. /\ at[t] = "draining" /\ coding = <<>> /\ coding' = coding
        /\ session' = session + 1 /\ locked' = "nobody"
        /\ at' = [at EXCEPT ![t] = IF t = "capture" THEN "noted" ELSE "idle"]
        /\ UNCHANGED <<screen, carried, latest, sharpen, stop, life, outputs, out, owed, drops>>
    BY <1>6 DEF Still!Swapped
  <2>2. IF t = "refiner" THEN /\ passes' = Passes /\ attempts' = Attempts
                              /\ next' = "later" /\ pending' = 0
        ELSE UNCHANGED <<passes, attempts, next, pending>>
    BY <1>6 DEF Still!Swapped, Still!Scheduled
  <2>3. sharpened' \in BOOLEAN
    <3>1. (t = "refiner") \in BOOLEAN
      OBVIOUS
    <3> QED
      BY <1>6, <3>1, Zenon DEF Still!Swapped
  <2>4. Still!Held(session)' = {} /\ Still!Cardinality({}) = 0
    BY <2>1, StillCardinality, FS_EmptySet
  <2>5. Still!TypeOK'
    BY <2>1, <2>2, <2>3, <2>4
  <2>6. InOneSession'
    <3>1. DOMAIN coding' = {} /\ out'.session = out.session /\ session' = session + 1
      BY <2>1
    <3> QED
      BY <3>1 DEF Still!Frame
  <2>7. Carries'
    BY <2>1, <2>2
  <2>8. PassesOvertake'
    BY <2>1, <2>2
  <2> QED
    BY <2>5, <2>6, <2>7, <2>8
<1>7. ASSUME Still!Time PROVE StillInv'
  BY <1>7 DEF Still!Time
<1>8. ASSUME Still!Landed PROVE StillInv'
  <2>1. /\ pending # 0 /\ outputs > pending - 1 /\ pending' = 0
        /\ passes' = (IF passes = 0 THEN 0 ELSE passes - 1)
        /\ next' = (IF passes <= 1 THEN "none" ELSE next)
        /\ UNCHANGED <<screen, at, carried, latest, attempts, sharpen, stop, life, Still!encoder>>
    BY <1>8 DEF Still!Landed, Still!Looping
  <2>2. /\ passes \in 0 .. Passes /\ passes' \in 0 .. Passes /\ Passes \in Nat \ {0}
        /\ next' \in {next, "none"} /\ outputs' = outputs /\ coding' = coding /\ screen' = screen
        /\ out' = out /\ outputs \in Nat /\ pending \in Nat
    <3>1. /\ passes \in 0 .. Passes /\ Passes \in Nat \ {0}
          /\ outputs \in Nat /\ pending \in Nat
      OBVIOUS
    <3>2. screen' = screen /\ outputs' = outputs /\ coding' = coding /\ out' = out
      BY ONLY <2>1 DEF Still!encoder
    <3> QED
      BY ONLY <2>1, <3>1, <3>2
  <2>3. Still!TypeOK' /\ InOneSession'
    BY <2>1, <2>2
  <2>4. Stale' = Stale
    BY ONLY <2>2 DEF Stale
  <2>5. Started' => Started
    BY ONLY <2>1, <2>2 DEF Started
  <2>6. Counted \in Int /\ Counted' <= Counted /\ Counted' \in Int
    BY ONLY <2>1, <2>2 DEF Counted
  <2>7. Carries'
    BY <2>1, <2>2
  <2> HIDE DEF Started, Counted, Stale
  <2>8. PassesOvertake'
    <3>1. MaxCoding \in Nat /\ \A i \in Stale : i \in Nat
      BY DEF Stale
    <3> SUFFICES ASSUME Started', ~(out.shows = screen /\ Stale = {})
                 PROVE  Counted' <= MaxCoding /\ \A i \in Stale : i + Counted' <= MaxCoding
      BY <2>2, <2>4
    <3>2. Counted <= MaxCoding /\ \A i \in Stale : i + Counted <= MaxCoding
      BY <2>5
    <3> QED
      BY ONLY <2>6, <3>1, <3>2
  <2> QED
    BY <2>3, <2>7, <2>8
<1>9. ASSUME Still!Sharpen PROVE StillInv'
  BY <1>9 DEF Still!Sharpen, Still!AtTop, Still!Looping
<1>10. ASSUME Still!Rest PROVE StillInv'
  BY <1>10 DEF Still!Rest, Still!AtTop, Still!Looping
<1>11. ASSUME Still!PassWaits PROVE StillInv'
  BY <1>11 DEF Still!PassWaits, Still!AtTop, Still!Looping
<1>12. ASSUME Still!Pass PROVE StillInv'
  <2>1. /\ at["refiner"] = "idle" /\ next = "due" /\ latest # 0
        /\ pending = 0 \/ outputs <= pending - 1
        /\ attempts' = attempts - 1 /\ next' = IF attempts = 1 THEN "none" ELSE "later"
        /\ pending' = outputs + 1 /\ carried' = [carried EXCEPT !["refiner"] = latest]
        /\ at' = [at EXCEPT !["refiner"] = "submitting"]
        /\ UNCHANGED <<screen, latest, passes, sharpen, stop, life, Still!encoder>>
    BY <1>12 DEF Still!Pass, Still!AtTop, Still!Looping
  <2>2. Still!TypeOK'
    BY <2>1
  <2>3. InOneSession'
    BY <2>1
  <2>4. Carries'
    BY <2>1
  <2>5. Counted' = Counted /\ Stale' = Stale
    BY <2>1
  <2>6. ~Started => Counted = 0 /\ \A i \in Stale : i <= MaxCoding
    <3> SUFFICES ASSUME ~Started PROVE Counted = 0 /\ \A i \in Stale : i <= MaxCoding
      OBVIOUS
    <3>1. passes = Passes /\ pending = 0
      BY <2>1
    <3>2. Still!Held(session) = 1 .. Len(coding)
      OBVIOUS
    <3>3. Still!Cardinality(1 .. Len(coding)) = Len(coding)
      BY HeldIsAll
    <3>4. Len(coding) <= MaxCoding /\ Len(coding) \in Nat
      <4> HIDE DEF Still!Held
      <4>1. Still!Cardinality(Still!Held(session)) <= MaxCoding /\ Len(coding) \in Nat
        OBVIOUS
      <4> QED
        BY ONLY <3>2, <3>3, <4>1
    <3> QED
      BY <3>1, <3>4
  <2> HIDE DEF Counted, Stale
  <2>7. PassesOvertake'
    <3>1. \A i \in Stale : i \in Nat
      BY DEF Stale
    <3>2. CASE Started
      BY <2>1, <2>5, <3>2
    <3>3. CASE ~Started
      BY <2>5, <2>6, <3>1, <3>3
    <3> QED
      BY <3>2, <3>3
  <2> QED
    BY <2>2, <2>3, <2>4, <2>7
<1>13. ASSUME Still!Leave PROVE StillInv'
  BY <1>13 DEF Still!Leave
<1>14. ASSUME Still!Output PROVE StillInv'
  <2>1. 1 \in DOMAIN coding /\ coding' = Still!RemoveAt(coding, 1) /\ out' = coding[1]
    <3>1. PICK i \in Still!Oldest : coding' = Still!RemoveAt(coding, i) /\ out' = coding[i]
      BY <1>14 DEF Still!Output
    <3>2. i \in DOMAIN coding /\ 1 \in DOMAIN coding
      BY <3>1 DEF Still!Oldest
    <3>3. i = 1
      <4>1. coding[1].session = session /\ coding[i].session = session
        BY <3>2
      <4>2. \A j \in Still!Held(coding[i].session) : i <= j
        BY <3>1 DEF Still!Oldest
      <4>3. 1 \in Still!Held(coding[i].session)
        BY ONLY <3>2, <4>1
      <4>4. i <= 1 /\ i \in 1 .. Len(coding)
        BY <3>2, <4>2, <4>3
      <4> QED
        BY <4>4
    <3> QED
      BY <3>1, <3>2, <3>3
  <2>2. outputs' = outputs + 1
        /\ UNCHANGED <<screen, at, carried, Still!refiner, life, sharpened, locked, session, drops>>
    BY <1>14 DEF Still!Output
  <2>3. /\ coding' \in Seq(Still!Frame) /\ Len(coding') = Len(coding) - 1
        /\ \A j \in 1 .. Len(coding) - 1 : coding'[j] = coding[j + 1]
        /\ coding[1] \in Still!Frame
    <3>1. /\ coding \in Seq(Still!Frame) /\ Len(coding) > 0
          /\ coding' = Still!RemoveAt(coding, 1)
      BY <2>1
    <3>2. coding[1] \in Still!Frame
      BY ONLY <3>1
    <3> QED
      BY ONLY <3>1, <3>2, OldestGone
  <2>4. InOneSession'
    <3>1. \A i \in DOMAIN coding' : i + 1 \in DOMAIN coding /\ coding'[i] = coding[i + 1]
      BY <2>1, <2>3
    <3>2. session' = session /\ out'.session \in {session, out.session}
      BY <2>1, <2>2
    <3>3. \A i \in DOMAIN coding' : coding'[i].session = session'
      BY <3>1, <3>2
    <3> QED
      BY <3>2, <3>3
  <2>5. Still!Held(session) = 1 .. Len(coding) /\ Still!Held(session)' = 1 .. Len(coding')
    <3>1. DOMAIN coding = 1 .. Len(coding) /\ DOMAIN coding' = 1 .. Len(coding')
      BY <2>3
    <3>2. /\ \A i \in DOMAIN coding : coding[i].session = session
          /\ \A i \in DOMAIN coding' : coding'[i].session = session'
      BY <2>4
    <3> QED
      BY ONLY <3>1, <3>2
  <2>6. Still!Cardinality(Still!Held(session))' <= MaxCoding
    <3> HIDE DEF Still!Held
    <3>1. /\ Still!Cardinality(1 .. Len(coding)) = Len(coding)
          /\ Still!Cardinality(1 .. Len(coding')) = Len(coding')
      BY <2>3, HeldIsAll
    <3>2. /\ Still!Cardinality(Still!Held(session)) = Len(coding)
          /\ Still!Cardinality(Still!Held(session))' = Len(coding')
      BY ONLY <2>5, <3>1
    <3>3. Still!Cardinality(Still!Held(session)) <= MaxCoding
      OBVIOUS
    <3> QED
      BY ONLY <2>1, <2>3, <3>2, <3>3, PartsAssumption DEF Still!Assumption
  <2>7. owed' \in BOOLEAN
    <3>1. owed \in BOOLEAN
      BY Zenon DEF StillInv, Still!TypeOK
    <3> QED
      BY <1>14, <3>1, Zenon DEF Still!Output
  <2>8. Still!TypeOK'
    BY <2>1, <2>2, <2>3, <2>6, <2>7
  <2>9. Carries'
    BY <2>2
  <2>10. PassesOvertake'
    <3>1. SUFFICES ASSUME Started PROVE PassesOvertake'
      BY <2>2
    <3>2. \A i \in Stale' : i \in Nat /\ i + 1 \in Stale
      <4>1. \A i \in DOMAIN coding' : i \in Nat /\ i + 1 \in DOMAIN coding /\ coding'[i] = coding[i + 1]
        <5>1. /\ Len(coding) \in Nat /\ DOMAIN coding = 1 .. Len(coding)
              /\ DOMAIN coding' = 1 .. Len(coding')
          BY <2>1, <2>3
        <5> QED
          BY ONLY <2>3, <5>1
      <4> QED
        BY ONLY <2>2, <4>1
    <3>3. Counted \in Nat /\ Counted' \in Nat /\ Counted' <= Counted + 1
      <4>1. /\ outputs' = outputs + 1 /\ passes' = passes /\ pending' = pending
            /\ passes \in 0 .. Passes /\ Passes \in Nat /\ pending \in Nat /\ outputs \in Nat
        BY <2>2
      <4> QED
        BY ONLY <4>1
    <3>4. 1 \in Stale \/ out'.shows = screen'
      BY <2>1, <2>2
    <3> HIDE DEF Counted, Stale
    <3>5. CASE out.shows = screen /\ Stale = {}
      BY <2>2, <3>2, <3>4, <3>5
    <3>6. CASE Counted <= MaxCoding /\ \A i \in Stale : i + Counted <= MaxCoding
      <4>a. MaxCoding \in Nat /\ \A i \in Stale : i \in Nat /\ i > 0
        BY DEF Stale
      <4>1. CASE 1 \in Stale
        <5>1. Counted' <= MaxCoding /\ \A i \in Stale' : i + Counted' <= MaxCoding
          BY ONLY <3>2, <3>3, <3>6, <4>1, <4>a
        <5> QED
          BY <5>1
      <4>2. CASE 1 \notin Stale /\ Stale' # {}
        <5>1. Counted' <= MaxCoding /\ \A i \in Stale' : i + Counted' <= MaxCoding
          BY ONLY <3>2, <3>3, <3>6, <4>2, <4>a
        <5> QED
          BY <5>1
      <4>3. CASE 1 \notin Stale /\ Stale' = {}
        BY <2>2, <3>4, <4>3
      <4> QED
        BY <4>1, <4>2, <4>3
    <3> QED
      BY <3>1, <3>5, <3>6
  <2> QED
    BY <2>4, <2>8, <2>9, <2>10
<1>15. ASSUME Still!EncoderDrops PROVE StillInv'
  <2>1. 1 \in DOMAIN coding /\ coding' = Still!RemoveAt(coding, 1)
    <3>1. PICK i \in Still!Oldest : coding' = Still!RemoveAt(coding, i)
      BY <1>15 DEF Still!EncoderDrops
    <3>2. i \in DOMAIN coding /\ 1 \in DOMAIN coding
      BY <3>1 DEF Still!Oldest
    <3>3. i = 1
      <4>1. coding[1].session = session /\ coding[i].session = session
        BY <3>2
      <4>2. \A j \in Still!Held(coding[i].session) : i <= j
        BY <3>1 DEF Still!Oldest
      <4>3. 1 \in Still!Held(coding[i].session)
        BY ONLY <3>2, <4>1
      <4>4. i <= 1 /\ i \in 1 .. Len(coding)
        BY <3>2, <4>2, <4>3
      <4> QED
        BY <4>4
    <3> QED
      BY <3>1, <3>2, <3>3
  <2>2. drops < MaxDrops /\ drops' = drops + 1
        /\ UNCHANGED <<screen, at, carried, Still!refiner, life, sharpened, locked, session, outputs, out, owed>>
    BY <1>15 DEF Still!EncoderDrops
  <2>3. /\ coding' \in Seq(Still!Frame) /\ Len(coding') = Len(coding) - 1
        /\ \A j \in 1 .. Len(coding) - 1 : coding'[j] = coding[j + 1]
        /\ coding[1] \in Still!Frame
    <3>1. /\ coding \in Seq(Still!Frame) /\ Len(coding) > 0
          /\ coding' = Still!RemoveAt(coding, 1)
      BY <2>1
    <3>2. coding[1] \in Still!Frame
      BY ONLY <3>1
    <3> QED
      BY ONLY <3>1, <3>2, OldestGone
  <2>4. InOneSession'
    <3>1. \A i \in DOMAIN coding' : i + 1 \in DOMAIN coding /\ coding'[i] = coding[i + 1]
      BY <2>1, <2>3
    <3>2. session' = session /\ out'.session \in {session, out.session}
      BY <2>1, <2>2
    <3>3. \A i \in DOMAIN coding' : coding'[i].session = session'
      BY <3>1, <3>2
    <3> QED
      BY <3>2, <3>3
  <2>5. Still!Held(session) = 1 .. Len(coding) /\ Still!Held(session)' = 1 .. Len(coding')
    <3>1. DOMAIN coding = 1 .. Len(coding) /\ DOMAIN coding' = 1 .. Len(coding')
      BY <2>3
    <3>2. /\ \A i \in DOMAIN coding : coding[i].session = session
          /\ \A i \in DOMAIN coding' : coding'[i].session = session'
      BY <2>4
    <3> QED
      BY ONLY <3>1, <3>2
  <2>6. Still!Cardinality(Still!Held(session))' <= MaxCoding
    <3> HIDE DEF Still!Held
    <3>1. /\ Still!Cardinality(1 .. Len(coding)) = Len(coding)
          /\ Still!Cardinality(1 .. Len(coding')) = Len(coding')
      BY <2>3, HeldIsAll
    <3>2. /\ Still!Cardinality(Still!Held(session)) = Len(coding)
          /\ Still!Cardinality(Still!Held(session))' = Len(coding')
      BY ONLY <2>5, <3>1
    <3>3. Still!Cardinality(Still!Held(session)) <= MaxCoding
      OBVIOUS
    <3> QED
      BY ONLY <2>1, <2>3, <3>2, <3>3, PartsAssumption DEF Still!Assumption
  <2>7. Still!TypeOK'
    BY <2>1, <2>2, <2>3, <2>6
  <2>8. Carries'
    BY <2>2
  <2>9. PassesOvertake'
    <3>1. SUFFICES ASSUME Started PROVE PassesOvertake'
      BY <2>2
    <3>2. \A i \in Stale' : i \in Nat /\ i + 1 \in Stale
      <4>1. \A i \in DOMAIN coding' : i \in Nat /\ i + 1 \in DOMAIN coding /\ coding'[i] = coding[i + 1]
        <5>1. /\ Len(coding) \in Nat /\ DOMAIN coding = 1 .. Len(coding)
              /\ DOMAIN coding' = 1 .. Len(coding')
          BY <2>1, <2>3
        <5> QED
          BY ONLY <2>3, <5>1
      <4> QED
        BY ONLY <2>2, <4>1
    <3>3. Counted \in Nat /\ Counted' = Counted
      BY <2>2
    <3>4. \/ out.shows = screen /\ Stale = {}
          \/ Counted <= MaxCoding /\ \A i \in Stale : i + Counted <= MaxCoding
      BY <3>1
    <3>5. MaxCoding \in Nat /\ out' = out /\ screen' = screen
      BY <2>2
    <3> HIDE DEF Counted, Stale
    <3>6. \/ out.shows = screen /\ Stale' = {}
          \/ Counted <= MaxCoding /\ \A i \in Stale' : i + Counted <= MaxCoding
      BY ONLY <3>2, <3>3, <3>4, <3>5
    <3> QED
      BY ONLY <3>3, <3>5, <3>6 DEF PassesOvertake
  <2> QED
    BY <2>4, <2>7, <2>8, <2>9
<1>16. ASSUME Still!ForceKeyframe PROVE StillInv'
  BY <1>16 DEF Still!ForceKeyframe
<1>17. ASSUME Still!StopStream PROVE StillInv'
  BY <1>17 DEF Still!StopStream
<1>18. ASSUME Still!StopRefiner PROVE StillInv'
  BY <1>18 DEF Still!StopRefiner
<1>19. ASSUME Still!Joined PROVE StillInv'
  BY <1>19 DEF Still!Joined
<1>20. ASSUME UNCHANGED still PROVE StillInv'
  BY <1>20 DEF still
<1> QED
  BY <1>1, <1>2, <1>3, <1>4, <1>5, <1>6, <1>7, <1>8, <1>9, <1>10, <1>11, <1>12, <1>13, <1>14, <1>15,
     <1>16, <1>17, <1>18, <1>19, <1>20
  DEF Still!Next, Still!CaptureStep, Still!RefinerStep

\* A screen is at rest once every pass of it landed, and they were more than the
\* frames in the hardware before them.
LEMMA StillEnds ==
  ASSUME StillInv, Passes > MaxCoding
  PROVE  Still!EndsOnCurrentScreen
<1> SUFFICES ASSUME Still!AtRest PROVE out.shows = screen
  BY DEF Still!EndsOnCurrentScreen
<1>1. /\ Passes \in Nat \ {0} /\ MaxCoding \in Nat /\ passes = 0 /\ screen > 0
      /\ outputs \in Nat /\ pending \in Nat
  BY PartsAssumption DEF Still!Assumption, Still!AtRest, StillInv, Still!TypeOK
<1>2. Started
  BY <1>1 DEF Started
<1>3. Counted \in Nat /\ Counted >= Passes
  BY <1>1 DEF Counted
<1> HIDE DEF Started, Counted
<1>4. ~(Counted <= MaxCoding)
  BY <1>1, <1>3
<1> QED
  BY <1>2, <1>4 DEF StillInv, PassesOvertake

\* Only an output changes what came out last, and the newest session holds every
\* frame there is.
LEMMA StillOrdered == StillInv /\ [Still!Next]_still => out'.session >= out.session
<1> SUFFICES ASSUME StillInv, [Still!Next]_still PROVE out'.session >= out.session
  OBVIOUS
<1>1. out.session \in Nat /\ session \in Nat
  BY DEF StillInv, Still!TypeOK, Still!Frame
<1>2. CASE Still!Output
  <2>1. PICK i \in Still!Oldest : out' = coding[i]
    BY <1>2 DEF Still!Output
  <2>2. coding[i].session = session /\ out.session <= session
    BY <2>1 DEF Still!Oldest, StillInv, InOneSession
  <2> QED
    BY <1>1, <2>1, <2>2
<1>3. CASE ~Still!Output
  <2>1. out' = out
    BY <1>3 DEF Still!Next, Still!OnCapture, Still!CaptureStep, Still!Time, Still!RefinerStep, Still!EncoderDrops,
      Still!ForceKeyframe, Still!StopStream, Still!StopRefiner, Still!Joined, Still!Submit, Still!Encode,
      Still!BeginSwap, Still!SwapRefused, Still!Swapped, Still!Landed, Still!Sharpen, Still!Rest,
      Still!PassWaits, Still!Pass, Still!Leave, Still!encoder, still
  <2> QED
    BY <1>1, <2>1
<1> QED
  BY <1>2, <1>3

-----------------------------------------------------------------------------
(* CaptureSurfaces: who has a surface, and what is in it.                  *)

Is(a, b) == IF a = b THEN 1 ELSE 0

\* How often an element is in a sequence.
Count(s, x) == Cardinality({i \in 1 .. Len(s) : s[i] = x})

\* The surfaces of the frames in the encoder.
Surfs(frames) == [i \in 1 .. Len(frames) |-> frames[i].surface]
Read == Surfs(surfacesCoding)

\* A surface is in use by the sample buffers it was delivered in, the refiner that
\* keeps it, and the frames the encoder reads; clones of it are held besides.
CountsHold(inUse, held, buffers, read, kept, called, cloned) ==
  \A s \in Surfaces!Surface :
    /\ inUse[s] = Count(buffers, s) + Is(kept, s) + Count(read, s)
    /\ held[s] = inUse[s] + Is(called, s) + Is(cloned, s)

CountsFollow ==
  CountsHold(uses, refs, delivered, Read, surfacesLatest.surface,
             surfacesCarried["capture"].surface, surfacesCarried["refiner"].surface)

\* A thread carries a surface unless it is idle: the callback the one delivered
\* first.  Nothing comes once the closure is gone.
Holders ==
  /\ surfacesAt["refiner"] # "called"
  /\ \A t \in Surfaces!Thread :
       /\ surfacesAt[t] = "idle" <=> surfacesCarried[t] = Surfaces!Nothing
       /\ surfacesCarried[t].surface = 0 => surfacesCarried[t] = Surfaces!Nothing
  /\ surfacesLatest.surface = 0 => surfacesLatest = Surfaces!Nothing
  /\ surfacesAt["capture"] # "idle" =>
       /\ delivered # <<>>
       /\ surfacesCarried["capture"] = [surface |-> delivered[1], meant |-> content[delivered[1]]]
  /\ surfacesLife = "gone" =>
       surfacesLatest = Surfaces!Nothing /\ delivered = <<>> /\ drawing = 0 /\ ~runs
  /\ surfacesLife \in {"joining", "stopped", "gone"} => surfacesStop

\* Captures are delivered, and noted, in the order in which they are drawn.
InOrder ==
  /\ \A s \in Surfaces!Surface : content[s] <= captures
  /\ \A i, j \in DOMAIN delivered : i < j => content[delivered[i]] < content[delivered[j]]
  /\ noted <= captures
  /\ drawing # 0 =>
       /\ content[drawing] = captures /\ noted < captures
       /\ \A i \in DOMAIN delivered : content[delivered[i]] < captures
  /\ \A i \in DOMAIN delivered :
       \/ noted < content[delivered[i]]
       \/ i = 1 /\ surfacesAt["capture"] \in {"submitting", "submitted"} /\ noted = content[delivered[1]]

\* What is kept is not drawn into, and a clone of what is no longer kept is of a
\* capture older than the one noted.
Kept ==
  /\ surfacesLatest # Surfaces!Nothing =>
       /\ content[surfacesLatest.surface] = surfacesLatest.meant
       /\ drawing # surfacesLatest.surface
       /\ surfacesLatest.meant <= noted
  /\ ~surfacesStop /\ surfacesAt["refiner"] # "idle" =>
       surfacesCarried["refiner"] = surfacesLatest \/ surfacesCarried["refiner"].meant < noted

SurfacesInv ==
  Surfaces!TypeOK /\ CountsFollow /\ Holders /\ InOrder /\ Kept /\ Surfaces!ShowsMeant

LEMMA CountAppend ==
  ASSUME NEW S, NEW s \in Seq(S), NEW e \in S, NEW x
  PROVE  /\ Count(s, x) \in Nat
         /\ Count(Append(s, e), x) = Count(s, x) + Is(e, x)
         /\ \A i \in 1 .. Len(s) : s[i] = x => Count(s, x) > 0
<1> DEFINE n == Len(s)
           A == {i \in 1 .. n : s[i] = x}
           B == {i \in 1 .. Len(Append(s, e)) : Append(s, e)[i] = x}
<1>1. n \in Nat /\ Len(Append(s, e)) = n + 1 /\ Append(s, e)[n + 1] = e
      /\ \A i \in 1 .. n : Append(s, e)[i] = s[i]
  OBVIOUS
<1>2. B = A \cup IF e = x THEN {n + 1} ELSE {}
  BY <1>1
<1>3. IsFiniteSet(A) /\ n + 1 \notin A
  <2>1. IsFiniteSet(1 .. n)
    BY <1>1, FS_Interval
  <2>2. A \in SUBSET (1 .. n)
    OBVIOUS
  <2> HIDE DEF A
  <2>3. IsFiniteSet(A)
    BY <2>1, <2>2, FS_Subset
  <2> QED
    BY <1>1, <2>2, <2>3
<1>4. Count(s, x) = Cardinality(A) /\ Count(Append(s, e), x) = Cardinality(B)
  BY DEF Count
<1> HIDE DEF A, B
<1>5. Cardinality(A) \in Nat /\ (A # {} => Cardinality(A) # 0)
  BY <1>3, FS_CardinalityType, FS_EmptySet
<1>6. Cardinality(B) = Cardinality(A) + Is(e, x)
  <2>1. CASE e = x
    <3>1. Cardinality(A \cup {n + 1}) = Cardinality(A) + 1
      BY <1>3, FS_AddElement
    <3> QED
      BY <1>2, <2>1, <3>1 DEF Is
  <2>2. CASE e # x
    BY <1>2, <1>5, <2>2 DEF Is
  <2> QED
    BY <2>1, <2>2
<1>7. ASSUME NEW i \in 1 .. n, s[i] = x PROVE Cardinality(A) > 0
  <2> DEFINE oldest == Head(surfacesCoding).surface
  <2>1. i \in A
    BY <1>7 DEF A
  <2> QED
    BY <1>5, <2>1
<1> QED
  BY <1>4, <1>5, <1>6, <1>7

LEMMA CountTail ==
  ASSUME NEW S, NEW s \in Seq(S), s # <<>>, NEW x
  PROVE  /\ Count(s, x) = Count(Tail(s), x) + Is(Head(s), x)
         /\ Count(Tail(s), x) \in Nat
<1> DEFINE n == Len(s)
           A == {i \in 1 .. n : s[i] = x}
           B == {i \in 1 .. Len(Tail(s)) : Tail(s)[i] = x}
           C == {i \in 2 .. n : s[i] = x}
           shift == [i \in B |-> i + 1]
<1>1. /\ n \in Nat \ {0} /\ Len(Tail(s)) = n - 1 /\ Head(s) = s[1]
      /\ \A i \in 1 .. n - 1 : Tail(s)[i] = s[i + 1]
  OBVIOUS
<1>2. A = C \cup IF Head(s) = x THEN {1} ELSE {}
  BY <1>1
<1>3. IsFiniteSet(B) /\ IsFiniteSet(C) /\ 1 \notin C
  <2>1. IsFiniteSet(1 .. n - 1) /\ IsFiniteSet(2 .. n)
    BY <1>1, FS_Interval
  <2>2. B \in SUBSET (1 .. n - 1) /\ C \in SUBSET (2 .. n)
    BY <1>1
  <2> HIDE DEF B, C
  <2>3. IsFiniteSet(B) /\ IsFiniteSet(C)
    BY <2>1, <2>2, FS_Subset
  <2> QED
    BY <1>1, <2>2, <2>3
<1>4. shift \in Bijection(B, C)
  <2>1. shift \in [B -> C]
    BY <1>1
  <2>2. \A a, b \in B : shift[a] = shift[b] => a = b
    BY <1>1
  <2>3. \A c \in C : \E b \in B : shift[b] = c
    <3> SUFFICES ASSUME NEW c \in C PROVE c - 1 \in B /\ shift[c - 1] = c
      OBVIOUS
    <3>1. c \in 2 .. n /\ s[c] = x
      OBVIOUS
    <3>2. c - 1 \in 1 .. n - 1 /\ Tail(s)[c - 1] = s[c - 1 + 1] /\ c - 1 + 1 = c
      BY <1>1, <3>1
    <3>3. c - 1 \in B
      BY <1>1, <3>1, <3>2
    <3> QED
      BY <3>2, <3>3
  <2> HIDE DEF B, C, shift
  <2> QED
    BY <2>1, <2>2, <2>3, Fun_IsBij
<1>5. Count(s, x) = Cardinality(A) /\ Count(Tail(s), x) = Cardinality(B)
  BY DEF Count
<1> HIDE DEF A, B, C, shift
<1>6. Cardinality(C) = Cardinality(B) /\ Cardinality(B) \in Nat
  <2>1. ExistsBijection(B, C)
    BY <1>4, Fun_ExistsBij
  <2> QED
    BY <1>3, <2>1, FS_Bijection, FS_CardinalityType
<1>7. Cardinality(A) = Cardinality(C) + Is(Head(s), x)
  <2>1. CASE Head(s) = x
    <3>1. Cardinality(C \cup {1}) = Cardinality(C) + 1
      BY <1>3, FS_AddElement
    <3> QED
      BY <1>2, <2>1, <3>1 DEF Is
  <2>2. CASE Head(s) # x
    BY <1>2, <1>6, <2>2 DEF Is
  <2> QED
    BY <2>1, <2>2
<1> QED
  BY <1>5, <1>6, <1>7

InEncoder == [surface : Surfaces!Surface, meant : Surfaces!Capture, shows : Surfaces!Capture]

LEMMA SurfsTyped ==
  ASSUME NEW c \in Seq(InEncoder)
  PROVE  /\ Surfs(c) \in Seq(Surfaces!Surface) /\ Len(Surfs(c)) = Len(c)
         /\ \A i \in 1 .. Len(c) : Surfs(c)[i] = c[i].surface
<1>1. \A i \in 1 .. Len(c) : c[i] \in InEncoder
  OBVIOUS
<1>2. \A i \in 1 .. Len(c) : c[i].surface \in Surfaces!Surface
  BY <1>1 DEF InEncoder
<1>3. Surfs(c) \in [1 .. Len(c) -> Surfaces!Surface] /\ Len(c) \in Nat
  BY <1>2 DEF Surfs
<1>4. Surfs(c) \in Seq(Surfaces!Surface)
  BY <1>3, IsASeq DEF Surfs
<1>5. Len(Surfs(c)) = Len(c)
  BY <1>3, <1>4
<1> QED
  BY <1>4, <1>5 DEF Surfs

LEMMA SurfsFollow ==
  ASSUME NEW c \in Seq(InEncoder), NEW e \in InEncoder
  PROVE  /\ Surfs(c) \in Seq(Surfaces!Surface)
         /\ Surfs(Append(c, e)) = Append(Surfs(c), e.surface)
         /\ c # <<>> =>
              /\ Surfs(Tail(c)) = Tail(Surfs(c)) /\ Surfs(c) # <<>>
              /\ Head(Surfs(c)) = Head(c).surface
<1>1. /\ Surfs(c) \in Seq(Surfaces!Surface) /\ Len(Surfs(c)) = Len(c)
      /\ e.surface \in Surfaces!Surface
  BY SurfsTyped DEF InEncoder
<1>2. Surfs(Append(c, e)) = Append(Surfs(c), e.surface)
  <2>1. /\ Append(c, e) \in Seq(InEncoder) /\ Len(Append(c, e)) = Len(c) + 1
        /\ \A i \in 1 .. Len(c) : Append(c, e)[i] = c[i]
        /\ Append(c, e)[Len(c) + 1] = e
    OBVIOUS
  <2>2. /\ Append(Surfs(c), e.surface) \in Seq(Surfaces!Surface)
        /\ Len(Append(Surfs(c), e.surface)) = Len(c) + 1
        /\ \A i \in 1 .. Len(c) : Append(Surfs(c), e.surface)[i] = c[i].surface
        /\ Append(Surfs(c), e.surface)[Len(c) + 1] = e.surface
    BY <1>1 DEF Surfs
  <2>3. /\ Surfs(Append(c, e)) \in Seq(Surfaces!Surface)
        /\ Len(Surfs(Append(c, e))) = Len(c) + 1
        /\ \A i \in 1 .. Len(c) + 1 : Surfs(Append(c, e))[i] = Append(c, e)[i].surface
    BY <2>1, SurfsTyped
  <2>4. \A i \in 1 .. Len(c) + 1 : Surfs(Append(c, e))[i] = Append(Surfs(c), e.surface)[i]
    BY <2>1, <2>2, <2>3
  <2> QED
    BY <2>2, <2>3, <2>4, SeqEqual
<1>3. ASSUME c # <<>>
      PROVE  /\ Surfs(Tail(c)) = Tail(Surfs(c)) /\ Surfs(c) # <<>>
             /\ Head(Surfs(c)) = Head(c).surface
  <2>1. /\ Tail(c) \in Seq(InEncoder) /\ Len(Tail(c)) = Len(c) - 1 /\ Len(c) \in Nat \ {0}
        /\ \A i \in 1 .. Len(c) - 1 : Tail(c)[i] = c[i + 1]
        /\ Head(c) = c[1]
    BY <1>3
  <2>2. Surfs(c) # <<>>
    BY <1>1, <2>1
  <2>3. /\ Tail(Surfs(c)) \in Seq(Surfaces!Surface)
        /\ Len(Tail(Surfs(c))) = Len(c) - 1
        /\ \A i \in 1 .. Len(c) - 1 : Tail(Surfs(c))[i] = Surfs(c)[i + 1]
        /\ Head(Surfs(c)) = Surfs(c)[1]
    BY <1>1, <2>2
  <2>4. \A i \in 1 .. Len(c) : Surfs(c)[i] = c[i].surface
    BY DEF Surfs
  <2>5. /\ Surfs(Tail(c)) \in Seq(Surfaces!Surface)
        /\ Len(Surfs(Tail(c))) = Len(c) - 1
        /\ \A i \in 1 .. Len(c) - 1 : Surfs(Tail(c))[i] = Tail(c)[i].surface
    BY <2>1, SurfsTyped
  <2>6. \A i \in 1 .. Len(c) - 1 : Surfs(Tail(c))[i] = Tail(Surfs(c))[i]
    BY <2>1, <2>3, <2>4, <2>5
  <2>7. Surfs(Tail(c)) = Tail(Surfs(c))
    BY <2>3, <2>5, <2>6, SeqEqual
  <2> QED
    BY <2>1, <2>2, <2>3, <2>4, <2>7
<1> QED
  BY <1>1, <1>2, <1>3

LEMMA SurfacesInit == Surfaces!Init => SurfacesInv
<1> SUFFICES ASSUME Surfaces!Init PROVE SurfacesInv
  OBVIOUS
<1>1. /\ captures = 0 /\ drawing = 0 /\ content = [s \in Surfaces!Surface |-> 0]
      /\ delivered = <<>> /\ surfacesLife = "running"
      /\ surfacesAt = [t \in Surfaces!Thread |-> "idle"]
      /\ surfacesCarried = [t \in Surfaces!Thread |-> Surfaces!Nothing]
      /\ surfacesLatest = Surfaces!Nothing /\ noted = 0 /\ surfacesCoding = <<>>
      /\ refs = [s \in Surfaces!Surface |-> 0] /\ uses = [s \in Surfaces!Surface |-> 0]
  BY DEF Surfaces!Init, Surfaces!None
<1>2. runs \in BOOLEAN /\ surfacesStop \in BOOLEAN
  BY Zenon DEF Surfaces!Init
<1>3. Surfaces!Surface \subseteq Nat \ {0} /\ 0 \in Surfaces!Capture /\ MaxCaptures \in Nat
      /\ SurfacesMaxCoding \in Nat
  BY PartsAssumption DEF Surfaces!Assumption, Surfaces!Surface, Surfaces!Capture, Still!Assumption
<1>4. Surfaces!Nothing \in Surfaces!Carried /\ Surfaces!Nothing.surface = 0
  BY <1>3 DEF Surfaces!Nothing, Surfaces!Carried, Surfaces!None
<1>5. Surfaces!TypeOK
  BY <1>1, <1>2, <1>3, <1>4, PartsAssumption
  DEF Surfaces!TypeOK, Surfaces!Assumption, Surfaces!None, Surfaces!Thread
<1>6. CountsFollow
  <2>1. Read = <<>> /\ \A x : Count(<<>>, x) = 0
    BY <1>1, FS_EmptySet DEF Read, Surfs, Count
  <2> QED
    BY <1>1, <1>3, <1>4, <2>1 DEF CountsFollow, CountsHold, Is, Surfaces!Thread
<1>7. Holders
  BY <1>1, <1>2 DEF Holders, Surfaces!Thread
<1>8. InOrder /\ Kept /\ Surfaces!ShowsMeant
  BY <1>1, <1>3 DEF InOrder, Kept, Surfaces!ShowsMeant, Surfaces!Thread
<1> QED
  BY <1>5, <1>6, <1>7, <1>8 DEF SurfacesInv

\* What raising and lowering a count does to it.
Counts(count) == count \in [Surfaces!Surface -> Int]
Differs(new, old, s, by) == \A x \in Surfaces!Surface : new[x] = old[x] + by * Is(s, x)

LEMMA Raised ==
  ASSUME NEW count, Counts(count), NEW s, s \in Surfaces!Surface
  PROVE  /\ Counts(Surfaces!Retained(count, s)) /\ Differs(Surfaces!Retained(count, s), count, s, 1)
         /\ Counts(Surfaces!InUse(count, s)) /\ Differs(Surfaces!InUse(count, s), count, s, 1)
  BY DEF Surfaces!Retained, Surfaces!InUse, Is, Counts, Differs

LEMMA Lowered ==
  ASSUME NEW count, Counts(count), NEW s, s \in Surfaces!Surface \cup {0}
  PROVE  /\ Counts(Surfaces!Dropped(count, s)) /\ Differs(Surfaces!Dropped(count, s), count, s, -1)
         /\ Counts(Surfaces!Unused(count, s)) /\ Differs(Surfaces!Unused(count, s), count, s, -1)
<1>1. Surfaces!Surface \subseteq Nat \ {0}
  BY PartsAssumption DEF Surfaces!Assumption, Surfaces!Surface
<1> QED
  BY <1>1 DEF Surfaces!Dropped, Surfaces!Unused, Surfaces!None, Is, Counts, Differs

\* Counts that are made up of holds are no less than none.
LEMMA CountsAreNat ==
  ASSUME NEW u, Counts(u), NEW r, Counts(r),
         NEW d \in Seq(Surfaces!Surface), NEW c \in Seq(InEncoder), NEW k, NEW a, NEW b,
         CountsHold(u, r, d, Surfs(c), k, a, b)
  PROVE  u \in [Surfaces!Surface -> Nat] /\ r \in [Surfaces!Surface -> Nat]
<1>1. Surfs(c) \in Seq(Surfaces!Surface)
  BY SurfsTyped
<1>2. ASSUME NEW x \in Surfaces!Surface PROVE u[x] \in Nat /\ r[x] \in Nat
  <2>1. Count(d, x) \in Nat /\ Count(Surfs(c), x) \in Nat
    BY <1>1, <1>2, CountAppend
  <2>2. Is(k, x) \in Nat /\ Is(a, x) \in Nat /\ Is(b, x) \in Nat
    BY DEF Is
  <2> QED
    BY <1>2, <2>1, <2>2 DEF CountsHold
<1> QED
  BY <1>2 DEF Counts

LEMMA SurfacesStep == SurfacesInv /\ [Surfaces!Next]_surfaces => SurfacesInv'
<1> SUFFICES ASSUME SurfacesInv, [Surfaces!Next]_surfaces PROVE SurfacesInv'
  OBVIOUS
<1>a. /\ Depth \in Nat \ {0} /\ SurfacesMaxCaptures \in Nat \ {0} /\ SurfacesMaxCoding \in Nat \ {0}
      /\ Surfaces!Surface \subseteq Nat \ {0}
  BY PartsAssumption DEF Surfaces!Assumption, Surfaces!Surface
<1>b. /\ delivered \in Seq(Surfaces!Surface) /\ Read \in Seq(Surfaces!Surface)
      /\ surfacesCoding \in Seq(InEncoder) /\ Len(Read) = Len(surfacesCoding)
      /\ \A x \in Surfaces!Surface : Count(delivered, x) \in Nat /\ Count(Read, x) \in Nat
      /\ \A x \in Surfaces!Surface : \A i \in DOMAIN delivered : delivered[i] = x => Count(delivered, x) > 0
  <2>1. delivered \in Seq(Surfaces!Surface) /\ surfacesCoding \in Seq(InEncoder)
    BY DEF SurfacesInv, Surfaces!TypeOK, InEncoder
  <2>2. Read \in Seq(Surfaces!Surface) /\ Len(Read) = Len(surfacesCoding)
    BY <2>1, SurfsTyped DEF Read
  <2>3. \A x \in Surfaces!Surface : Count(delivered, x) \in Nat /\ Count(Read, x) \in Nat
    BY <2>1, <2>2, CountAppend
  <2>4. \A x \in Surfaces!Surface : \A i \in 1 .. Len(delivered) : delivered[i] = x => Count(delivered, x) > 0
    BY <2>1, CountAppend
  <2> QED
    BY <2>1, <2>2, <2>3, <2>4
\* A surface that nobody uses is neither delivered nor kept.
<1>c. \A x \in Surfaces!Surface : uses[x] = 0 =>
        x # surfacesLatest.surface /\ \A i \in DOMAIN delivered : delivered[i] # x
  <2> TAKE x \in Surfaces!Surface
  <2>1. /\ uses[x] = Count(delivered, x) + Is(surfacesLatest.surface, x) + Count(Read, x)
        /\ Count(delivered, x) \in Nat /\ Count(Read, x) \in Nat
        /\ \A i \in DOMAIN delivered : delivered[i] = x => Count(delivered, x) > 0
    BY <1>b DEF SurfacesInv, CountsFollow, CountsHold
  <2>3. uses[x] = 0 => Count(delivered, x) = 0 /\ Is(surfacesLatest.surface, x) = 0
    <3> DEFINE d == Count(delivered, x)
               c == Count(Read, x)
               k == Is(surfacesLatest.surface, x)
    <3>1. k \in {0, 1} /\ uses[x] = d + k + c /\ d \in Nat /\ c \in Nat
      BY <2>1 DEF Is
    <3> HIDE DEF d, c, k
    <3>2. uses[x] = 0 => d = 0 /\ k = 0
      BY <3>1
    <3> QED
      BY <3>2 DEF d, k
  <2>2. Is(surfacesLatest.surface, x) = IF surfacesLatest.surface = x THEN 1 ELSE 0
    BY DEF Is
  <2> QED
    BY <2>1, <2>2, <2>3
<1>d. /\ Counts(uses) /\ Counts(refs)
      /\ surfacesLatest.surface \in Surfaces!Surface \cup {0}
      /\ \A t \in Surfaces!Thread : surfacesCarried[t].surface \in Surfaces!Surface \cup {0}
      /\ {"capture", "refiner"} \subseteq Surfaces!Thread
      /\ \A x, y : Is(x, y) \in {0, 1}
      /\ CountsFollow
  BY DEF SurfacesInv, Surfaces!TypeOK, Surfaces!Carried, Surfaces!None, Surfaces!Thread, Is, Counts
<1>e. /\ content \in [Surfaces!Surface -> Surfaces!Capture]
      /\ delivered \in Seq(Surfaces!Surface)
      /\ \A i \in DOMAIN delivered : delivered[i] \in Surfaces!Surface
      /\ \A i \in DOMAIN surfacesCoding : surfacesCoding[i].meant \in Nat
  <2>1. /\ content \in [Surfaces!Surface -> Surfaces!Capture]
        /\ delivered \in Seq(Surfaces!Surface)
        /\ surfacesCoding \in Seq(InEncoder)
    BY <1>a, <1>b DEF SurfacesInv, Surfaces!TypeOK
  <2>2. \A f \in InEncoder : f.meant \in Nat
    BY DEF InEncoder, Surfaces!Capture
  <2>3. /\ \A i \in DOMAIN delivered : delivered[i] \in Surfaces!Surface
        /\ \A i \in DOMAIN surfacesCoding : surfacesCoding[i] \in InEncoder
    BY ONLY <2>1
  <2> QED
    BY ONLY <2>1, <2>2, <2>3
<1> USE <1>a DEF SurfacesInv, Surfaces!TypeOK, Holders, InOrder, Kept, Surfaces!ShowsMeant,
  Surfaces!Thread,
      Surfaces!Nothing, Surfaces!None, Surfaces!Carried, Surfaces!Capture, Surfaces!pool,
        Surfaces!threads, Surfaces!counts
<1>1. ASSUME Surfaces!DrawBegins PROVE SurfacesInv'
  <2>1. PICK s \in Surfaces!Surface :
        /\ runs /\ drawing = 0 /\ captures < SurfacesMaxCaptures /\ uses[s] = 0 /\ drawing' = s
        /\ content' = [content EXCEPT ![s] = captures + 1] /\ captures' = captures + 1
        /\ UNCHANGED <<delivered, runs, Surfaces!threads, surfacesCoding, Surfaces!counts>>
    BY <1>1 DEF Surfaces!DrawBegins
  <2>2. CountsFollow'
    BY ONLY <1>d, <2>1 DEF CountsFollow, CountsHold, Read, Surfaces!threads, Surfaces!counts
  <2>3. Surfaces!TypeOK'
    <3>1. content' \in [Surfaces!Surface -> Surfaces!Capture] /\ captures' \in Surfaces!Capture
      BY <2>1
    <3> QED
      BY <2>1, <3>1
  <2>4. Holders'
    BY <1>b, <1>c, <2>1
  <2>5. InOrder'
    <3>1. \A i \in DOMAIN delivered :
            /\ delivered[i] \in Surfaces!Surface /\ delivered[i] # s
            /\ content'[delivered[i]] = content[delivered[i]] /\ content[delivered[i]] <= captures
      <4> SUFFICES ASSUME NEW i \in DOMAIN delivered
                   PROVE  /\ delivered[i] \in Surfaces!Surface /\ delivered[i] # s
                          /\ content'[delivered[i]] = content[delivered[i]]
                          /\ content[delivered[i]] <= captures
        OBVIOUS
      <4>1. delivered[i] \in Surfaces!Surface
        BY ONLY <1>e
      <4>2. delivered[i] # s
        BY <1>c, <2>1
      <4>3. content[delivered[i]] <= captures
        BY ONLY <4>1, SurfacesInv DEF SurfacesInv, InOrder
      <4>4. content'[delivered[i]] = content[delivered[i]]
        BY ONLY <4>1, <4>2, <1>e, <2>1
      <4> QED
        BY ONLY <4>1, <4>2, <4>3, <4>4
    <3>2. \A x \in Surfaces!Surface : content[x] \in Nat
      OBVIOUS
    <3>3. /\ captures \in Nat /\ captures' = captures + 1 /\ drawing' = s /\ content'[s] = captures + 1
          /\ \A x \in Surfaces!Surface : content'[x] <= captures'
      BY <2>1, <3>2
    <3>4. \A i, j \in DOMAIN delivered' : i < j => content'[delivered'[i]] < content'[delivered'[j]]
      BY <2>1, <3>1
    <3>5. \A i \in DOMAIN delivered : content'[delivered[i]] < captures'
      BY ONLY <3>1, <3>2, <3>3
    <3>6. noted' <= captures' /\ noted' < captures'
      BY <2>1, <3>3
    <3>7. \A i \in DOMAIN delivered' :
            \/ noted' < content'[delivered'[i]]
            \/ i = 1 /\ surfacesAt'["capture"] \in {"submitting", "submitted"}
              /\ noted' = content'[delivered'[1]]
      BY <2>1, <3>1
    <3> QED
      BY <2>1, <3>3, <3>4, <3>5, <3>6, <3>7
  <2>6. Kept'
    BY <1>b, <1>c, <2>1
  <2>7. Surfaces!ShowsMeant'
    BY <1>b, <1>c, <2>1
  <2> QED
    BY <2>2, <2>3, <2>4, <2>5, <2>6, <2>7
<1>2. ASSUME Surfaces!DrawEnds PROVE SurfacesInv'
  <2>1. /\ drawing # 0 /\ drawing' = 0 /\ delivered' = Append(delivered, drawing)
        /\ refs' = Surfaces!Retained(refs, drawing) /\ uses' = Surfaces!Retained(uses, drawing)
        /\ UNCHANGED <<captures, content, runs, Surfaces!threads, surfacesCoding>>
    BY <1>2 DEF Surfaces!DrawEnds, Surfaces!Retained
  <2>2. CountsFollow' /\ Counts(uses') /\ Counts(refs')
    <3>1. drawing \in Surfaces!Surface /\ drawing # 0
      BY <2>1
    <3>2. /\ Counts(uses') /\ Counts(refs')
          /\ \A x \in Surfaces!Surface : uses'[x] = uses[x] + Is(drawing, x)
          /\ \A x \in Surfaces!Surface : refs'[x] = refs[x] + Is(drawing, x)
      <4>1. /\ Counts(Surfaces!Retained(uses, drawing))
            /\ Differs(Surfaces!Retained(uses, drawing), uses, drawing, 1)
        BY ONLY <1>d, <3>1, Raised
      <4>2. /\ Counts(Surfaces!Retained(refs, drawing))
            /\ Differs(Surfaces!Retained(refs, drawing), refs, drawing, 1)
        BY ONLY <1>d, <3>1, Raised
      <4>e. uses' = Surfaces!Retained(uses, drawing) /\ refs' = Surfaces!Retained(refs, drawing)
        BY ONLY <2>1 DEF Surfaces!pool, Surfaces!threads, Surfaces!counts
      <4>f. \A x \in Surfaces!Surface : uses[x] \in Int /\ refs[x] \in Int
        BY ONLY <1>d DEF Counts
      <4> HIDE DEF Surfaces!counts
      <4> QED
        BY ONLY <1>d, <4>e, <4>f, <4>1, <4>2 DEF Differs
    <3>3. /\ \A x \in Surfaces!Surface : Count(delivered', x) = Count(delivered, x) + Is(drawing, x)
          /\ \A x \in Surfaces!Surface : Count(Read', x) = Count(Read, x)
      BY ONLY <1>b, <2>1, <3>1, CountAppend DEF Read, Surfaces!pool, Surfaces!threads, Surfaces!counts
    <3>4. /\ surfacesLatest'.surface = surfacesLatest.surface
          /\ surfacesCarried'["capture"].surface = surfacesCarried["capture"].surface
          /\ surfacesCarried'["refiner"].surface = surfacesCarried["refiner"].surface
          /\ \A x \in Surfaces!Surface : Is(0, x) = 0
      BY <2>1, <3>1 DEF Is
    <3> QED
      <4> SUFFICES ASSUME NEW x \in Surfaces!Surface
                   PROVE  /\ uses'[x] = Count(delivered', x) + Is(surfacesLatest'.surface, x)
                                        + Count(Read', x)
                          /\ refs'[x] = uses'[x] + Is(surfacesCarried'["capture"].surface, x)
                                          + Is(surfacesCarried'["refiner"].surface, x)
        BY <3>2 DEF CountsFollow, CountsHold
      <4>1. /\ uses[x] = Count(delivered, x) + Is(surfacesLatest.surface, x) + Count(Read, x)
            /\ refs[x] = uses[x] + Is(surfacesCarried["capture"].surface, x)
                            + Is(surfacesCarried["refiner"].surface, x)
        BY ONLY <1>d DEF CountsFollow, CountsHold
      <4>2. Count(delivered, x) \in Nat /\ Count(Read, x) \in Nat
        BY ONLY <1>b
      <4> QED
        BY ONLY <1>d, <3>1, <3>2, <3>3, <3>4, <4>1, <4>2
  <2>3. Surfaces!TypeOK'
    <3>1. delivered' \in Seq(Surfaces!Surface) /\ surfacesCoding' \in Seq(InEncoder)
      BY <1>b, <2>1
    <3>2. uses' \in [Surfaces!Surface -> Nat] /\ refs' \in [Surfaces!Surface -> Nat]
      BY <2>2, <3>1, CountsAreNat DEF CountsFollow, Read
    <3> QED
      BY <1>b, <2>1, <3>1, <3>2 DEF InEncoder
  <2>4. Holders'
    <3>1. delivered # <<>> => delivered'[1] = delivered[1] /\ delivered' # <<>>
      <4>1. drawing \in Surfaces!Surface /\ delivered' = Append(delivered, drawing)
        BY <2>1
      <4> QED
        BY ONLY <1>e, <4>1
    <3> QED
      BY <2>1, <3>1
  <2>5. InOrder'
    <3>1. /\ drawing \in Surfaces!Surface /\ content[drawing] = captures /\ noted < captures
          /\ \A i \in DOMAIN delivered : content[delivered[i]] < captures
      BY <2>1
    <3>2. /\ DOMAIN delivered' = 1 .. Len(delivered) + 1 /\ DOMAIN delivered = 1 .. Len(delivered)
          /\ Len(delivered) \in Nat
          /\ delivered'[Len(delivered) + 1] = drawing
          /\ \A i \in DOMAIN delivered : delivered'[i] = delivered[i]
      BY <1>b, <2>1, <3>1
    <3>3. \A i \in DOMAIN delivered' : i \in DOMAIN delivered \/ i = Len(delivered) + 1
      BY <3>2
    <3>4. \A i, j \in DOMAIN delivered' : i < j => content'[delivered'[i]] < content'[delivered'[j]]
      <4> SUFFICES ASSUME NEW i \in DOMAIN delivered', NEW j \in DOMAIN delivered', i < j
                   PROVE  content[delivered'[i]] < content[delivered'[j]]
        BY <2>1
      <4>1. i \in DOMAIN delivered
        BY <3>2
      <4>2. CASE j \in DOMAIN delivered
        BY <3>2, <4>1, <4>2
      <4>3. CASE j = Len(delivered) + 1
        BY <3>1, <3>2, <4>1, <4>3
      <4> QED
        BY <3>3, <4>2, <4>3
    <3>5. \A i \in DOMAIN delivered' :
            \/ noted' < content'[delivered'[i]]
            \/ i = 1 /\ surfacesAt'["capture"] \in {"submitting", "submitted"}
              /\ noted' = content'[delivered'[1]]
      <4> SUFFICES ASSUME NEW i \in DOMAIN delivered'
                   PROVE  \/ noted < content[delivered'[i]]
                          \/ /\ i = 1 /\ surfacesAt["capture"] \in {"submitting", "submitted"}
                             /\ noted = content[delivered'[1]]
        BY <2>1
      <4>1. CASE i \in DOMAIN delivered
        BY <3>2, <4>1
      <4>2. CASE i = Len(delivered) + 1
        BY <3>1, <3>2, <4>2
      <4> QED
        BY <3>3, <4>1, <4>2
    <3> QED
      BY <2>1, <3>4, <3>5
  <2>6. Kept'
    BY <1>b, <1>c, <2>1
  <2>7. Surfaces!ShowsMeant'
    BY <1>b, <1>c, <2>1
  <2> QED
    BY <2>2, <2>3, <2>4, <2>5, <2>6, <2>7
<1>3. ASSUME Surfaces!Ends PROVE SurfacesInv'
  BY <1>3 DEF Surfaces!Ends, CountsFollow, CountsHold, Read
<1>4. ASSUME Surfaces!Called PROVE SurfacesInv'
  <2>1. /\ surfacesAt["capture"] = "idle" /\ delivered # <<>>
        /\ surfacesCarried' = [surfacesCarried EXCEPT
             !["capture"] = [surface |-> delivered[1], meant |-> content[delivered[1]]]]
        /\ refs' = Surfaces!Retained(refs, delivered[1])
        /\ surfacesAt' = [surfacesAt EXCEPT !["capture"] = "called"]
        /\ UNCHANGED <<Surfaces!pool, surfacesLife, surfacesLatest, noted, surfacesStop,
                       surfacesCoding, uses>>
    BY <1>4 DEF Surfaces!Called
  <2>2. CountsFollow' /\ Counts(uses') /\ Counts(refs')
    <3>1. delivered[1] \in Surfaces!Surface /\ delivered[1] # 0 /\ surfacesCarried["capture"].surface = 0
      BY <1>b, <2>1
    <3>2. /\ Counts(uses') /\ Counts(refs')
          /\ \A x \in Surfaces!Surface : uses'[x] = uses[x]
          /\ \A x \in Surfaces!Surface : refs'[x] = refs[x] + Is(delivered[1], x)
      <4>1. /\ Counts(Surfaces!Retained(refs, delivered[1]))
            /\ Differs(Surfaces!Retained(refs, delivered[1]), refs, delivered[1], 1)
        BY ONLY <1>d, <3>1, Raised
      <4>e. uses' = uses /\ refs' = Surfaces!Retained(refs, delivered[1])
        BY ONLY <2>1 DEF Surfaces!pool, Surfaces!threads, Surfaces!counts
      <4>f. \A x \in Surfaces!Surface : uses[x] \in Int /\ refs[x] \in Int
        BY ONLY <1>d DEF Counts
      <4> HIDE DEF Surfaces!counts
      <4> QED
        BY ONLY <1>d, <4>e, <4>f, <4>1 DEF Differs
    <3>3. /\ \A x \in Surfaces!Surface : Count(delivered', x) = Count(delivered, x)
          /\ \A x \in Surfaces!Surface : Count(Read', x) = Count(Read, x)
      BY ONLY <2>1 DEF Read, Surfaces!pool, Surfaces!threads, Surfaces!counts
    <3>4. /\ surfacesLatest'.surface = surfacesLatest.surface
          /\ surfacesCarried'["capture"].surface = delivered[1]
          /\ surfacesCarried'["refiner"].surface = surfacesCarried["refiner"].surface
          /\ \A x \in Surfaces!Surface : Is(0, x) = 0
      BY <2>1, <3>1 DEF Is
    <3> QED
      <4> SUFFICES ASSUME NEW x \in Surfaces!Surface
                   PROVE  /\ uses'[x] = Count(delivered', x) + Is(surfacesLatest'.surface, x)
                                        + Count(Read', x)
                          /\ refs'[x] = uses'[x] + Is(surfacesCarried'["capture"].surface, x)
                                          + Is(surfacesCarried'["refiner"].surface, x)
        BY <3>2 DEF CountsFollow, CountsHold
      <4>1. /\ uses[x] = Count(delivered, x) + Is(surfacesLatest.surface, x) + Count(Read, x)
            /\ refs[x] = uses[x] + Is(surfacesCarried["capture"].surface, x)
                            + Is(surfacesCarried["refiner"].surface, x)
        BY ONLY <1>d DEF CountsFollow, CountsHold
      <4>2. Count(delivered, x) \in Nat /\ Count(Read, x) \in Nat
        BY ONLY <1>b
      <4> QED
        BY ONLY <1>d, <3>1, <3>2, <3>3, <3>4, <4>1, <4>2
  <2>3. Surfaces!TypeOK'
    <3>1. delivered' \in Seq(Surfaces!Surface) /\ surfacesCoding' \in Seq(InEncoder)
      BY <1>b, <2>1
    <3>2. uses' \in [Surfaces!Surface -> Nat] /\ refs' \in [Surfaces!Surface -> Nat]
      BY <2>2, <3>1, CountsAreNat DEF CountsFollow, Read
    <3> QED
      <4>1. [surface |-> delivered[1], meant |-> content[delivered[1]]] \in Surfaces!Carried
        <5>1. delivered[1] \in Surfaces!Surface
          BY <1>b, <2>1
        <5>2. content[delivered[1]] \in Surfaces!Capture
          BY <5>1
        <5> QED
          BY <5>1, <5>2
      <4>2. surfacesCarried' \in [Surfaces!Thread -> Surfaces!Carried]
        BY <2>1, <4>1
      <4> QED
        BY <1>b, <2>1, <3>1, <3>2, <4>2 DEF InEncoder
  <2>4. Holders'
    BY <1>b, <1>c, <2>1
  <2>5. InOrder'
    BY <1>b, <1>c, <2>1
  <2>6. Kept'
    BY <1>b, <1>c, <2>1
  <2>7. Surfaces!ShowsMeant'
    BY <1>b, <1>c, <2>1
  <2> QED
    BY <2>2, <2>3, <2>4, <2>5, <2>6, <2>7
<1>5. ASSUME Surfaces!OnCapture PROVE SurfacesInv'
  <2> DEFINE taken == surfacesCarried["capture"].surface
             kept == surfacesLatest.surface
  <2>1. /\ surfacesAt["capture"] = "called" /\ surfacesLatest' = surfacesCarried["capture"]
        /\ noted' = surfacesCarried["capture"].meant
        /\ refs' = Surfaces!Dropped(Surfaces!Retained(refs, taken),
                                    kept)
        /\ uses' = Surfaces!Unused(Surfaces!InUse(uses, taken),
                                   kept)
        /\ surfacesAt' = [surfacesAt EXCEPT !["capture"] = "submitting"]
        /\ UNCHANGED <<Surfaces!pool, surfacesLife, surfacesCarried, surfacesStop, surfacesCoding>>
    BY <1>5 DEF Surfaces!OnCapture
  <2>2. CountsFollow' /\ Counts(uses') /\ Counts(refs')
    <3>1. taken \in Surfaces!Surface /\ taken # 0
      BY <1>b, <2>1
    <3>2. /\ Counts(uses') /\ Counts(refs')
          /\ \A x \in Surfaces!Surface : uses'[x] = uses[x] + Is(taken, x) - Is(kept, x)
          /\ \A x \in Surfaces!Surface : refs'[x] = refs[x] + Is(taken, x) - Is(kept, x)
      <4>1. /\ Counts(Surfaces!InUse(uses, taken))
            /\ Differs(Surfaces!InUse(uses, taken), uses, taken, 1)
        BY ONLY <1>d, <3>1, Raised
      <4>2. /\ Counts(Surfaces!Unused(Surfaces!InUse(uses, taken), kept))
            /\ Differs(Surfaces!Unused(Surfaces!InUse(uses, taken), kept), Surfaces!InUse(uses, taken), kept, -1)
        BY ONLY <1>d, <3>1, <4>1, Lowered
      <4>3. /\ Counts(Surfaces!Retained(refs, taken))
            /\ Differs(Surfaces!Retained(refs, taken), refs, taken, 1)
        BY ONLY <1>d, <3>1, Raised
      <4>4. /\ Counts(Surfaces!Dropped(Surfaces!Retained(refs, taken), kept))
            /\ Differs(Surfaces!Dropped(Surfaces!Retained(refs, taken), kept), Surfaces!Retained(refs, taken), kept, -1)
        BY ONLY <1>d, <3>1, <4>3, Lowered
      <4>e. uses' = Surfaces!Unused(Surfaces!InUse(uses, taken), kept)
            /\ refs' = Surfaces!Dropped(Surfaces!Retained(refs, taken), kept)
        BY ONLY <2>1 DEF Surfaces!pool, Surfaces!threads, Surfaces!counts
      <4>f. \A x \in Surfaces!Surface : uses[x] \in Int /\ refs[x] \in Int
        BY ONLY <1>d DEF Counts
      <4> HIDE DEF Surfaces!counts
      <4> QED
        BY ONLY <1>d, <4>e, <4>f, <4>1, <4>2, <4>3, <4>4 DEF Differs
    <3>3. /\ \A x \in Surfaces!Surface : Count(delivered', x) = Count(delivered, x)
          /\ \A x \in Surfaces!Surface : Count(Read', x) = Count(Read, x)
      BY ONLY <2>1 DEF Read, Surfaces!pool, Surfaces!threads, Surfaces!counts
    <3>4. /\ surfacesLatest'.surface = taken
          /\ surfacesCarried'["capture"].surface = taken
          /\ surfacesCarried'["refiner"].surface = surfacesCarried["refiner"].surface
          /\ \A x \in Surfaces!Surface : Is(0, x) = 0
      BY <2>1, <3>1 DEF Is
    <3> QED
      <4> SUFFICES ASSUME NEW x \in Surfaces!Surface
                   PROVE  /\ uses'[x] = Count(delivered', x) + Is(surfacesLatest'.surface, x)
                                        + Count(Read', x)
                          /\ refs'[x] = uses'[x] + Is(surfacesCarried'["capture"].surface, x)
                                          + Is(surfacesCarried'["refiner"].surface, x)
        BY <3>2 DEF CountsFollow, CountsHold
      <4>1. /\ uses[x] = Count(delivered, x) + Is(kept, x) + Count(Read, x)
            /\ refs[x] = uses[x] + Is(taken, x)
                            + Is(surfacesCarried["refiner"].surface, x)
        BY ONLY <1>d DEF CountsFollow, CountsHold
      <4>2. Count(delivered, x) \in Nat /\ Count(Read, x) \in Nat
        BY ONLY <1>b
      <4> QED
        BY ONLY <1>d, <3>1, <3>2, <3>3, <3>4, <4>1, <4>2
  <2>3. Surfaces!TypeOK'
    <3>1. delivered' \in Seq(Surfaces!Surface) /\ surfacesCoding' \in Seq(InEncoder)
      BY <1>b, <2>1
    <3>2. uses' \in [Surfaces!Surface -> Nat] /\ refs' \in [Surfaces!Surface -> Nat]
      BY <2>2, <3>1, CountsAreNat DEF CountsFollow, Read
    <3> QED
      BY <1>b, <2>1, <3>1, <3>2 DEF InEncoder
  <2>4. Holders'
    BY <1>b, <1>c, <2>1
  <2>5. InOrder'
    <3>1. /\ delivered # <<>> /\ 1 \in DOMAIN delivered /\ delivered[1] \in Surfaces!Surface
          /\ noted' = content[delivered[1]] /\ noted < content[delivered[1]]
          /\ noted \in Nat /\ content[delivered[1]] \in Nat
      BY <1>b, <2>1
    <3>2. \A i \in DOMAIN delivered : i # 1 => content[delivered[1]] < content[delivered[i]]
      <4> SUFFICES ASSUME NEW i \in DOMAIN delivered, i # 1
                   PROVE content[delivered[1]] < content[delivered[i]]
        OBVIOUS
      <4>1. 1 < i
        BY <1>b
      <4> QED
        BY <3>1, <4>1
    <3>3. \A i \in DOMAIN delivered' :
            \/ noted' < content'[delivered'[i]]
            \/ i = 1 /\ surfacesAt'["capture"] \in {"submitting", "submitted"}
              /\ noted' = content'[delivered'[1]]
      BY <2>1, <3>1, <3>2
    <3>4. noted' <= captures /\ (drawing # 0 => noted' < captures)
      BY <3>1
    <3> QED
      BY <2>1, <3>3, <3>4
  <2>6. Kept'
    <3>1. /\ surfacesLatest' = [surface |-> delivered[1], meant |-> content[delivered[1]]]
          /\ noted' = content[delivered[1]] /\ content' = content /\ drawing' = drawing
          /\ delivered # <<>>
          /\ surfacesStop' = surfacesStop /\ surfacesAt'["refiner"] = surfacesAt["refiner"]
          /\ surfacesCarried' = surfacesCarried
      BY <2>1
    <3>2. /\ delivered[1] \in Surfaces!Surface /\ noted < noted' /\ noted \in Nat /\ noted' \in Nat
          /\ drawing # 0 => content[delivered[1]] < captures /\ content[drawing] = captures
          /\ captures \in Nat
      BY <1>b, <2>1
    <3>3. drawing # delivered[1]
      BY <3>1, <3>2
    <3>4. ASSUME ~surfacesStop, surfacesAt["refiner"] # "idle"
          PROVE  surfacesCarried["refiner"].meant < noted'
      <4>1. surfacesCarried["refiner"] = surfacesLatest \/ surfacesCarried["refiner"].meant < noted
        BY ONLY <3>4, SurfacesInv DEF SurfacesInv, Kept
      <4>2. CASE surfacesCarried["refiner"] = surfacesLatest
        <5>1. surfacesLatest # Surfaces!Nothing /\ surfacesLatest.meant \in Nat
          BY <3>4, <4>2
        <5>2. surfacesLatest.meant <= noted
          BY <5>1
        <5> QED
          BY ONLY <3>2, <4>2, <5>1, <5>2
      <4>3. CASE surfacesCarried["refiner"].meant < noted
        <5>1. surfacesCarried["refiner"].meant \in Nat
          OBVIOUS
        <5> QED
          BY ONLY <3>2, <4>3, <5>1
      <4> QED
        BY <4>1, <4>2, <4>3
    <3> QED
      BY <3>1, <3>2, <3>3, <3>4
  <2>7. Surfaces!ShowsMeant'
    <3>1. /\ delivered # <<>> /\ 1 \in DOMAIN delivered /\ delivered[1] \in Surfaces!Surface
          /\ noted' = content[delivered[1]] /\ noted < content[delivered[1]]
          /\ noted \in Nat /\ content[delivered[1]] \in Nat
      BY <1>b, <2>1
    <3>2. \A i \in DOMAIN surfacesCoding : surfacesCoding[i].meant \in Nat
      BY ONLY <1>e
    <3> QED
      BY <2>1, <3>1, <3>2
  <2> QED
    BY <2>2, <2>3, <2>4, <2>5, <2>6, <2>7
<1>6. ASSUME Surfaces!Returned PROVE SurfacesInv'
  <2> DEFINE taken == surfacesCarried["capture"].surface
  <2>1. /\ surfacesAt["capture"] = "submitted"
        /\ refs' = Surfaces!Dropped(Surfaces!Dropped(refs, taken),
                                    taken)
        /\ uses' = Surfaces!Dropped(uses, taken)
        /\ delivered' = Tail(delivered)
        /\ surfacesCarried' = [surfacesCarried EXCEPT !["capture"] = Surfaces!Nothing]
        /\ surfacesAt' = [surfacesAt EXCEPT !["capture"] = "idle"]
        /\ UNCHANGED <<captures, drawing, content, runs, surfacesLife, surfacesLatest, noted,
                       surfacesStop, surfacesCoding>>
    BY <1>6 DEF Surfaces!Returned, Surfaces!Dropped
  <2>2. CountsFollow' /\ Counts(uses') /\ Counts(refs')
    <3>1. taken \in Surfaces!Surface /\ taken # 0 /\ delivered # <<>> /\ Head(delivered) = taken
      BY <1>b, <2>1
    <3>2. /\ Counts(uses') /\ Counts(refs')
          /\ \A x \in Surfaces!Surface : uses'[x] = uses[x] - Is(taken, x)
          /\ \A x \in Surfaces!Surface : refs'[x] = refs[x] - Is(taken, x) - Is(taken, x)
      <4>1. /\ Counts(Surfaces!Dropped(uses, taken))
            /\ Differs(Surfaces!Dropped(uses, taken), uses, taken, -1)
        BY ONLY <1>d, <3>1, Lowered
      <4>2. /\ Counts(Surfaces!Dropped(refs, taken))
            /\ Differs(Surfaces!Dropped(refs, taken), refs, taken, -1)
        BY ONLY <1>d, <3>1, Lowered
      <4>3. /\ Counts(Surfaces!Dropped(Surfaces!Dropped(refs, taken), taken))
            /\ Differs(Surfaces!Dropped(Surfaces!Dropped(refs, taken), taken), Surfaces!Dropped(refs, taken), taken, -1)
        BY ONLY <1>d, <3>1, <4>2, Lowered
      <4>e. uses' = Surfaces!Dropped(uses, taken)
            /\ refs' = Surfaces!Dropped(Surfaces!Dropped(refs, taken), taken)
        BY ONLY <2>1 DEF Surfaces!pool, Surfaces!threads, Surfaces!counts
      <4>f. \A x \in Surfaces!Surface : uses[x] \in Int /\ refs[x] \in Int
        BY ONLY <1>d DEF Counts
      <4> HIDE DEF Surfaces!counts
      <4> QED
        BY ONLY <1>d, <4>e, <4>f, <4>1, <4>2, <4>3 DEF Differs
    <3>3. /\ \A x \in Surfaces!Surface : Count(delivered', x) = Count(delivered, x) - Is(taken, x)
          /\ \A x \in Surfaces!Surface : Count(Read', x) = Count(Read, x)
      <4>1. delivered' = Tail(delivered) /\ Read' = Read
        BY ONLY <2>1 DEF Read
      <4>2. \A x \in Surfaces!Surface :
              /\ Count(delivered, x) = Count(Tail(delivered), x) + Is(Head(delivered), x)
              /\ Count(Tail(delivered), x) \in Nat
        BY ONLY <1>b, <3>1, CountTail
      <4>3. \A x \in Surfaces!Surface :
              /\ Count(delivered, x) = Count(delivered', x) + Is(taken, x)
              /\ Count(delivered', x) \in Nat
        BY ONLY <3>1, <4>1, <4>2
      <4> QED
        BY ONLY <1>d, <4>1, <4>3
    <3>4. /\ surfacesLatest'.surface = surfacesLatest.surface
          /\ surfacesCarried'["capture"].surface = 0
          /\ surfacesCarried'["refiner"].surface = surfacesCarried["refiner"].surface
          /\ \A x \in Surfaces!Surface : Is(0, x) = 0
      BY <2>1, <3>1 DEF Is
    <3> QED
      <4> SUFFICES ASSUME NEW x \in Surfaces!Surface
                   PROVE  /\ uses'[x] = Count(delivered', x) + Is(surfacesLatest'.surface, x)
                                        + Count(Read', x)
                          /\ refs'[x] = uses'[x] + Is(surfacesCarried'["capture"].surface, x)
                                          + Is(surfacesCarried'["refiner"].surface, x)
        BY <3>2 DEF CountsFollow, CountsHold
      <4>1. /\ uses[x] = Count(delivered, x) + Is(surfacesLatest.surface, x) + Count(Read, x)
            /\ refs[x] = uses[x] + Is(taken, x)
                            + Is(surfacesCarried["refiner"].surface, x)
        BY ONLY <1>d DEF CountsFollow, CountsHold
      <4>2. Count(delivered, x) \in Nat /\ Count(Read, x) \in Nat
        BY ONLY <1>b
      <4> QED
        BY ONLY <1>d, <3>1, <3>2, <3>3, <3>4, <4>1, <4>2
  <2>3. Surfaces!TypeOK'
    <3>1. delivered' \in Seq(Surfaces!Surface) /\ surfacesCoding' \in Seq(InEncoder)
      BY <1>b, <2>1
    <3>2. uses' \in [Surfaces!Surface -> Nat] /\ refs' \in [Surfaces!Surface -> Nat]
      BY <2>2, <3>1, CountsAreNat DEF CountsFollow, Read
    <3> QED
      <4>1. surfacesCarried' \in [Surfaces!Thread -> Surfaces!Carried]
        <5>1. Surfaces!Nothing \in Surfaces!Carried
          OBVIOUS
        <5> QED
          BY <2>1, <5>1
      <4> QED
        BY <1>b, <2>1, <3>1, <3>2, <4>1 DEF InEncoder
  <2>4. Holders'
    BY <1>b, <1>c, <2>1
  <2>5. InOrder'
    <3>1. /\ DOMAIN delivered' = 1 .. Len(delivered) - 1 /\ DOMAIN delivered = 1 .. Len(delivered)
          /\ Len(delivered) \in Nat \ {0}
          /\ \A i \in DOMAIN delivered' : delivered'[i] = delivered[i + 1]
      BY <1>b, <2>1
    <3>2. \A i \in DOMAIN delivered' : /\ i + 1 \in DOMAIN delivered /\ i + 1 # 1 /\ i \in Nat
                                       /\ delivered'[i] = delivered[i + 1]
      BY ONLY <3>1
    <3>3. \A i, j \in DOMAIN delivered' : i < j => content'[delivered'[i]] < content'[delivered'[j]]
      <4> SUFFICES ASSUME NEW i \in DOMAIN delivered', NEW j \in DOMAIN delivered', i < j
                   PROVE  content'[delivered'[i]] < content'[delivered'[j]]
        OBVIOUS
      <4>1. /\ i + 1 \in DOMAIN delivered /\ j + 1 \in DOMAIN delivered /\ i + 1 < j + 1
            /\ delivered'[i] = delivered[i + 1] /\ delivered'[j] = delivered[j + 1]
        BY ONLY <3>1, <3>2, i < j, i \in DOMAIN delivered', j \in DOMAIN delivered'
      <4>2. content[delivered[i + 1]] < content[delivered[j + 1]]
        BY ONLY <4>1, SurfacesInv DEF SurfacesInv, InOrder
      <4>3. content' = content
        BY <2>1
      <4> QED
        BY ONLY <4>1, <4>2, <4>3
    <3>4. \A i \in DOMAIN delivered' : noted' < content'[delivered'[i]]
      BY <2>1, <3>2
    <3>5. \A i \in DOMAIN delivered' : drawing # 0 => content[delivered'[i]] < captures
      BY <3>2
    <3> QED
      BY <2>1, <3>3, <3>4, <3>5
  <2>6. Kept'
    BY <1>b, <1>c, <2>1
  <2>7. Surfaces!ShowsMeant'
    BY <1>b, <1>c, <2>1
  <2> QED
    BY <2>2, <2>3, <2>4, <2>5, <2>6, <2>7
<1>7. ASSUME Surfaces!Output PROVE SurfacesInv'
  <2> DEFINE oldest == Head(surfacesCoding).surface
  <2>1. /\ surfacesCoding # <<>> /\ surfacesCoding' = Tail(surfacesCoding)
        /\ refs' = Surfaces!Dropped(refs, oldest)
        /\ uses' = Surfaces!Dropped(uses, oldest)
        /\ UNCHANGED <<Surfaces!pool, Surfaces!threads>>
    BY <1>7 DEF Surfaces!Output, Surfaces!Dropped
  <2>2. CountsFollow' /\ Counts(uses') /\ Counts(refs')
    <3>1. oldest \in Surfaces!Surface /\ surfacesCoding # <<>>
      <4>1. Head(surfacesCoding) \in InEncoder
        BY <1>b, <2>1
      <4> QED
        BY <2>1, <4>1 DEF InEncoder
    <3>2. /\ Counts(uses') /\ Counts(refs')
          /\ \A x \in Surfaces!Surface : uses'[x] = uses[x] - Is(oldest, x)
          /\ \A x \in Surfaces!Surface : refs'[x] = refs[x] - Is(oldest, x)
      <4>1. /\ Counts(Surfaces!Dropped(uses, oldest))
            /\ Differs(Surfaces!Dropped(uses, oldest), uses, oldest, -1)
        BY ONLY <1>d, <3>1, Lowered
      <4>2. /\ Counts(Surfaces!Dropped(refs, oldest))
            /\ Differs(Surfaces!Dropped(refs, oldest), refs, oldest, -1)
        BY ONLY <1>d, <3>1, Lowered
      <4>e. uses' = Surfaces!Dropped(uses, oldest) /\ refs' = Surfaces!Dropped(refs, oldest)
        BY ONLY <2>1 DEF Surfaces!pool, Surfaces!threads, Surfaces!counts
      <4>f. \A x \in Surfaces!Surface : uses[x] \in Int /\ refs[x] \in Int
        BY ONLY <1>d DEF Counts
      <4> HIDE DEF Surfaces!counts
      <4> QED
        BY ONLY <1>d, <4>e, <4>f, <4>1, <4>2 DEF Differs
    <3>3. /\ \A x \in Surfaces!Surface : Count(delivered', x) = Count(delivered, x)
          /\ \A x \in Surfaces!Surface : Count(Read', x) = Count(Read, x) - Is(oldest, x)
      <4>1. Read' = Tail(Read) /\ Head(Read) = oldest /\ Read # <<>>
        <5>1. Read' = Surfs(Tail(surfacesCoding)) /\ Read = Surfs(surfacesCoding)
          BY ONLY <2>1 DEF Read
        <5>2. Head(surfacesCoding) \in InEncoder
          BY <1>b, <2>1
        <5> QED
          BY ONLY <1>b, <2>1, <5>1, <5>2, SurfsFollow
      <4>2. delivered' = delivered
        BY <2>1
      <4> QED
        <5>1. \A x \in Surfaces!Surface :
                /\ Count(Read, x) = Count(Tail(Read), x) + Is(Head(Read), x)
                /\ Count(Tail(Read), x) \in Nat
          BY ONLY <1>b, <4>1, CountTail
        <5>2. \A x \in Surfaces!Surface :
                /\ Count(Read, x) = Count(Read', x) + Is(oldest, x)
                /\ Count(Read', x) \in Nat
          BY ONLY <4>1, <5>1
        <5> QED
          BY ONLY <1>d, <4>2, <5>2
    <3>4. /\ surfacesLatest'.surface = surfacesLatest.surface
          /\ surfacesCarried'["capture"].surface = surfacesCarried["capture"].surface
          /\ surfacesCarried'["refiner"].surface = surfacesCarried["refiner"].surface
          /\ \A x \in Surfaces!Surface : Is(0, x) = 0
      BY <2>1, <3>1 DEF Is
    <3> QED
      <4> SUFFICES ASSUME NEW x \in Surfaces!Surface
                   PROVE  /\ uses'[x] = Count(delivered', x) + Is(surfacesLatest'.surface, x)
                                        + Count(Read', x)
                          /\ refs'[x] = uses'[x] + Is(surfacesCarried'["capture"].surface, x)
                                          + Is(surfacesCarried'["refiner"].surface, x)
        BY <3>2 DEF CountsFollow, CountsHold
      <4>1. /\ uses[x] = Count(delivered, x) + Is(surfacesLatest.surface, x) + Count(Read, x)
            /\ refs[x] = uses[x] + Is(surfacesCarried["capture"].surface, x)
                            + Is(surfacesCarried["refiner"].surface, x)
        BY ONLY <1>d DEF CountsFollow, CountsHold
      <4>2. Count(delivered, x) \in Nat /\ Count(Read, x) \in Nat
        BY ONLY <1>b
      <4> QED
        BY ONLY <1>d, <3>1, <3>2, <3>3, <3>4, <4>1, <4>2
  <2>3. Surfaces!TypeOK'
    <3>1. delivered' \in Seq(Surfaces!Surface) /\ surfacesCoding' \in Seq(InEncoder)
      BY <1>b, <2>1
    <3>2. uses' \in [Surfaces!Surface -> Nat] /\ refs' \in [Surfaces!Surface -> Nat]
      BY <2>2, <3>1, CountsAreNat DEF CountsFollow, Read
    <3> QED
      <4>1. Len(surfacesCoding') <= SurfacesMaxCoding
        BY <1>b, <2>1
      <4> QED
        BY <2>1, <3>1, <3>2, <4>1 DEF InEncoder
  <2>4. Holders'
    BY <1>b, <1>c, <2>1
  <2>5. InOrder'
    BY <1>b, <1>c, <2>1
  <2>6. Kept'
    BY <1>b, <1>c, <2>1
  <2>7. Surfaces!ShowsMeant'
    <3>1. \A i \in DOMAIN surfacesCoding' : /\ i + 1 \in DOMAIN surfacesCoding
                                            /\ surfacesCoding'[i] = surfacesCoding[i + 1]
      <4>1. surfacesCoding \in Seq(InEncoder) /\ surfacesCoding # <<>>
            /\ surfacesCoding' = Tail(surfacesCoding)
        BY <1>b, <2>1
      <4>2. /\ DOMAIN surfacesCoding' = 1 .. Len(surfacesCoding) - 1
            /\ DOMAIN surfacesCoding = 1 .. Len(surfacesCoding) /\ Len(surfacesCoding) \in Nat \ {0}
            /\ \A i \in DOMAIN surfacesCoding' : surfacesCoding'[i] = surfacesCoding[i + 1]
        BY ONLY <4>1
      <4> QED
        BY ONLY <4>2
    <3> QED
      BY <2>1, <3>1
  <2> QED
    BY <2>2, <2>3, <2>4, <2>5, <2>6, <2>7
<1>8. ASSUME NEW t \in Surfaces!Thread, Surfaces!Encode(t) PROVE SurfacesInv'
  <2> DEFINE p == surfacesCarried[t].surface
             f == [surface |-> p, meant |-> surfacesCarried[t].meant,
                   shows |-> IF drawing = p THEN 0 ELSE content[p]]
  <2>1. /\ surfacesAt[t] = "submitting" /\ Len(surfacesCoding) < SurfacesMaxCoding
        /\ surfacesCoding' = Append(surfacesCoding, f)
        /\ refs' = Surfaces!Retained(refs, f.surface) /\ uses' = Surfaces!Retained(uses, f.surface)
        /\ surfacesAt' = [surfacesAt EXCEPT ![t] = "submitted"]
        /\ UNCHANGED <<Surfaces!pool, surfacesLife, surfacesCarried, surfacesLatest, noted,
                       surfacesStop>>
    BY <1>8 DEF Surfaces!Encode, Surfaces!Retained, Surfaces!Torn
  <2> HIDE DEF f
  <2>f. f \in InEncoder /\ f.surface = surfacesCarried[t].surface
    <3>1. surfacesCarried[t].surface \in Surfaces!Surface
          /\ surfacesCarried[t].meant \in Surfaces!Capture
      BY <1>d, <2>1
    <3> QED
      <4>1. (IF drawing = p THEN 0 ELSE content[p]) \in Surfaces!Capture
        <5>1. p \in Surfaces!Surface /\ 0 \in Surfaces!Capture
          BY <3>1
        <5> QED
          BY ONLY <1>e, <5>1
      <4> QED
        BY <3>1, <4>1 DEF InEncoder, f
  <2>2. CountsFollow' /\ Counts(uses') /\ Counts(refs')
    <3>1. f.surface \in Surfaces!Surface /\ f.surface # 0
      BY <2>f DEF InEncoder
    <3>2. /\ Counts(uses') /\ Counts(refs')
          /\ \A x \in Surfaces!Surface : uses'[x] = uses[x] + Is(f.surface, x)
          /\ \A x \in Surfaces!Surface : refs'[x] = refs[x] + Is(f.surface, x)
      <4>1. /\ Counts(Surfaces!Retained(uses, f.surface))
            /\ Differs(Surfaces!Retained(uses, f.surface), uses, f.surface, 1)
        BY ONLY <1>d, <3>1, Raised
      <4>2. /\ Counts(Surfaces!Retained(refs, f.surface))
            /\ Differs(Surfaces!Retained(refs, f.surface), refs, f.surface, 1)
        BY ONLY <1>d, <3>1, Raised
      <4>e. uses' = Surfaces!Retained(uses, f.surface) /\ refs' = Surfaces!Retained(refs, f.surface)
        BY ONLY <2>1 DEF Surfaces!pool, Surfaces!threads, Surfaces!counts
      <4>f. \A x \in Surfaces!Surface : uses[x] \in Int /\ refs[x] \in Int
        BY ONLY <1>d DEF Counts
      <4> HIDE DEF Surfaces!counts
      <4> QED
        BY ONLY <1>d, <4>e, <4>f, <4>1, <4>2 DEF Differs
    <3>3. /\ \A x \in Surfaces!Surface : Count(delivered', x) = Count(delivered, x)
          /\ \A x \in Surfaces!Surface : Count(Read', x) = Count(Read, x) + Is(f.surface, x)
      <4>1. Read' = Append(Read, f.surface)
        <5>1. Read' = Surfs(Append(surfacesCoding, f)) /\ Read = Surfs(surfacesCoding)
          BY ONLY <2>1 DEF Read
        <5> QED
          BY ONLY <1>b, <2>f, <5>1, SurfsFollow
      <4>2. delivered' = delivered
        BY <2>1
      <4> QED
        BY ONLY <1>b, <3>1, <4>1, <4>2, CountAppend
    <3>4. /\ surfacesLatest'.surface = surfacesLatest.surface
          /\ surfacesCarried'["capture"].surface = surfacesCarried["capture"].surface
          /\ surfacesCarried'["refiner"].surface = surfacesCarried["refiner"].surface
          /\ \A x \in Surfaces!Surface : Is(0, x) = 0
      BY <2>1, <3>1 DEF Is
    <3> QED
      <4> SUFFICES ASSUME NEW x \in Surfaces!Surface
                   PROVE  /\ uses'[x] = Count(delivered', x) + Is(surfacesLatest'.surface, x)
                                        + Count(Read', x)
                          /\ refs'[x] = uses'[x] + Is(surfacesCarried'["capture"].surface, x)
                                          + Is(surfacesCarried'["refiner"].surface, x)
        BY <3>2 DEF CountsFollow, CountsHold
      <4>1. /\ uses[x] = Count(delivered, x) + Is(surfacesLatest.surface, x) + Count(Read, x)
            /\ refs[x] = uses[x] + Is(surfacesCarried["capture"].surface, x)
                            + Is(surfacesCarried["refiner"].surface, x)
        BY ONLY <1>d DEF CountsFollow, CountsHold
      <4>2. Count(delivered, x) \in Nat /\ Count(Read, x) \in Nat
        BY ONLY <1>b
      <4> QED
        BY ONLY <1>d, <3>1, <3>2, <3>3, <3>4, <4>1, <4>2
  <2>3. Surfaces!TypeOK'
    <3>1. delivered' \in Seq(Surfaces!Surface) /\ surfacesCoding' \in Seq(InEncoder)
      BY <1>b, <2>1, <2>f
    <3>2. uses' \in [Surfaces!Surface -> Nat] /\ refs' \in [Surfaces!Surface -> Nat]
      BY <2>2, <3>1, CountsAreNat DEF CountsFollow, Read
    <3> QED
      <4>1. Len(surfacesCoding') <= SurfacesMaxCoding
        BY <1>b, <2>1, <2>f
      <4> QED
        BY <2>1, <3>1, <3>2, <4>1 DEF InEncoder
  <2>4. Holders'
    BY <1>b, <1>c, <2>1
  <2>5. InOrder'
    BY <1>b, <1>c, <2>1
  <2>6. Kept'
    BY <1>b, <1>c, <2>1
  <2>7. Surfaces!ShowsMeant'
    <3> SUFFICES ASSUME ~surfacesStop
                 PROVE  \A i \in DOMAIN surfacesCoding' :
                   \/ surfacesCoding'[i].shows = surfacesCoding'[i].meant
                   \/ surfacesCoding'[i].meant < noted
      BY <2>1
    <3>1. f.shows = f.meant \/ f.meant < noted
      <4>1. CASE t = "capture"
        <5>1. /\ delivered # <<>> /\ 1 \in DOMAIN delivered /\ p = delivered[1]
              /\ surfacesCarried[t].meant = content[p]
          BY <1>b, <2>1, <4>1
        <5>2. drawing # p
          BY <1>b, <5>1
        <5> QED
          BY <5>1, <5>2 DEF f
      <4>2. CASE t = "refiner"
        <5>1. surfacesCarried[t] = surfacesLatest \/ surfacesCarried[t].meant < noted
          BY <2>1, <4>2
        <5>2. ASSUME surfacesCarried[t] = surfacesLatest PROVE f.shows = f.meant
          <6>1. surfacesLatest # Surfaces!Nothing
            BY <2>1, <5>2
          <6>2. content[p] = surfacesLatest.meant /\ drawing # p
            BY <5>2, <6>1
          <6> QED
            BY <5>2, <6>2 DEF f
        <5> QED
          BY <5>1, <5>2 DEF f
      <4> QED
        BY <4>1, <4>2
    <3>2. /\ DOMAIN surfacesCoding' = 1 .. Len(surfacesCoding) + 1
          /\ DOMAIN surfacesCoding = 1 .. Len(surfacesCoding) /\ Len(surfacesCoding) \in Nat
          /\ surfacesCoding'[Len(surfacesCoding) + 1] = f
          /\ \A i \in DOMAIN surfacesCoding : surfacesCoding'[i] = surfacesCoding[i]
      BY <1>b, <2>1, <2>f
    <3>3. \A i \in DOMAIN surfacesCoding' : i \in DOMAIN surfacesCoding \/ i = Len(surfacesCoding) + 1
      BY <3>2
    <3> QED
      BY <3>1, <3>2, <3>3
  <2> QED
    BY <2>2, <2>3, <2>4, <2>5, <2>6, <2>7
<1>9. ASSUME NEW t \in Surfaces!Thread, Surfaces!NotEncoded(t) PROVE SurfacesInv'
  BY <1>9, <1>b DEF Surfaces!NotEncoded, CountsFollow, CountsHold, Read
<1>10. ASSUME Surfaces!Pass PROVE SurfacesInv'
  <2>1. /\ surfacesAt["refiner"] = "idle" /\ ~surfacesStop /\ surfacesLatest # Surfaces!Nothing
        /\ surfacesCarried' = [surfacesCarried EXCEPT !["refiner"] = surfacesLatest]
        /\ refs' = Surfaces!Retained(refs, surfacesLatest.surface)
        /\ surfacesAt' = [surfacesAt EXCEPT !["refiner"] = "submitting"]
        /\ UNCHANGED <<Surfaces!pool, surfacesLife, surfacesLatest, noted, surfacesStop,
                       surfacesCoding, uses>>
    BY <1>10 DEF Surfaces!Pass
  <2>2. CountsFollow' /\ Counts(uses') /\ Counts(refs')
    <3>1. surfacesLatest.surface \in Surfaces!Surface /\ surfacesLatest.surface # 0
          /\ surfacesCarried["refiner"].surface = 0
      BY <1>d, <2>1
    <3>2. /\ Counts(uses') /\ Counts(refs')
          /\ \A x \in Surfaces!Surface : uses'[x] = uses[x]
          /\ \A x \in Surfaces!Surface : refs'[x] = refs[x] + Is(surfacesLatest.surface, x)
      <4>1. /\ Counts(Surfaces!Retained(refs, surfacesLatest.surface))
            /\ Differs(Surfaces!Retained(refs, surfacesLatest.surface), refs, surfacesLatest.surface, 1)
        BY ONLY <1>d, <3>1, Raised
      <4>e. uses' = uses /\ refs' = Surfaces!Retained(refs, surfacesLatest.surface)
        BY ONLY <2>1 DEF Surfaces!pool, Surfaces!threads, Surfaces!counts
      <4>f. \A x \in Surfaces!Surface : uses[x] \in Int /\ refs[x] \in Int
        BY ONLY <1>d DEF Counts
      <4> HIDE DEF Surfaces!counts
      <4> QED
        BY ONLY <1>d, <4>e, <4>f, <4>1 DEF Differs
    <3>3. /\ \A x \in Surfaces!Surface : Count(delivered', x) = Count(delivered, x)
          /\ \A x \in Surfaces!Surface : Count(Read', x) = Count(Read, x)
      BY ONLY <2>1 DEF Read, Surfaces!pool, Surfaces!threads, Surfaces!counts
    <3>4. /\ surfacesLatest'.surface = surfacesLatest.surface
          /\ surfacesCarried'["capture"].surface = surfacesCarried["capture"].surface
          /\ surfacesCarried'["refiner"].surface = surfacesLatest.surface
          /\ \A x \in Surfaces!Surface : Is(0, x) = 0
      BY <2>1, <3>1 DEF Is
    <3> QED
      <4> SUFFICES ASSUME NEW x \in Surfaces!Surface
                   PROVE  /\ uses'[x] = Count(delivered', x) + Is(surfacesLatest'.surface, x)
                                        + Count(Read', x)
                          /\ refs'[x] = uses'[x] + Is(surfacesCarried'["capture"].surface, x)
                                          + Is(surfacesCarried'["refiner"].surface, x)
        BY <3>2 DEF CountsFollow, CountsHold
      <4>1. /\ uses[x] = Count(delivered, x) + Is(surfacesLatest.surface, x) + Count(Read, x)
            /\ refs[x] = uses[x] + Is(surfacesCarried["capture"].surface, x)
                            + Is(surfacesCarried["refiner"].surface, x)
        BY ONLY <1>d DEF CountsFollow, CountsHold
      <4>2. Count(delivered, x) \in Nat /\ Count(Read, x) \in Nat
        BY ONLY <1>b
      <4> QED
        BY ONLY <1>d, <3>1, <3>2, <3>3, <3>4, <4>1, <4>2
  <2>3. Surfaces!TypeOK'
    <3>1. delivered' \in Seq(Surfaces!Surface) /\ surfacesCoding' \in Seq(InEncoder)
      BY <1>b, <2>1
    <3>2. uses' \in [Surfaces!Surface -> Nat] /\ refs' \in [Surfaces!Surface -> Nat]
      BY <2>2, <3>1, CountsAreNat DEF CountsFollow, Read
    <3> QED
      BY <1>b, <2>1, <3>1, <3>2 DEF InEncoder
  <2>4. Holders'
    BY <1>b, <1>c, <2>1
  <2>5. InOrder'
    BY <1>b, <1>c, <2>1
  <2>6. Kept'
    BY <1>b, <1>c, <2>1
  <2>7. Surfaces!ShowsMeant'
    BY <1>b, <1>c, <2>1
  <2> QED
    BY <2>2, <2>3, <2>4, <2>5, <2>6, <2>7
<1>11. ASSUME Surfaces!PassEnds PROVE SurfacesInv'
  <2>1. /\ surfacesAt["refiner"] = "submitted"
        /\ refs' = Surfaces!Dropped(refs, surfacesCarried["refiner"].surface)
        /\ surfacesCarried' = [surfacesCarried EXCEPT !["refiner"] = Surfaces!Nothing]
        /\ surfacesAt' = [surfacesAt EXCEPT !["refiner"] = "idle"]
        /\ UNCHANGED <<Surfaces!pool, surfacesLife, surfacesLatest, noted, surfacesStop,
                       surfacesCoding, uses>>
    BY <1>11 DEF Surfaces!PassEnds
  <2>2. CountsFollow' /\ Counts(uses') /\ Counts(refs')
    <3>1. surfacesCarried["refiner"].surface \in Surfaces!Surface
          /\ surfacesCarried["refiner"].surface # 0
      BY <1>d, <2>1
    <3>2. /\ Counts(uses') /\ Counts(refs')
          /\ \A x \in Surfaces!Surface : uses'[x] = uses[x]
          /\ \A x \in Surfaces!Surface : refs'[x] = refs[x] - Is(surfacesCarried["refiner"].surface, x)
      <4>1. /\ Counts(Surfaces!Dropped(refs, surfacesCarried["refiner"].surface))
            /\ Differs(Surfaces!Dropped(refs, surfacesCarried["refiner"].surface), refs, surfacesCarried["refiner"].surface, -1)
        BY ONLY <1>d, <3>1, Lowered
      <4>e. uses' = uses /\ refs' = Surfaces!Dropped(refs, surfacesCarried["refiner"].surface)
        BY ONLY <2>1 DEF Surfaces!pool, Surfaces!threads, Surfaces!counts
      <4>f. \A x \in Surfaces!Surface : uses[x] \in Int /\ refs[x] \in Int
        BY ONLY <1>d DEF Counts
      <4> HIDE DEF Surfaces!counts
      <4> QED
        BY ONLY <1>d, <4>e, <4>f, <4>1 DEF Differs
    <3>3. /\ \A x \in Surfaces!Surface : Count(delivered', x) = Count(delivered, x)
          /\ \A x \in Surfaces!Surface : Count(Read', x) = Count(Read, x)
      BY ONLY <2>1 DEF Read, Surfaces!pool, Surfaces!threads, Surfaces!counts
    <3>4. /\ surfacesLatest'.surface = surfacesLatest.surface
          /\ surfacesCarried'["capture"].surface = surfacesCarried["capture"].surface
          /\ surfacesCarried'["refiner"].surface = 0
          /\ \A x \in Surfaces!Surface : Is(0, x) = 0
      BY <2>1, <3>1 DEF Is
    <3> QED
      <4> SUFFICES ASSUME NEW x \in Surfaces!Surface
                   PROVE  /\ uses'[x] = Count(delivered', x) + Is(surfacesLatest'.surface, x)
                                        + Count(Read', x)
                          /\ refs'[x] = uses'[x] + Is(surfacesCarried'["capture"].surface, x)
                                          + Is(surfacesCarried'["refiner"].surface, x)
        BY <3>2 DEF CountsFollow, CountsHold
      <4>1. /\ uses[x] = Count(delivered, x) + Is(surfacesLatest.surface, x) + Count(Read, x)
            /\ refs[x] = uses[x] + Is(surfacesCarried["capture"].surface, x)
                            + Is(surfacesCarried["refiner"].surface, x)
        BY ONLY <1>d DEF CountsFollow, CountsHold
      <4>2. Count(delivered, x) \in Nat /\ Count(Read, x) \in Nat
        BY ONLY <1>b
      <4> QED
        BY ONLY <1>d, <3>1, <3>2, <3>3, <3>4, <4>1, <4>2
  <2>3. Surfaces!TypeOK'
    <3>1. delivered' \in Seq(Surfaces!Surface) /\ surfacesCoding' \in Seq(InEncoder)
      BY <1>b, <2>1
    <3>2. uses' \in [Surfaces!Surface -> Nat] /\ refs' \in [Surfaces!Surface -> Nat]
      BY <2>2, <3>1, CountsAreNat DEF CountsFollow, Read
    <3> QED
      BY <1>b, <2>1, <3>1, <3>2 DEF InEncoder
  <2>4. Holders'
    BY <1>b, <1>c, <2>1
  <2>5. InOrder'
    BY <1>b, <1>c, <2>1
  <2>6. Kept'
    BY <1>b, <1>c, <2>1
  <2>7. Surfaces!ShowsMeant'
    BY <1>b, <1>c, <2>1
  <2> QED
    BY <2>2, <2>3, <2>4, <2>5, <2>6, <2>7
<1>12. ASSUME Surfaces!Rest PROVE SurfacesInv'
  <2>1. /\ surfacesLatest' = Surfaces!Nothing
        /\ refs' = Surfaces!Dropped(refs, surfacesLatest.surface)
        /\ uses' = Surfaces!Unused(uses, surfacesLatest.surface)
        /\ surfacesAt["refiner"] = "idle" /\ ~surfacesStop /\ surfacesLatest # Surfaces!Nothing
        /\ UNCHANGED <<Surfaces!pool, surfacesLife, surfacesAt, surfacesCarried, noted, surfacesStop,
                       surfacesCoding>>
    BY <1>12 DEF Surfaces!Rest, Surfaces!LetGo
  <2>2. CountsFollow' /\ Counts(uses') /\ Counts(refs')
    <3>1. surfacesLatest.surface \in Surfaces!Surface \cup {0}
      BY <1>d
    <3>2. /\ Counts(uses') /\ Counts(refs')
          /\ \A x \in Surfaces!Surface : uses'[x] = uses[x] - Is(surfacesLatest.surface, x)
          /\ \A x \in Surfaces!Surface : refs'[x] = refs[x] - Is(surfacesLatest.surface, x)
      <4>1. /\ Counts(Surfaces!Unused(uses, surfacesLatest.surface))
            /\ Differs(Surfaces!Unused(uses, surfacesLatest.surface), uses, surfacesLatest.surface, -1)
        BY ONLY <1>d, <3>1, Lowered
      <4>2. /\ Counts(Surfaces!Dropped(refs, surfacesLatest.surface))
            /\ Differs(Surfaces!Dropped(refs, surfacesLatest.surface), refs, surfacesLatest.surface, -1)
        BY ONLY <1>d, <3>1, Lowered
      <4>e. uses' = Surfaces!Unused(uses, surfacesLatest.surface)
            /\ refs' = Surfaces!Dropped(refs, surfacesLatest.surface)
        BY ONLY <2>1 DEF Surfaces!pool, Surfaces!threads, Surfaces!counts
      <4>f. \A x \in Surfaces!Surface : uses[x] \in Int /\ refs[x] \in Int
        BY ONLY <1>d DEF Counts
      <4> HIDE DEF Surfaces!counts
      <4> QED
        BY ONLY <1>d, <4>e, <4>f, <4>1, <4>2 DEF Differs
    <3>3. /\ \A x \in Surfaces!Surface : Count(delivered', x) = Count(delivered, x)
          /\ \A x \in Surfaces!Surface : Count(Read', x) = Count(Read, x)
      BY ONLY <2>1 DEF Read, Surfaces!pool, Surfaces!threads, Surfaces!counts
    <3>4. /\ surfacesLatest'.surface = 0
          /\ surfacesCarried'["capture"].surface = surfacesCarried["capture"].surface
          /\ surfacesCarried'["refiner"].surface = surfacesCarried["refiner"].surface
          /\ \A x \in Surfaces!Surface : Is(0, x) = 0
      BY <2>1, <3>1 DEF Is
    <3> QED
      <4> SUFFICES ASSUME NEW x \in Surfaces!Surface
                   PROVE  /\ uses'[x] = Count(delivered', x) + Is(surfacesLatest'.surface, x)
                                        + Count(Read', x)
                          /\ refs'[x] = uses'[x] + Is(surfacesCarried'["capture"].surface, x)
                                          + Is(surfacesCarried'["refiner"].surface, x)
        BY <3>2 DEF CountsFollow, CountsHold
      <4>1. /\ uses[x] = Count(delivered, x) + Is(surfacesLatest.surface, x) + Count(Read, x)
            /\ refs[x] = uses[x] + Is(surfacesCarried["capture"].surface, x)
                            + Is(surfacesCarried["refiner"].surface, x)
        BY ONLY <1>d DEF CountsFollow, CountsHold
      <4>2. Count(delivered, x) \in Nat /\ Count(Read, x) \in Nat
        BY ONLY <1>b
      <4> QED
        BY ONLY <1>d, <3>1, <3>2, <3>3, <3>4, <4>1, <4>2
  <2>3. Surfaces!TypeOK'
    <3>1. delivered' \in Seq(Surfaces!Surface) /\ surfacesCoding' \in Seq(InEncoder)
      BY <1>b, <2>1
    <3>2. uses' \in [Surfaces!Surface -> Nat] /\ refs' \in [Surfaces!Surface -> Nat]
      BY <2>2, <3>1, CountsAreNat DEF CountsFollow, Read
    <3> QED
      BY <1>b, <2>1, <3>1, <3>2 DEF InEncoder
  <2>4. Holders'
    BY <1>b, <1>c, <2>1
  <2>5. InOrder'
    BY <1>b, <1>c, <2>1
  <2>6. Kept'
    BY <1>b, <1>c, <2>1
  <2>7. Surfaces!ShowsMeant'
    BY <1>b, <1>c, <2>1
  <2> QED
    BY <2>2, <2>3, <2>4, <2>5, <2>6, <2>7
<1>13. ASSUME Surfaces!StopStream PROVE SurfacesInv'
  BY <1>13 DEF Surfaces!StopStream, CountsFollow, CountsHold, Read
<1>14. ASSUME Surfaces!StopRefiner PROVE SurfacesInv'
  <2>1. /\ surfacesLatest' = Surfaces!Nothing
        /\ refs' = Surfaces!Dropped(refs, surfacesLatest.surface)
        /\ uses' = Surfaces!Unused(uses, surfacesLatest.surface)
        /\ surfacesLife = "stopping" /\ surfacesLife' = "joining" /\ surfacesStop' = TRUE
        /\ UNCHANGED <<Surfaces!pool, surfacesAt, surfacesCarried, noted, surfacesCoding>>
    BY <1>14 DEF Surfaces!StopRefiner, Surfaces!LetGo
  <2>2. CountsFollow' /\ Counts(uses') /\ Counts(refs')
    <3>1. surfacesLatest.surface \in Surfaces!Surface \cup {0}
      BY <1>d
    <3>2. /\ Counts(uses') /\ Counts(refs')
          /\ \A x \in Surfaces!Surface : uses'[x] = uses[x] - Is(surfacesLatest.surface, x)
          /\ \A x \in Surfaces!Surface : refs'[x] = refs[x] - Is(surfacesLatest.surface, x)
      <4>1. /\ Counts(Surfaces!Unused(uses, surfacesLatest.surface))
            /\ Differs(Surfaces!Unused(uses, surfacesLatest.surface), uses, surfacesLatest.surface, -1)
        BY ONLY <1>d, <3>1, Lowered
      <4>2. /\ Counts(Surfaces!Dropped(refs, surfacesLatest.surface))
            /\ Differs(Surfaces!Dropped(refs, surfacesLatest.surface), refs, surfacesLatest.surface, -1)
        BY ONLY <1>d, <3>1, Lowered
      <4>e. uses' = Surfaces!Unused(uses, surfacesLatest.surface)
            /\ refs' = Surfaces!Dropped(refs, surfacesLatest.surface)
        BY ONLY <2>1 DEF Surfaces!pool, Surfaces!threads, Surfaces!counts
      <4>f. \A x \in Surfaces!Surface : uses[x] \in Int /\ refs[x] \in Int
        BY ONLY <1>d DEF Counts
      <4> HIDE DEF Surfaces!counts
      <4> QED
        BY ONLY <1>d, <4>e, <4>f, <4>1, <4>2 DEF Differs
    <3>3. /\ \A x \in Surfaces!Surface : Count(delivered', x) = Count(delivered, x)
          /\ \A x \in Surfaces!Surface : Count(Read', x) = Count(Read, x)
      BY ONLY <2>1 DEF Read, Surfaces!pool, Surfaces!threads, Surfaces!counts
    <3>4. /\ surfacesLatest'.surface = 0
          /\ surfacesCarried'["capture"].surface = surfacesCarried["capture"].surface
          /\ surfacesCarried'["refiner"].surface = surfacesCarried["refiner"].surface
          /\ \A x \in Surfaces!Surface : Is(0, x) = 0
      BY <2>1, <3>1 DEF Is
    <3> QED
      <4> SUFFICES ASSUME NEW x \in Surfaces!Surface
                   PROVE  /\ uses'[x] = Count(delivered', x) + Is(surfacesLatest'.surface, x)
                                        + Count(Read', x)
                          /\ refs'[x] = uses'[x] + Is(surfacesCarried'["capture"].surface, x)
                                          + Is(surfacesCarried'["refiner"].surface, x)
        BY <3>2 DEF CountsFollow, CountsHold
      <4>1. /\ uses[x] = Count(delivered, x) + Is(surfacesLatest.surface, x) + Count(Read, x)
            /\ refs[x] = uses[x] + Is(surfacesCarried["capture"].surface, x)
                            + Is(surfacesCarried["refiner"].surface, x)
        BY ONLY <1>d DEF CountsFollow, CountsHold
      <4>2. Count(delivered, x) \in Nat /\ Count(Read, x) \in Nat
        BY ONLY <1>b
      <4> QED
        BY ONLY <1>d, <3>1, <3>2, <3>3, <3>4, <4>1, <4>2
  <2>3. Surfaces!TypeOK'
    <3>1. delivered' \in Seq(Surfaces!Surface) /\ surfacesCoding' \in Seq(InEncoder)
      BY <1>b, <2>1
    <3>2. uses' \in [Surfaces!Surface -> Nat] /\ refs' \in [Surfaces!Surface -> Nat]
      BY <2>2, <3>1, CountsAreNat DEF CountsFollow, Read
    <3> QED
      BY <1>b, <2>1, <3>1, <3>2 DEF InEncoder
  <2>4. Holders'
    BY <1>b, <1>c, <2>1
  <2>5. InOrder'
    BY <1>b, <1>c, <2>1
  <2>6. Kept'
    BY <1>b, <1>c, <2>1
  <2>7. Surfaces!ShowsMeant'
    BY <1>b, <1>c, <2>1
  <2> QED
    BY <2>2, <2>3, <2>4, <2>5, <2>6, <2>7
<1>15. ASSUME Surfaces!Joined PROVE SurfacesInv'
  BY <1>15 DEF Surfaces!Joined, CountsFollow, CountsHold, Read
<1>16. ASSUME Surfaces!ClosureGone PROVE SurfacesInv'
  <2>1. /\ surfacesLatest' = Surfaces!Nothing
        /\ refs' = Surfaces!Dropped(refs, surfacesLatest.surface)
        /\ uses' = Surfaces!Unused(uses, surfacesLatest.surface)
        /\ surfacesLife = "stopped" /\ ~runs /\ drawing = 0 /\ delivered = <<>>
        /\ surfacesAt["capture"] = "idle" /\ surfacesLife' = "gone"
        /\ UNCHANGED <<Surfaces!pool, surfacesAt, surfacesCarried, noted, surfacesStop, surfacesCoding>>
    BY <1>16 DEF Surfaces!ClosureGone, Surfaces!LetGo
  <2>2. CountsFollow' /\ Counts(uses') /\ Counts(refs')
    <3>1. surfacesLatest.surface \in Surfaces!Surface \cup {0}
      BY <1>d
    <3>2. /\ Counts(uses') /\ Counts(refs')
          /\ \A x \in Surfaces!Surface : uses'[x] = uses[x] - Is(surfacesLatest.surface, x)
          /\ \A x \in Surfaces!Surface : refs'[x] = refs[x] - Is(surfacesLatest.surface, x)
      <4>1. /\ Counts(Surfaces!Unused(uses, surfacesLatest.surface))
            /\ Differs(Surfaces!Unused(uses, surfacesLatest.surface), uses, surfacesLatest.surface, -1)
        BY ONLY <1>d, <3>1, Lowered
      <4>2. /\ Counts(Surfaces!Dropped(refs, surfacesLatest.surface))
            /\ Differs(Surfaces!Dropped(refs, surfacesLatest.surface), refs, surfacesLatest.surface, -1)
        BY ONLY <1>d, <3>1, Lowered
      <4>e. uses' = Surfaces!Unused(uses, surfacesLatest.surface)
            /\ refs' = Surfaces!Dropped(refs, surfacesLatest.surface)
        BY ONLY <2>1 DEF Surfaces!pool, Surfaces!threads, Surfaces!counts
      <4>f. \A x \in Surfaces!Surface : uses[x] \in Int /\ refs[x] \in Int
        BY ONLY <1>d DEF Counts
      <4> HIDE DEF Surfaces!counts
      <4> QED
        BY ONLY <1>d, <4>e, <4>f, <4>1, <4>2 DEF Differs
    <3>3. /\ \A x \in Surfaces!Surface : Count(delivered', x) = Count(delivered, x)
          /\ \A x \in Surfaces!Surface : Count(Read', x) = Count(Read, x)
      BY ONLY <2>1 DEF Read, Surfaces!pool, Surfaces!threads, Surfaces!counts
    <3>4. /\ surfacesLatest'.surface = 0
          /\ surfacesCarried'["capture"].surface = surfacesCarried["capture"].surface
          /\ surfacesCarried'["refiner"].surface = surfacesCarried["refiner"].surface
          /\ \A x \in Surfaces!Surface : Is(0, x) = 0
      BY <2>1, <3>1 DEF Is
    <3> QED
      <4> SUFFICES ASSUME NEW x \in Surfaces!Surface
                   PROVE  /\ uses'[x] = Count(delivered', x) + Is(surfacesLatest'.surface, x)
                                        + Count(Read', x)
                          /\ refs'[x] = uses'[x] + Is(surfacesCarried'["capture"].surface, x)
                                          + Is(surfacesCarried'["refiner"].surface, x)
        BY <3>2 DEF CountsFollow, CountsHold
      <4>1. /\ uses[x] = Count(delivered, x) + Is(surfacesLatest.surface, x) + Count(Read, x)
            /\ refs[x] = uses[x] + Is(surfacesCarried["capture"].surface, x)
                            + Is(surfacesCarried["refiner"].surface, x)
        BY ONLY <1>d DEF CountsFollow, CountsHold
      <4>2. Count(delivered, x) \in Nat /\ Count(Read, x) \in Nat
        BY ONLY <1>b
      <4> QED
        BY ONLY <1>d, <3>1, <3>2, <3>3, <3>4, <4>1, <4>2
  <2>3. Surfaces!TypeOK'
    <3>1. delivered' \in Seq(Surfaces!Surface) /\ surfacesCoding' \in Seq(InEncoder)
      BY <1>b, <2>1
    <3>2. uses' \in [Surfaces!Surface -> Nat] /\ refs' \in [Surfaces!Surface -> Nat]
      BY <2>2, <3>1, CountsAreNat DEF CountsFollow, Read
    <3> QED
      BY <1>b, <2>1, <3>1, <3>2 DEF InEncoder
  <2>4. Holders'
    BY <1>b, <1>c, <2>1
  <2>5. InOrder'
    BY <1>b, <1>c, <2>1
  <2>6. Kept'
    BY <1>b, <1>c, <2>1
  <2>7. Surfaces!ShowsMeant'
    BY <1>b, <1>c, <2>1
  <2> QED
    BY <2>2, <2>3, <2>4, <2>5, <2>6, <2>7
<1>17. ASSUME UNCHANGED surfaces PROVE SurfacesInv'
  BY <1>17 DEF surfaces, CountsFollow, CountsHold, Read
<1> QED
  BY <1>1, <1>2, <1>3, <1>4, <1>5, <1>6, <1>7, <1>8, <1>9, <1>10, <1>11, <1>12, <1>13, <1>14, <1>15,
    <1>16, <1>17
  DEF Surfaces!Next

\* Once all is quiet nobody is left to hold a surface.
LEMMA SurfacesEnd == SurfacesInv => Surfaces!SurfacesTrue
<1> SUFFICES ASSUME SurfacesInv, Surfaces!Quiet, NEW s \in Surfaces!Surface
             PROVE  refs[s] = 0 /\ uses[s] = 0
  BY DEF Surfaces!SurfacesTrue, Surfaces!PoolWhole, SurfacesInv
<1>1. /\ delivered = <<>> /\ surfacesCoding = <<>> /\ surfacesLatest = Surfaces!Nothing
      /\ \A t \in Surfaces!Thread : surfacesCarried[t] = Surfaces!Nothing
  BY DEF Surfaces!Quiet, SurfacesInv, Holders
<1>2. Read = <<>> /\ Count(<<>>, s) = 0
  BY <1>1, FS_EmptySet DEF Read, Surfs, Count
<1>3. Is(0, s) = 0
  BY PartsAssumption DEF Is, Surfaces!Surface
<1>4. /\ surfacesLatest.surface = 0
      /\ surfacesCarried["capture"].surface = 0 /\ surfacesCarried["refiner"].surface = 0
  BY <1>1 DEF Surfaces!Nothing, Surfaces!None, Surfaces!Thread
<1>5. /\ uses[s] = Count(delivered, s) + Is(surfacesLatest.surface, s) + Count(Read, s)
      /\ refs[s] = uses[s] + Is(surfacesCarried["capture"].surface, s)
                      + Is(surfacesCarried["refiner"].surface, s)
  BY DEF SurfacesInv, CountsFollow, CountsHold
<1> QED
  BY <1>1, <1>2, <1>3, <1>4, <1>5

-----------------------------------------------------------------------------
(* RateControl: the rate in the hardware session.                          *)

\* A session being created has the rate that is asked for, and the one there
\* is has it unless it is yet to be told, as long as no report crossed a
\* rebuild and no call failed.
RateFollows ==
  /\ applied = rate
  /\ ~overlapped /\ building # 0 => ~setting /\ building = rate
  /\ ~overlapped /\ building = 0 /\ ~setting => hardware = rate

RatesInv == Rates!TypeOK /\ RateFollows

LEMMA RatesInit == Rates!Init => RatesInv
<1> SUFFICES ASSUME Rates!Init PROVE RatesInv
  OBVIOUS
<1>1. /\ rate = MaxRate /\ mode = "Steady" /\ clean = 0 /\ hold = 0
      /\ applied = rate /\ hardware = rate /\ building = 0
  BY DEF Rates!Init
<1>2. ratesOwed = FALSE /\ debounced = FALSE /\ setting = FALSE /\ ratesCalm = FALSE /\ overlapped = FALSE
  BY DEF Rates!Init
<1>3. {ratesOwed, debounced, setting, ratesCalm, overlapped} \subseteq BOOLEAN
  BY <1>2, Zenon
<1>4. MaxRate \in MinRate .. MaxRate /\ 0 \in 0 .. ProbeAfter /\ 0 \in 0 .. HoldTicks
  BY PartsAssumption DEF Rates!Assumption
<1> QED
  BY <1>1, <1>2, <1>3, <1>4 DEF RatesInv, Rates!TypeOK, RateFollows, Rates!Rate, Rates!Mode

\* A rate is within the engine's bounds whatever is asked of it.
LEMMA ClampedInRange == ASSUME NEW kbps \in Int PROVE Rates!Clamped(kbps) \in Rates!Rate
  BY PartsAssumption DEF Rates!Assumption, Rates!Clamped, Rates!Least, Rates!Most, Rates!Rate

LEMMA RatesReport ==
  ASSUME RatesInv, NEW loss \in Rates!LossClass, NEW delay \in Rates!DelayClass,
         NEW rx \in {0, MaxRate - 2}, NEW limited \in BOOLEAN,
         Rates!OnReactiveStats(loss, delay, rx, limited)
  PROVE  RatesInv'
<1> USE PartsAssumption DEF Rates!Assumption
<1>1. /\ rate \in Rates!Rate /\ mode \in Rates!Mode /\ clean \in 0 .. ProbeAfter
      /\ hold \in 0 .. HoldTicks /\ applied = rate /\ hardware \in Rates!Rate
      /\ building \in Rates!Rate \cup {0} /\ rate \in Int
  BY DEF RatesInv, RateFollows, Rates!TypeOK, Rates!Rate
<1>2. ratesOwed \in BOOLEAN /\ debounced \in BOOLEAN /\ setting = FALSE /\ ratesCalm \in BOOLEAN /\ overlapped \in BOOLEAN
  BY Zenon DEF RatesInv, Rates!TypeOK, Rates!OnReactiveStats
<1>3. rx \in Int /\ MaxRate \in Int
  OBVIOUS
<1> DEFINE verdict == Rates!Classified(loss, delay)
           held == IF hold = 0 THEN 0 ELSE hold - 1
           cut == (verdict = "Backoff" /\ held = 0) \/ (verdict = "Panic" /\ mode # "Panic")
<1>4. /\ mode' = verdict
      /\ rate' = CASE verdict = "Backoff" /\ cut -> Rates!BackedOff(rx)
                   [] verdict = "Panic" /\ cut -> Rates!Panicked(rx)
                   [] verdict = "ProbeUp" /\ ~limited -> Rates!Probed
                   [] OTHER -> rate
      /\ hold' = IF cut THEN HoldTicks ELSE held
      /\ clean' = IF verdict = "Steady" /\ loss = 0 /\ delay = 0 THEN clean + 1 ELSE 0
  BY DEF Rates!OnReactiveStats, Rates!UpdateSignals
<1>5. Rates!BackedOff(rx) \in Rates!Rate /\ Rates!Panicked(rx) \in Rates!Rate /\ Rates!Probed \in Rates!Rate
  BY <1>1, <1>3, ClampedInRange DEF Rates!BackedOff, Rates!Panicked, Rates!Probed, Rates!Least, Rates!Most
<1>6. rate' \in Rates!Rate
  BY <1>1, <1>4, <1>5, Zenon
<1>7. hold' \in 0 .. HoldTicks
  BY <1>1, <1>4
<1>8. verdict \in Rates!Mode /\ (verdict = "Steady" /\ loss = 0 /\ delay = 0 => clean < ProbeAfter)
  BY <1>1 DEF Rates!Classified, Rates!Mode
<1>9. clean' \in 0 .. ProbeAfter
  BY <1>1, <1>4, <1>8
<1>10. /\ applied' = rate' /\ UNCHANGED <<hardware, building>>
  BY DEF Rates!OnReactiveStats
<1>11. /\ (setting' <=> rate' # rate) /\ setting' \in BOOLEAN
       /\ (overlapped' <=> overlapped \/ (building # 0 /\ rate' # rate)) /\ overlapped' \in BOOLEAN
  BY <1>1, <1>2, Zenon DEF Rates!OnReactiveStats
<1>12. ratesOwed' \in BOOLEAN /\ debounced' \in BOOLEAN /\ ratesCalm' \in BOOLEAN
  BY <1>2, Zenon DEF Rates!OnReactiveStats, Rates!KeyframeAsked
<1>13. RateFollows'
  BY <1>1, <1>2, <1>10, <1>11 DEF RatesInv, RateFollows
<1>14. {ratesOwed, debounced, setting, ratesCalm, overlapped}' \subseteq BOOLEAN
  BY <1>11, <1>12, Zenon
<1> QED
  BY <1>1, <1>4, <1>6, <1>7, <1>8, <1>9, <1>10, <1>13, <1>14 DEF RatesInv, Rates!TypeOK, Rates!Rate

LEMMA RatesStep == RatesInv /\ [Rates!Next]_rates => RatesInv'
<1> SUFFICES ASSUME RatesInv, [Rates!Next]_rates PROVE RatesInv'
  OBVIOUS
<1> DEFINE flags == {ratesOwed, debounced, setting, ratesCalm, overlapped}
<1>1. /\ {rate, applied, hardware} \subseteq Rates!Rate /\ building \in Rates!Rate \cup {0}
      /\ mode \in Rates!Mode /\ clean \in 0 .. ProbeAfter /\ hold \in 0 .. HoldTicks
      /\ RateFollows
  BY DEF RatesInv, Rates!TypeOK
<1>2. flags \subseteq BOOLEAN
  BY DEF RatesInv, Rates!TypeOK
<1>3. ASSUME flags' \subseteq BOOLEAN, UNCHANGED Rates!engine,
             {applied, hardware}' \subseteq Rates!Rate, building' \in Rates!Rate \cup {0}, RateFollows'
      PROVE  RatesInv'
  BY <1>1, <1>3 DEF RatesInv, Rates!TypeOK, Rates!engine, Rates!Rate
<1>4. ASSUME Rates!Report PROVE RatesInv'
  BY <1>4, RatesReport DEF Rates!Report
<1>5. ASSUME Rates!SetBitrate PROVE RatesInv'
  <2>1. flags' \subseteq BOOLEAN /\ (overlapped => overlapped')
    <3>1. overlapped' = overlapped \/ overlapped' = TRUE
      BY <1>5, Zenon DEF Rates!SetBitrate
    <3>2. /\ setting' = FALSE /\ ratesOwed' = ratesOwed /\ debounced' = debounced
          /\ ratesCalm' = ratesCalm
      BY <1>5 DEF Rates!SetBitrate
    <3>3. overlapped' \in BOOLEAN
      BY <1>2, <3>1, Zenon
    <3>4. overlapped => overlapped'
      BY <3>1, Zenon
    <3> QED
      BY <1>2, <3>2, <3>3, <3>4, Zenon
  <2>2. /\ UNCHANGED Rates!engine /\ UNCHANGED <<applied, building>>
        /\ hardware' \in {applied, hardware}
        /\ hardware' = applied \/ overlapped'
    BY <1>5 DEF Rates!SetBitrate
  <2>3. setting /\ ~setting'
    BY <1>5, Zenon DEF Rates!SetBitrate
  <2>4. RateFollows'
    BY <1>1, <2>1, <2>2, <2>3 DEF RateFollows, Rates!engine
  <2> QED
    BY <1>1, <1>3, <2>1, <2>2, <2>4
<1>6. ASSUME Rates!Rebuild PROVE RatesInv'
  <2>1. flags' \subseteq BOOLEAN /\ (overlapped' <=> overlapped \/ setting)
    BY <1>2, <1>6, Zenon DEF Rates!Rebuild
  <2>2. /\ UNCHANGED Rates!engine /\ UNCHANGED <<applied, hardware, setting>>
        /\ building = 0 /\ building' = applied
    BY <1>6 DEF Rates!Rebuild
  <2>3. RateFollows'
    BY <1>1, <2>1, <2>2, PartsAssumption DEF RateFollows, Rates!engine, Rates!Rate, Rates!Assumption
  <2> QED
    BY <1>1, <1>3, <2>1, <2>2, <2>3
<1>7. ASSUME Rates!Rebuilt PROVE RatesInv'
  <2>1. flags' \subseteq BOOLEAN /\ UNCHANGED <<overlapped, setting>>
    BY <1>2, <1>7, Zenon DEF Rates!Rebuilt
  <2>2. /\ UNCHANGED Rates!engine /\ UNCHANGED applied
        /\ building # 0 /\ building' = 0 /\ hardware' = building
    BY <1>7 DEF Rates!Rebuilt
  <2>3. RateFollows'
    BY <1>1, <2>1, <2>2 DEF RateFollows, Rates!engine
  <2> QED
    BY <1>1, <1>3, <2>1, <2>2, <2>3
<1>8. ASSUME Rates!KeyframeRequest \/ Rates!KeyframeTaken \/ Rates!Debounced \/ Rates!Calm \/ UNCHANGED rates
      PROVE  RatesInv'
  <2>1. flags' \subseteq BOOLEAN
    BY <1>2, <1>8, Zenon DEF Rates!KeyframeRequest, Rates!KeyframeTaken, Rates!Debounced, Rates!Calm,
                      Rates!KeyframeAsked, Rates!encoder, rates
  <2>2. UNCHANGED Rates!engine /\ UNCHANGED Rates!encoder
    BY <1>8 DEF Rates!KeyframeRequest, Rates!KeyframeTaken, Rates!Debounced, Rates!Calm, rates,
            Rates!engine, Rates!encoder
  <2>3. RateFollows'
    BY <1>1, <2>2 DEF RateFollows, Rates!engine, Rates!encoder
  <2> QED
    BY <1>1, <1>3, <2>1, <2>2, <2>3 DEF Rates!encoder
<1> QED
  BY <1>4, <1>5, <1>6, <1>7, <1>8 DEF Rates!Next
-----------------------------------------------------------------------------
(* CaptureControl: the interval of the stream.                             *)

\* A job belongs to a session begun before it, and one of the session in
\* progress carries the interval noted as applied.  Unless the stream was
\* refused something, that is the interval it runs at when no such job is left.
IntervalFollows ==
  /\ \A j \in jobs \cup applying :
       /\ j.session <= controlSession
       /\ phase \in {"selecting", "starting", "started"} => j.session < controlSession
       /\ phase = "streaming" /\ j.session = controlSession => recent /\ j.interval = controlApplied
  /\ phase # "idle" => controlSession > 0
  /\ stream = IF phase \in {"started", "streaming", "stopping"} THEN controlSession ELSE 0
  /\ applying # {} => phase \in {"started", "streaming"}
  /\ \A j, k \in applying : j = k
  /\ phase = "starting" => ~refused
  /\ phase \in {"starting", "started"} /\ ~refused =>
       os[controlSession].interval = negotiated /\ applying = {}
  /\ phase = "streaming" /\ ~refused =>
       /\ \A j \in applying :
            /\ j.session = controlSession /\ os[controlSession].config = controlApplied
            /\ \A k \in jobs : k.session # controlSession
       /\ (\A j \in jobs \cup applying : j.session # controlSession) =>
            os[controlSession].interval = controlApplied

ControlInv == Control!TypeOK /\ IntervalFollows

\* What ScreenCaptureKit has of a stream.
Streams ==
  [Control!Session -> [runs : BOOLEAN, shows : 0 .. ControlMaxSessions, interval : Control!Interval, config : Control!Interval]]

LEMMA ControlInit == Control!Init => ControlInv
<1> SUFFICES ASSUME Control!Init PROVE ControlInv
  OBVIOUS
<1>1. os \in Streams
  BY PartsAssumption DEF Control!Assumption, Control!Init, Control!NoStream, Streams, Control!Interval, Control!None, Control!Main
<1>2. jobs = {} /\ applying = {} /\ phase = "idle" /\ stream = 0
  BY DEF Control!Init, Control!None
<1>3. recent \in BOOLEAN /\ refused \in BOOLEAN
  BY Zenon DEF Control!Init
<1> QED
  BY <1>1, <1>2, <1>3, PartsAssumption DEF Streams, Control!Assumption, Control!Init, ControlInv, Control!TypeOK, IntervalFollows, Control!Session, Control!Interval, Control!None, Control!Main

LEMMA ControlStep == ControlInv /\ [Control!Next]_control => ControlInv'
<1> SUFFICES ASSUME ControlInv, [Control!Next]_control PROVE ControlInv'
  OBVIOUS
<1>0. os \in Streams
  BY DEF ControlInv, Control!TypeOK, Streams
<1> USE PartsAssumption DEF Control!Assumption, ControlInv, Control!TypeOK, IntervalFollows, Control!Session, Control!Interval, Control!None, Control!Main, Control!clock
<1>1. ASSUME Control!SelectMain PROVE ControlInv'
  BY <1>1 DEF Control!SelectMain
<1>2. ASSUME Control!CreateDisplay PROVE ControlInv'
  <2>1. /\ target' \in {controlSession + 1, 0} /\ displays' \subseteq displays \cup {controlSession + 1}
        /\ phase = "idle" /\ controlSession < ControlMaxSessions /\ controlSession' = controlSession + 1
        /\ phase' = "selecting"
        /\ UNCHANGED <<negotiated, floor, controlApplied, recent, jobs, applying, stream, os, late, refused>>
    BY <1>2 DEF Control!CreateDisplay
  <2> QED
    BY <2>1
<1>3. ASSUME Control!Start PROVE ControlInv'
  <2>1. /\ negotiated' \in Intervals
        /\ os' = [os EXCEPT ![controlSession] =
              [runs |-> FALSE, shows |-> target, interval |-> negotiated', config |-> negotiated']]
        /\ phase = "selecting" /\ phase' = "starting" /\ applying = {} /\ refused' = FALSE
        /\ UNCHANGED <<controlSession, target, displays, floor, controlApplied, recent, jobs, applying, stream, late>>
    BY <1>3 DEF Control!Start
  <2>2. os' \in Streams /\ os'[controlSession].interval = negotiated'
    BY <1>0, <2>1 DEF Streams
  <2>3. refused' \in BOOLEAN
    BY <2>1, Zenon
  <2>4. Control!TypeOK'
    BY <2>1, <2>2, <2>3 DEF Streams
  <2> QED
    BY <2>1, <2>2, <2>4
<1>4. ASSUME Control!NoFilter PROVE ControlInv'
  BY <1>4 DEF Control!NoFilter
<1>5. ASSUME Control!Started PROVE ControlInv'
  <2>1. /\ os' = [os EXCEPT ![controlSession].runs = TRUE]
        /\ phase = "starting" /\ phase' = "started" /\ stream' = controlSession
        /\ UNCHANGED <<controlSession, target, displays, negotiated, floor, controlApplied, recent, jobs, applying, late, refused>>
    BY <1>5 DEF Control!Started
  <2>2. os' \in Streams /\ os'[controlSession].interval = os[controlSession].interval
    <3>1. controlSession \in Control!Session /\ TRUE \in BOOLEAN
      BY <2>1
    <3> QED
      <4> HIDE DEF ControlInv
      <4> QED
        BY <1>0, <2>1, <3>1 DEF Streams
  <2> QED
    BY <2>1, <2>2 DEF Streams
<1>6. ASSUME Control!StartFails PROVE ControlInv'
  BY <1>6 DEF Control!StartFails
<1>7. ASSUME Control!BeginSession PROVE ControlInv'
  BY <1>7 DEF Control!BeginSession
<1>8. ASSUME Control!Stop PROVE ControlInv'
  BY <1>8 DEF Control!Stop
<1>9. ASSUME Control!Stopped PROVE ControlInv'
  <2>1. /\ os' \in {os, [os EXCEPT ![controlSession].runs = FALSE]}
        /\ late' \in {late, late \cup {controlSession}}
        /\ phase = "stopping" /\ phase' = "stopped" /\ stream' = 0
        /\ UNCHANGED <<controlSession, target, displays, negotiated, floor, controlApplied, recent, jobs, applying, refused>>
    BY <1>9 DEF Control!Stopped
  <2>2. os' \in Streams
    <3>1. controlSession \in Control!Session
      BY <2>1
    <3>2. ASSUME os' = [os EXCEPT ![controlSession].runs = FALSE] PROVE os' \in Streams
      <4> HIDE DEF ControlInv
      <4> QED
        BY <1>0, <3>1, <3>2 DEF Streams
    <3> QED
      BY <1>0, <2>1, <3>2
  <2> QED
    BY <2>1, <2>2 DEF Streams
<1>10. ASSUME Control!Ended PROVE ControlInv'
  BY <1>10 DEF Control!Ended
<1>11. ASSUME Control!MinIntervalPasses PROVE ControlInv'
  BY <1>11 DEF Control!MinIntervalPasses
<1>12. ASSUME Control!Applied PROVE ControlInv'
  <2>1. /\ applying # {} /\ applying' = {}
        /\ \/ os' = [os EXCEPT ![stream].interval = os[stream].config] /\ refused' = refused
           \/ os' = os /\ refused' = TRUE
        /\ UNCHANGED <<controlSession, phase, target, displays, negotiated, floor, controlApplied, recent, jobs, stream, late>>
    BY <1>12 DEF Control!Applied
  <2>2. stream \in Control!Session /\ stream = controlSession /\ os[stream].config \in Control!Interval
    BY <1>0, <2>1 DEF Streams
  <2>3. CASE os' = os /\ refused' = TRUE
    <3>1. refused' \in BOOLEAN
      BY <2>3, Zenon
    <3> QED
      BY <2>1, <2>3, <3>1
  <2>4. CASE os' = [os EXCEPT ![stream].interval = os[stream].config] /\ refused' = refused
    <3>1. os' \in Streams /\ os'[controlSession].interval = os[controlSession].config
      <4> HIDE DEF ControlInv
      <4> QED
        BY <1>0, <2>2, <2>4 DEF Streams
    <3> QED
      BY <2>1, <2>2, <2>4, <3>1 DEF Streams
  <2> QED
    BY <2>1, <2>3, <2>4
<1>13. ASSUME NEW period \in Intervals, Control!OnVsyncReport(period) PROVE ControlInv'
  <2> DEFINE job == [session |-> controlSession, interval |-> Control!Target(period)]
  <2>1. /\ phase = "streaming" /\ Control!Reconfigure(Control!Target(period)) /\ job \notin jobs
        /\ controlApplied' = Control!Target(period) /\ recent' = TRUE /\ jobs' = jobs \cup {job}
        /\ UNCHANGED <<controlSession, phase, target, displays, negotiated, floor, applying, stream, os, late, refused>>
    BY <1>13 DEF Control!OnVsyncReport
  <2>2. Control!Target(period) \in Intervals
    BY <1>13 DEF Control!Target, Control!Slower
  <2>3. ~recent
    BY <2>1 DEF Control!Reconfigure
  <2>4. Control!TypeOK'
    BY <2>1, <2>2
  <2>5. IntervalFollows'
    BY <2>1, <2>3
  <2> QED
    BY <2>4, <2>5
<1>14. ASSUME NEW j \in jobs, Control!Apply(j) PROVE ControlInv'
  <2>1. /\ applying = {} /\ phase \notin {"starting", "stopping"} /\ jobs' = jobs \ {j}
        /\ UNCHANGED <<controlSession, phase, target, displays, negotiated, floor, controlApplied, recent, stream, late>>
    BY <1>14 DEF Control!Apply
  <2>2. CASE stream = 0
    BY <1>14, <2>1, <2>2 DEF Control!Apply
  <2>3. CASE stream # 0
    <3>1. /\ applying' = {j} /\ os' = [os EXCEPT ![stream].config = j.interval]
      BY <1>14, <2>3 DEF Control!Apply
    <3>2. refused' \in BOOLEAN /\ (refused' <=> refused \/ stream # j.session)
      <4>1. refused' = (refused \/ stream # j.session)
        BY <1>14, <2>3 DEF Control!Apply
      <4> QED
        BY <4>1, Zenon
    <3>3. stream \in Control!Session /\ stream = controlSession /\ j.interval \in Control!Interval
      BY <2>3
    <3>4. /\ os' \in Streams /\ os'[controlSession].config = j.interval
          /\ os'[controlSession].interval = os[controlSession].interval
      <4> HIDE DEF ControlInv
      <4> QED
        BY <1>0, <3>1, <3>3 DEF Streams
    <3>5. Control!TypeOK'
      BY <2>1, <3>1, <3>2, <3>4 DEF Streams
    <3>6. phase \in {"started", "streaming"}
      BY <2>1, <2>3
    <3> QED
      <4>1. \A k \in jobs : k.session = controlSession /\ phase = "streaming" => k = j \/ j.session # controlSession
        BY <2>1
      <4>2. IntervalFollows'
        BY <2>1, <3>1, <3>2, <3>3, <3>4, <3>6, <4>1
      <4> QED
        BY <3>5, <4>2
  <2> QED
    BY <2>2, <2>3
<1>15. ASSUME NEW s \in Control!Session, Control!StartsOrStopsLate(s) PROVE ControlInv'
  <2>1. /\ late' = late \ {s} /\ os' = [os EXCEPT ![s].runs = ~os[s].runs]
        /\ UNCHANGED <<controlSession, phase, target, displays, negotiated, floor, controlApplied, recent, jobs, applying, stream, refused>>
    BY <1>15 DEF Control!StartsOrStopsLate
  <2>2. (~os[s].runs) \in BOOLEAN
    OBVIOUS
  <2>3. os' \in Streams /\ \A t \in Control!Session : os'[t].interval = os[t].interval /\ os'[t].config = os[t].config
    <3> HIDE DEF ControlInv
    <3> QED
      BY <1>0, <2>1, <2>2 DEF Streams
  <2> QED
    BY <2>1, <2>3 DEF Streams
<1>16. ASSUME UNCHANGED control PROVE ControlInv'
  BY <1>16 DEF control
<1> QED
  BY <1>1, <1>2, <1>3, <1>4, <1>5, <1>6, <1>7, <1>8, <1>9, <1>10, <1>11, <1>12, <1>13, <1>14, <1>15, <1>16 DEF Control!Next

-----------------------------------------------------------------------------
(* EncoderSize: the link's size and sharpening.                            *)

\* The thread that holds the resizing lock is the one that rebuilds; and while
\* no resize of the link was cut short, what it does to the size and to the
\* size remembered leaves the link's own in force whether it succeeds or fails.
SizeFollows ==
  /\ \A t \in Size!Thread : sizeAt[t] \in {"building", "built"} <=> holder = t
  /\ \A t \in Size!Thread : sizeAt[t] # "idle" => want[t] \in Sizes
  /\ \A t \in {"refiner", "capture"} :
       /\ sizeAt[t] # "queued"
       /\ sizePhase # "up" => sizeAt[t] = "idle"
  /\ ~spoilt /\ sizePhase # "up" => sizeAt["link"] = "idle" /\ base = 0
  /\ ~spoilt /\ sizePhase = "starting" => sizeHardware \in Sizes
  /\ ~spoilt /\ sizePhase = "up" =>
       /\ linkSize \in Sizes /\ params \in Sizes
       /\ holder = "nobody" => Size!AtLinkSize
       /\ holder = "link" => base = 0
       /\ holder = "refiner" => base = linkSize /\ params = linkSize /\ want["refiner"] = Native
       /\ holder = "capture" => base = linkSize /\ params = Native /\ want["capture"] = linkSize

SizeInv == Size!TypeOK /\ SizeFollows

LEMMA SizeInit == Size!Init => SizeInv
<1> SUFFICES ASSUME Size!Init PROVE SizeInv
  OBVIOUS
<1>1. spoilt \in BOOLEAN
  BY Zenon DEF Size!Init
<1> QED
  BY <1>1, PartsAssumption DEF Size!Assumption, Size!Init, SizeInv, SizeFollows, Size!TypeOK, Size!Thread, Size!Size, Size!None

LEMMA SizeStep == SizeInv /\ [Size!Next]_size => SizeInv'
<1> SUFFICES ASSUME SizeInv, [Size!Next]_size PROVE SizeInv'
  OBVIOUS
<1> USE PartsAssumption DEF Size!Assumption, SizeInv, SizeFollows, Size!TypeOK, Size!Thread, Size!Size, Size!None,
      Size!AtLinkSize, Size!Goes, Size!Resize
<1>1. ASSUME Size!Started PROVE SizeInv'
  BY <1>1 DEF Size!Started
<1>2. ASSUME Size!StopSession PROVE SizeInv'
  BY <1>2 DEF Size!StopSession
<1>3. ASSUME Size!Stopped PROVE SizeInv'
  BY <1>3 DEF Size!Stopped
<1>4. ASSUME Size!Reconfigure PROVE SizeInv'
  BY <1>4 DEF Size!Reconfigure
<1>5. ASSUME Size!Sharpen PROVE SizeInv'
  BY <1>5 DEF Size!Sharpen
<1>6. ASSUME Size!RestoreSize PROVE SizeInv'
  BY <1>6 DEF Size!RestoreSize
<1>7. ASSUME NEW z \in Sizes, Size!StartSession(z) PROVE SizeInv'
  BY <1>7 DEF Size!StartSession
<1>8. ASSUME NEW z \in Sizes, Size!LinkAsks(z) PROVE SizeInv'
  BY <1>8 DEF Size!LinkAsks
<1>9. ASSUME NEW t \in Size!Thread, Size!Build(t) PROVE SizeInv'
  BY <1>9 DEF Size!Build
<1>10. ASSUME NEW t \in Size!Thread, Size!Store(t) PROVE SizeInv'
  BY <1>10 DEF Size!Store
<1>11. ASSUME NEW t \in Size!Thread, Size!BuildFails(t) PROVE SizeInv'
  BY <1>11 DEF Size!BuildFails
<1>12. ASSUME UNCHANGED size PROVE SizeInv'
  BY <1>12 DEF size
<1> QED
  BY <1>1, <1>2, <1>3, <1>4, <1>5, <1>6, <1>7, <1>8, <1>9, <1>10, <1>11, <1>12 DEF Size!Next

-----------------------------------------------------------------------------
(* HostStart: settings, and what is turned on and off.                     *)

\* The layers merged so far, the limits validated so far, and what is open in
\* which phase of the process.
StartFollows ==
  /\ \A k \in DOMAIN file.gives : file.gives[k] \in Nat
  /\ \A k \in DOMAIN cli : cli[k] \in Nat
  /\ file.read # "whole" => DOMAIN file.gives = {}
  /\ startPhase = "main" => startConfig = Start!Defaults
  /\ startPhase = "loaded" => startConfig = Start!Merged(Start!Defaults, file.gives)
  /\ startPhase \in {"main", "loaded", "overridden", "valid"} => engine = Start!None
  /\ startPhase \in {"valid", "built"} => startConfig.port # 0
  /\ startPhase \in {"main", "loaded", "overridden", "valid", "built", "closed", "returned", "failed"} =>
       endpoint = 0
  /\ startPhase \notin {"listening", "failing"} => advertised = 0
  /\ startPhase \in {"stopped", "reset", "closed", "returned"} /\ capturing => startLate
  /\ Start!RunsAsConfigured

StartInv == Start!TypeOK /\ StartFollows

\* Settings given by layer have values of their setting.
LEMMA PartialGives ==
  ASSUME NEW values, \A k \in DOMAIN values : values[k] \subseteq Nat, NEW n,
         NEW f \in Start!Partial(values, n)
  PROVE  DOMAIN f \subseteq DOMAIN values /\ \A k \in DOMAIN f : f[k] \in Nat
<1>1. PICK keys \in SUBSET DOMAIN values :
        f \in [keys -> UNION {values[k] : k \in keys}] /\ \A k \in keys : f[k] \in values[k]
  BY DEF Start!Partial
<1> QED
  BY <1>1

LEMMA StartInit == Start!Init => StartInv
<1> SUFFICES ASSUME Start!Init PROVE StartInv
  OBVIOUS
<1> USE PartsAssumption DEF Start!Assumption
<1>1. /\ startConfig = Start!Defaults /\ startPhase = "main" /\ engine = Start!None
      /\ endpoint = 0 /\ advertised = 0 /\ startSession = "idle" /\ task = "none"
  BY DEF Start!Init
<1>2. capturing = FALSE /\ startLate = FALSE
  BY DEF Start!Init
<1>3. DOMAIN cli \subseteq Start!Flags /\ \A k \in DOMAIN cli : cli[k] \in Nat
  <2>1. cli \in Start!Partial(Overrides, 1)
    BY DEF Start!Init
  <2>2. \A k \in DOMAIN Overrides : Overrides[k] \subseteq Nat
    OBVIOUS
  <2>3. DOMAIN cli \subseteq DOMAIN Overrides /\ \A k \in DOMAIN cli : cli[k] \in Nat
    BY <2>1, <2>2, PartialGives
  <2> QED
    BY <2>3
<1>4. /\ file.read \in {"whole", "missing", "broken"} /\ DOMAIN file.gives \subseteq Start!Setting
      /\ \A k \in DOMAIN file.gives : file.gives[k] \in Nat
      /\ file.read # "whole" => DOMAIN file.gives = {}
  <2>1. CASE file \in [read : {"whole"}, gives : Start!Partial(Values, MaxGiven)]
    <3>1. file.gives \in Start!Partial(Values, MaxGiven) /\ file.read = "whole"
      BY <2>1
    <3>2. \A k \in DOMAIN Values : Values[k] \subseteq Nat
      OBVIOUS
    <3>3. DOMAIN file.gives \subseteq DOMAIN Values /\ \A k \in DOMAIN file.gives : file.gives[k] \in Nat
      BY <3>1, <3>2, PartialGives
    <3> QED
      BY <3>1, <3>3
  <2>2. CASE file \in [read : {"missing", "broken"}, gives : {<<>>}]
    BY <2>2
  <2> QED
    BY <2>1, <2>2 DEF Start!Init
<1>5. startConfig \in [Start!Setting -> Nat]
  BY <1>1 DEF Start!Defaults, Start!Setting
<1>6. engine \in [min : Nat, max : Nat, rate : Nat, step : Nat]
  BY <1>1 DEF Start!None
<1>7. {capturing, startLate} \subseteq BOOLEAN
  BY <1>2, Zenon
<1>8. Start!TypeOK
  BY <1>1, <1>3, <1>4, <1>5, <1>6, <1>7 DEF Start!TypeOK, Start!Phase
<1>9. Start!RunsAsConfigured
  BY <1>1 DEF Start!RunsAsConfigured, Start!AsAsked, Start!EngineBounded, Start!AdvertisedAnswers
<1> QED
  BY <1>1, <1>3, <1>4, <1>8, <1>9 DEF StartInv, StartFollows

\* What is given wins, and is a value of its setting.
LEMMA MergedTyped ==
  ASSUME NEW under \in [Start!Setting -> Nat], NEW over, \A k \in DOMAIN over : over[k] \in Nat
  PROVE  /\ Start!Merged(under, over) \in [Start!Setting -> Nat]
         /\ \A k \in Start!Setting : Start!Merged(under, over)[k] = IF k \in DOMAIN over THEN over[k] ELSE under[k]
  BY DEF Start!Merged

\* The engine's bounds are in order and hold its rate, whatever the settings.
LEMMA EngineInOrder ==
  ASSUME NEW c \in [Start!Setting -> Nat]
  PROVE  /\ Start!EngineOf(c) \in [min : Nat, max : Nat, rate : Nat, step : Nat]
         /\ Start!EngineOf(c).min <= Start!EngineOf(c).rate /\ Start!EngineOf(c).rate <= Start!EngineOf(c).max
         /\ c.most <= Start!EngineOf(c).max
<1>1. c.least \in Nat /\ c.most \in Nat /\ c.start \in Nat /\ c.step \in Nat
  BY DEF Start!Setting, Start!Defaults
<1> QED
  BY <1>1 DEF Start!EngineOf, Start!AtLeast, Start!AtMost

LEMMA StartStep == StartInv /\ [Start!Next]_start => StartInv'
<1> SUFFICES ASSUME StartInv, [Start!Next]_start PROVE StartInv'
  OBVIOUS
<1> USE PartsAssumption DEF Start!Assumption, StartInv, StartFollows, Start!TypeOK, Start!Phase, Start!Serving,
      Start!RunsAsConfigured, Start!AsAsked, Start!EngineBounded, Start!AdvertisedAnswers, Start!InForce,
      Start!started, Start!serving
<1>1. ASSUME Start!Build PROVE StartInv'
  <2>1. /\ startPhase = "main" /\ startConfig = Start!Defaults
        /\ startPhase' = IF file.read = "broken" THEN "failed" ELSE "loaded"
        /\ startConfig' = IF file.read = "whole" THEN Start!Merged(startConfig, file.gives) ELSE startConfig
        /\ UNCHANGED <<file, cli, engine, endpoint, advertised, startSession, task, capturing, startLate>>
    BY <1>1 DEF Start!Build
  <2>2. Start!Merged(startConfig, file.gives) \in [Start!Setting -> Nat]
    BY MergedTyped
  <2>3. startConfig' \in [Start!Setting -> Nat]
    BY <2>1, <2>2
  <2>4. file.read # "whole" => startConfig = Start!Merged(startConfig, file.gives)
    <3>1. ASSUME file.read # "whole" PROVE startConfig = [k \in Start!Setting |-> startConfig[k]]
      BY <2>1
    <3> QED
      BY <3>1 DEF Start!Merged
  <2>5. startPhase' = "loaded" => startConfig' = Start!Merged(Start!Defaults, file.gives')
    BY <2>1, <2>4
  <2> QED
    BY <2>1, <2>3, <2>5
<1>2. ASSUME Start!ApplyCli PROVE StartInv'
  <2>1. /\ startPhase = "loaded" /\ startPhase' = "overridden"
        /\ startConfig' = Start!Merged(startConfig, cli)
        /\ UNCHANGED <<file, cli, engine, endpoint, advertised, startSession, task, capturing, startLate>>
    BY <1>2 DEF Start!ApplyCli
  <2>2. /\ startConfig' \in [Start!Setting -> Nat]
        /\ \A k \in Start!Setting : startConfig'[k] = IF k \in DOMAIN cli THEN cli[k] ELSE startConfig[k]
    BY <2>1, MergedTyped
  <2>3. Start!Defaults \in [Start!Setting -> Nat]
    BY DEF Start!Defaults, Start!Setting
  <2>4. \A k \in Start!Setting :
          startConfig[k] = IF k \in DOMAIN file.gives THEN file.gives[k] ELSE Start!Defaults[k]
    BY <2>1, <2>3, MergedTyped
  <2>5. \A k \in Start!Setting : startConfig'[k] = Start!InForce(k)'
    BY <2>1, <2>2, <2>4
  <2> QED
    BY <2>1, <2>2, <2>5
<1>3. ASSUME Start!Validate PROVE StartInv'
  <2>1. /\ startPhase = "overridden" /\ startPhase' \in {"valid", "failed"}
        /\ startPhase' = "valid" => startConfig.port # 0
        /\ UNCHANGED <<file, cli, startConfig, engine, endpoint, advertised, startSession, task, capturing, startLate>>
    BY <1>3 DEF Start!Validate, Start!Valid
  <2> QED
    BY <2>1
<1>4. ASSUME Start!New PROVE StartInv'
  <2>1. /\ startPhase = "valid" /\ startPhase' = "built" /\ engine' = Start!EngineOf(startConfig)
        /\ UNCHANGED <<file, cli, startConfig, endpoint, advertised, startSession, task, capturing, startLate>>
    BY <1>4 DEF Start!New
  <2>2. /\ engine' \in [min : Nat, max : Nat, rate : Nat, step : Nat]
        /\ engine'.min <= engine'.rate /\ engine'.rate <= engine'.max
        /\ startConfig'.most <= engine'.max
    BY <2>1, EngineInOrder
  <2> QED
    BY <2>1, <2>2
<1>5. ASSUME Start!Bind PROVE StartInv'
  <2>1. /\ startPhase = "built"
        /\ \/ startPhase' = "bound" /\ endpoint' = IF startConfig.port = 0 THEN Ephemeral ELSE startConfig.port
           \/ startPhase' = "failed" /\ UNCHANGED endpoint
        /\ UNCHANGED <<file, cli, startConfig, engine, advertised, startSession, task, capturing, startLate>>
    BY <1>5 DEF Start!Bind
  <2>2. startConfig.port # 0 /\ startConfig.port \in Nat /\ startConfig["port"] = Start!InForce("port")
    BY <2>1 DEF Start!Setting, Start!Defaults
  <2>3. CASE startPhase' = "bound" /\ endpoint' = IF startConfig.port = 0 THEN Ephemeral ELSE startConfig.port
    BY <2>1, <2>2, <2>3
  <2>4. CASE startPhase' = "failed" /\ UNCHANGED endpoint
    BY <2>1, <2>4
  <2> QED
    BY <2>1, <2>3, <2>4
<1>6. ASSUME Start!Register PROVE StartInv'
  BY <1>6 DEF Start!Register
<1>7. ASSUME Start!HandlerFails PROVE StartInv'
  BY <1>7 DEF Start!HandlerFails
<1>8. ASSUME Start!Accept PROVE StartInv'
  BY <1>8 DEF Start!Accept
<1>9. ASSUME Start!CaptureStarts PROVE StartInv'
  <2>1. /\ startPhase \notin {"returned", "failed"}
        /\ task = "starting" /\ task' = "serving"
        /\ UNCHANGED <<file, cli, startConfig, startPhase, engine, endpoint, advertised, startSession>>
    BY <1>9 DEF Start!CaptureStarts, Start!Running
  <2>2. /\ {capturing, startLate}' \subseteq BOOLEAN
        /\ startLate \/ startPhase \in {"stopped", "reset", "closed"} => startLate'
    <3>1. capturing' = TRUE /\ startLate' = (startLate \/ startPhase \in {"stopped", "reset", "closed"})
      BY <1>9 DEF Start!CaptureStarts
    <3> QED
      BY <3>1, Zenon
  <2> QED
    BY <2>1, <2>2
<1>10. ASSUME Start!Teardown PROVE StartInv'
  BY <1>10 DEF Start!Teardown
<1>11. ASSUME Start!Unregister PROVE StartInv'
  BY <1>11 DEF Start!Unregister
<1>12. ASSUME Start!StopCapture PROVE StartInv'
  BY <1>12 DEF Start!StopCapture
<1>13. ASSUME Start!Reset PROVE StartInv'
  BY <1>13 DEF Start!Reset
<1>14. ASSUME Start!Close PROVE StartInv'
  BY <1>14 DEF Start!Close
<1>15. ASSUME Start!ShutdownBackground PROVE StartInv'
  BY <1>15 DEF Start!ShutdownBackground
<1>16. ASSUME Start!DropAdvertiser PROVE StartInv'
  BY <1>16 DEF Start!DropAdvertiser
<1>17. ASSUME Start!DropRuntime PROVE StartInv'
  BY <1>17 DEF Start!DropRuntime
<1>18. ASSUME UNCHANGED start PROVE StartInv'
  BY <1>18 DEF start
<1> QED
  BY <1>1, <1>2, <1>3, <1>4, <1>5, <1>6, <1>7, <1>8, <1>9, <1>10, <1>11, <1>12, <1>13, <1>14, <1>15, <1>16, <1>17, <1>18 DEF Start!Next

-----------------------------------------------------------------------------
(* LinkPressure: the window of the loss.                                   *)

\* Counters that come after others of the same connection.
NoMore(a, b) == a.sent <= b.sent /\ a.lost <= b.lost

\* A session that is yet to come has no reader.  While none of an earlier one
\* has sampled, the samples are the differences between the counters read, each
\* of which comes after the one before.
LossFollows ==
  /\ \A r \in 1 .. MaxSessions : r > linkSession => reading[r] = Link!None
  /\ attached => linkSession > 0
  /\ attached /\ ~straddled =>
       /\ last = IF readings = <<>> THEN Link!None ELSE readings[Len(readings)]
       /\ last # Link!None => NoMore(last, counted)
       /\ reading[linkSession] # Link!None =>
            /\ NoMore(reading[linkSession], counted)
            /\ last # Link!None => NoMore(last, reading[linkSession])
       /\ Len(samples) = IF readings = <<>> THEN 0 ELSE Len(readings) - 1
       /\ \A i \in 1 .. Len(samples) :
            /\ samples[i].sent = readings[i + 1].sent - readings[i].sent
            /\ samples[i].lost = readings[i + 1].lost - readings[i].lost

LinkInv == Link!TypeOK /\ LossFollows

LEMMA LinkInit == Link!Init => LinkInv
<1> SUFFICES ASSUME Link!Init PROVE LinkInv
  OBVIOUS
<1>1. {attached, skipping, straddled} \subseteq BOOLEAN
  BY Zenon DEF Link!Init
<1> QED
  BY <1>1, PartsAssumption DEF Link!Assumption, Link!Init, LinkInv, LossFollows, Link!TypeOK, Link!Counters, Link!None, Link!Zero, Link!Idle

\* The window keeps the newest of what it is given.
Slides(s, x, n, t) ==
  /\ Len(t) = IF Len(s) = n THEN n ELSE Len(s) + 1
  /\ t[Len(t)] = x
  /\ \A i \in 1 .. Len(t) - 1 : t[i] = IF Len(s) = n THEN s[i + 1] ELSE s[i]

LEMMA NewestOf ==
  ASSUME NEW S, NEW s \in Seq(S), NEW x \in S, NEW n \in Nat \ {0}
  PROVE  /\ Link!Newest(Append(s, x), n) \in Seq(S)
         /\ Len(s) <= n => Slides(s, x, n, Link!Newest(Append(s, x), n))
<1> DEFINE a == Append(s, x)
<1>1. a \in Seq(S) /\ Len(a) = Len(s) + 1 /\ a[Len(s) + 1] = x /\ \A i \in 1 .. Len(s) : a[i] = s[i]
  OBVIOUS
<1>2. Tail(a) \in Seq(S) /\ Len(Tail(a)) = Len(s) /\ \A i \in 1 .. Len(s) : Tail(a)[i] = a[i + 1]
  BY <1>1
<1> HIDE DEF a
<1>3. CASE Len(a) > n
  BY <1>1, <1>2, <1>3 DEF Link!Newest, Slides, a
<1>4. CASE ~(Len(a) > n)
  BY <1>1, <1>4 DEF Link!Newest, Slides, a
<1> QED
  BY <1>3, <1>4

LEMMA LessWithin ==
  ASSUME NEW a \in Nat, NEW b \in Nat
  PROVE  Link!Less(a, b) \in 0 .. a /\ (b <= a => Link!Less(a, b) = a - b)
  BY DEF Link!Less

LEMMA CountersTyped ==
  /\ \A c \in Link!Counters : c.sent \in 0 .. MaxPackets /\ c.lost \in 0 .. MaxLost
  /\ \A a \in 0 .. MaxPackets, b \in 0 .. MaxLost : [sent |-> a, lost |-> b] \in Link!Counters
  /\ Link!None \notin Link!Counters /\ Link!Zero \in Link!Counters
  /\ MaxPackets \in Nat /\ MaxLost \in Nat
  BY PartsAssumption DEF Link!Assumption, Link!Counters, Link!None, Link!Zero

LEMMA SkipsOrNot ==
  ASSUME NEW was, NEW queue
  PROVE  Link!NextSkipState(was, queue) \in BOOLEAN
<1>1. (queue >= ResumeBelow) \in BOOLEAN /\ (queue > SkipAbove) \in BOOLEAN
  OBVIOUS
<1> QED
  BY <1>1, Zenon DEF Link!NextSkipState

LEMMA LinkSample ==
  ASSUME LinkInv, NEW r \in 1 .. MaxSessions, Link!Sample(r)
  PROVE  LinkInv'
<1> USE PartsAssumption DEF Link!Assumption
<1> DEFINE diff == [sent |-> Link!Less(reading[r].sent, last.sent), lost |-> Link!Less(reading[r].lost, last.lost)]
<1>1. /\ reading[r] # Link!None
      /\ samples' = IF last = Link!None THEN samples ELSE Link!Newest(Append(samples, diff), LossSamples)
      /\ last' = reading[r] /\ reading' = [reading EXCEPT ![r] = Link!None]
      /\ readings' = Link!Newest(Append(readings, reading[r]), LossSamples + 1)
      /\ UNCHANGED <<linkSession, counted, queued, checking>>
  BY DEF Link!Sample, Link!capture
<1>2. /\ attached' = attached /\ skipping' = skipping
      /\ straddled' = (straddled \/ r # linkSession)
  BY DEF Link!Sample, Link!capture
<1>3. /\ {attached, skipping, straddled}' \subseteq BOOLEAN
      /\ ~straddled' => ~straddled /\ r = linkSession
      /\ attached' => attached
  <2>1. {attached, skipping, straddled} \subseteq BOOLEAN
    BY DEF LinkInv, Link!TypeOK
  <2> QED
    BY <1>2, <2>1, Zenon
<1>4. /\ samples \in Seq(Link!Counters) /\ readings \in Seq(Link!Counters) /\ Len(samples) <= LossSamples
      /\ reading \in [1 .. MaxSessions -> Link!Counters \cup {Link!None}]
      /\ reading[r] \in Link!Counters /\ last \in Link!Counters \cup {Link!None}
  BY <1>1 DEF LinkInv, Link!TypeOK
<1>5. last # Link!None => diff \in Link!Counters
  <2> SUFFICES ASSUME last # Link!None PROVE diff \in Link!Counters
    OBVIOUS
  <2>1. /\ reading[r].sent \in 0 .. MaxPackets /\ reading[r].lost \in 0 .. MaxLost
        /\ last.sent \in Nat /\ last.lost \in Nat
    BY <1>4, CountersTyped
  <2>2. /\ Link!Less(reading[r].sent, last.sent) \in 0 .. reading[r].sent
        /\ Link!Less(reading[r].lost, last.lost) \in 0 .. reading[r].lost
    <3>1. reading[r].sent \in Nat /\ reading[r].lost \in Nat
      BY <2>1
    <3> QED
      BY <2>1, <3>1, LessWithin
  <2>3. /\ Link!Less(reading[r].sent, last.sent) \in 0 .. MaxPackets
        /\ Link!Less(reading[r].lost, last.lost) \in 0 .. MaxLost
    BY <2>1, <2>2, CountersTyped
  <2> QED
    BY <2>3, CountersTyped
<1> HIDE DEF diff
<1>6. /\ samples' \in Seq(Link!Counters) /\ Len(samples') <= LossSamples
      /\ last # Link!None =>
           /\ Len(samples') = IF Len(samples) = LossSamples THEN LossSamples ELSE Len(samples) + 1
           /\ samples'[Len(samples')] = diff
           /\ \A i \in 1 .. Len(samples') - 1 :
                samples'[i] = IF Len(samples) = LossSamples THEN samples[i + 1] ELSE samples[i]
  <2>1. CASE last = Link!None
    BY <1>1, <1>4, <2>1
  <2>2. CASE last # Link!None
    <3>1. samples' = Link!Newest(Append(samples, diff), LossSamples)
      BY <1>1, <2>2
    <3>2. LossSamples \in Nat \ {0} /\ diff \in Link!Counters
      BY <1>5, <2>2
    <3>3. samples' \in Seq(Link!Counters) /\ Slides(samples, diff, LossSamples, samples')
      BY <1>4, <3>1, <3>2, NewestOf
    <3>4. Len(samples) \in Nat
      BY <1>4
    <3> QED
      BY <1>4, <3>2, <3>3, <3>4 DEF Slides
  <2> QED
    BY <2>1, <2>2
<1>7. /\ readings' \in Seq(Link!Counters)
      /\ Len(readings) <= LossSamples + 1 =>
           /\ Len(readings') = IF Len(readings) = LossSamples + 1 THEN LossSamples + 1 ELSE Len(readings) + 1
           /\ readings'[Len(readings')] = reading[r]
           /\ \A i \in 1 .. Len(readings') - 1 :
                readings'[i] = IF Len(readings) = LossSamples + 1 THEN readings[i + 1] ELSE readings[i]
  <2>1. LossSamples + 1 \in Nat \ {0}
    OBVIOUS
  <2> QED
    <3>1. readings' \in Seq(Link!Counters)
          /\ (Len(readings) <= LossSamples + 1 => Slides(readings, reading[r], LossSamples + 1, readings'))
      BY <1>1, <1>4, <2>1, NewestOf
    <3> QED
      BY <3>1 DEF Slides
<1>8. Link!TypeOK'
  BY <1>1, <1>3, <1>4, <1>6, <1>7 DEF LinkInv, Link!TypeOK
<1>9. /\ \A q \in 1 .. MaxSessions : q > linkSession' => reading'[q] = Link!None
      /\ attached' => linkSession' > 0
  BY <1>1, <1>3, <1>4 DEF LinkInv, LossFollows
<1>10. ASSUME attached', ~straddled'
       PROVE  /\ last' = IF readings' = <<>> THEN Link!None ELSE readings'[Len(readings')]
              /\ last' # Link!None => NoMore(last', counted')
              /\ reading'[linkSession'] # Link!None =>
                   /\ NoMore(reading'[linkSession'], counted')
                   /\ last' # Link!None => NoMore(last', reading'[linkSession'])
              /\ Len(samples') = IF readings' = <<>> THEN 0 ELSE Len(readings') - 1
              /\ \A i \in 1 .. Len(samples') :
                   /\ samples'[i].sent = readings'[i + 1].sent - readings'[i].sent
                   /\ samples'[i].lost = readings'[i + 1].lost - readings'[i].lost
  <2>1. attached /\ ~straddled /\ r = linkSession
    BY <1>3, <1>10
  <2>2. /\ last = IF readings = <<>> THEN Link!None ELSE readings[Len(readings)]
        /\ last # Link!None => NoMore(last, reading[r])
        /\ NoMore(reading[r], counted)
        /\ Len(samples) = IF readings = <<>> THEN 0 ELSE Len(readings) - 1
        /\ \A i \in 1 .. Len(samples) :
             /\ samples[i].sent = readings[i + 1].sent - readings[i].sent
             /\ samples[i].lost = readings[i + 1].lost - readings[i].lost
    BY <1>1, <2>1 DEF LinkInv, LossFollows
  <2>3. Len(readings) <= LossSamples + 1
    BY <1>4, <2>2
  <2>4. readings = <<>> <=> last = Link!None
    <3>1. readings # <<>> => readings[Len(readings)] \in Link!Counters
      BY ONLY <1>4
    <3>2. Link!None \notin Link!Counters
      BY ONLY CountersTyped
    <3> QED
      BY ONLY <2>2, <3>1, <3>2
  <2>5. reading'[linkSession'] = Link!None
    BY <1>1, <1>4, <2>1
  <2>6. Len(readings') > 0 /\ readings' # <<>> /\ last' = readings'[Len(readings')]
    BY <1>1, <1>4, <1>7, <2>3
  <2>7. Len(samples') = Len(readings') - 1
    BY <1>1, <1>4, <1>6, <1>7, <2>2, <2>3, <2>4
  <2>10. Len(readings) \in Nat /\ Len(samples) \in Nat /\ Len(readings') \in Nat /\ Len(samples') \in Nat /\ LossSamples \in Nat
    BY <1>4, <1>6, <1>7
  <2>8. ASSUME NEW i \in 1 .. Len(samples')
        PROVE  /\ samples'[i].sent = readings'[i + 1].sent - readings'[i].sent
               /\ samples'[i].lost = readings'[i + 1].lost - readings'[i].lost
    <3>1. last # Link!None
      BY <1>1, <2>2, <2>4, <2>8
    <3>2. CASE i = Len(samples')
      <4>1. samples'[i] = diff /\ readings'[i + 1] = reading[r]
        BY <1>6, <1>7, <2>3, <2>7, <2>10, <3>1, <3>2
      <4>2. readings'[i] = last
        <5>1. i \in 1 .. Len(readings') - 1 /\ i = Len(readings') - 1
          BY <2>7, <3>2
        <5>2. readings'[i] = IF Len(readings) = LossSamples + 1 THEN readings[i + 1] ELSE readings[i]
          BY <1>7, <2>3, <5>1
        <5>3. last = readings[Len(readings)]
          BY <2>2, <2>4, <3>1
        <5>4. IF Len(readings) = LossSamples + 1 THEN i + 1 = Len(readings) ELSE i = Len(readings)
          BY <1>7, <2>3, <2>10, <5>1
        <5> QED
          BY <5>2, <5>3, <5>4
      <4>3. diff.sent = reading[r].sent - last.sent /\ diff.lost = reading[r].lost - last.lost
        <5>1. /\ reading[r].sent \in Nat /\ reading[r].lost \in Nat /\ last.sent \in Nat /\ last.lost \in Nat
              /\ last.sent <= reading[r].sent /\ last.lost <= reading[r].lost
          <6>1. reading[r] \in Link!Counters /\ last \in Link!Counters
            BY <1>4, <3>1
          <6>2. NoMore(last, reading[r])
            BY <2>2, <3>1
          <6> QED
            BY <6>1, <6>2, CountersTyped DEF NoMore
        <5>2. diff = [sent |-> Link!Less(reading[r].sent, last.sent), lost |-> Link!Less(reading[r].lost, last.lost)]
          BY DEF diff
        <5> QED
          BY <5>1, <5>2, LessWithin
      <4> QED
        BY <4>1, <4>2, <4>3
    <3>3. CASE i < Len(samples')
      <4>1. /\ i \in 1 .. Len(samples') - 1 /\ i \in 1 .. Len(readings') - 1 /\ i + 1 \in 1 .. Len(readings') - 1
            /\ Len(samples) = Len(readings) - 1
        BY <2>2, <2>4, <2>7, <2>10, <3>1, <3>3
      <4>2. CASE Len(samples) = LossSamples
        <5>1. Len(readings) = LossSamples + 1 /\ i + 1 \in 1 .. Len(samples)
          BY <1>6, <2>10, <3>1, <4>1, <4>2
        <5>2. samples'[i] = samples[i + 1] /\ readings'[i] = readings[i + 1] /\ readings'[i + 1] = readings[(i + 1) + 1]
          BY <1>6, <1>7, <2>3, <3>1, <4>1, <4>2, <5>1
        <5> QED
          BY <2>2, <5>1, <5>2
      <4>3. CASE Len(samples) # LossSamples
        <5>1. Len(readings) # LossSamples + 1 /\ i \in 1 .. Len(samples)
          BY <1>6, <2>10, <3>1, <4>1, <4>3
        <5>2. samples'[i] = samples[i] /\ readings'[i] = readings[i] /\ readings'[i + 1] = readings[i + 1]
          BY <1>6, <1>7, <2>3, <3>1, <4>1, <4>3, <5>1
        <5> QED
          BY <2>2, <5>1, <5>2
      <4> QED
        BY <4>2, <4>3
    <3> QED
      BY <3>2, <3>3, <1>6
  <2> QED
    BY <1>1, <2>2, <2>5, <2>6, <2>7, <2>8
<1> QED
  BY <1>8, <1>9, <1>10 DEF LinkInv, LossFollows

LEMMA LinkStep == LinkInv /\ [Link!Next]_link => LinkInv'
<1> SUFFICES ASSUME LinkInv, [Link!Next]_link PROVE LinkInv'
  OBVIOUS
<1> USE PartsAssumption DEF Link!Assumption, LinkInv, LossFollows, Link!TypeOK, Link!capture, Link!window
<1>1. ASSUME Link!Attach PROVE LinkInv'
  <2>1. /\ ~attached /\ linkSession < MaxSessions /\ linkSession' = linkSession + 1
        /\ counted' = Link!Zero /\ queued' = 0 /\ last' = Link!None /\ samples' = <<>> /\ readings' = <<>>
        /\ UNCHANGED <<checking, reading>>
    BY <1>1 DEF Link!Attach
  <2>2. {attached, skipping, straddled}' \subseteq BOOLEAN
    BY <1>1, Zenon DEF Link!Attach
  <2>3. Link!TypeOK'
    BY <2>1, <2>2 DEF Link!Counters, Link!Zero
  <2>4. LossFollows'
    BY <2>1
  <2> QED
    BY <2>3, <2>4
<1>2. ASSUME Link!Detach PROVE LinkInv'
  <2>1. /\ counted' = Link!Zero /\ queued' = 0 /\ last' = Link!None /\ samples' = <<>> /\ readings' = <<>>
        /\ UNCHANGED <<linkSession, checking, reading>> /\ ~attached'
    BY <1>2 DEF Link!Detach
  <2>2. {attached, skipping, straddled}' \subseteq BOOLEAN
    BY <1>2, Zenon DEF Link!Detach
  <2>3. Link!TypeOK'
    BY <2>1, <2>2 DEF Link!Counters, Link!Zero
  <2>4. LossFollows'
    BY <2>1
  <2> QED
    BY <2>3, <2>4
<1>3. ASSUME Link!Counts PROVE LinkInv'
  <2>1. /\ attached
        /\ UNCHANGED <<linkSession, attached, queued, skipping, checking, last, samples, reading, readings, straddled>>
    BY <1>3 DEF Link!Counts
  <2>2. counted' \in Link!Counters /\ NoMore(counted, counted')
    <3>1. counted.sent \in 0 .. MaxPackets /\ counted.lost \in 0 .. MaxLost /\ counted \in Link!Counters
      BY CountersTyped
    <3>2. CASE counted.sent < MaxPackets /\ counted' = [counted EXCEPT !.sent = @ + 1]
      <4>1. counted' = [sent |-> counted.sent + 1, lost |-> counted.lost]
        BY <3>1, <3>2 DEF Link!Counters
      <4> QED
        <5>1. counted.sent + 1 \in 0 .. MaxPackets
          <6>1. counted.sent \in 0 .. MaxPackets /\ counted.sent < MaxPackets /\ MaxPackets \in Nat
            BY <3>1, <3>2, CountersTyped
          <6> QED
            BY ONLY <6>1
        <5>2. counted' \in Link!Counters
          BY <3>1, <4>1, <5>1, CountersTyped
        <5>3. NoMore(counted, counted')
          <6>1. /\ counted'.sent = counted.sent + 1 /\ counted'.lost = counted.lost
                /\ counted.sent \in Int /\ counted.lost \in Int
            BY ONLY <3>1, <4>1
          <6> QED
            BY ONLY <6>1 DEF NoMore
        <5> QED
          BY <5>2, <5>3
    <3>3. CASE counted.lost < MaxLost /\ counted' = [counted EXCEPT !.lost = @ + 1]
      <4>1. counted' = [sent |-> counted.sent, lost |-> counted.lost + 1]
        BY <3>1, <3>3 DEF Link!Counters
      <4> QED
        <5>1. counted.lost + 1 \in 0 .. MaxLost
          <6>1. counted.lost \in 0 .. MaxLost /\ counted.lost < MaxLost /\ MaxLost \in Nat
            BY <3>1, <3>3, CountersTyped
          <6> QED
            BY ONLY <6>1
        <5>2. counted' \in Link!Counters
          BY <3>1, <4>1, <5>1, CountersTyped
        <5>3. NoMore(counted, counted')
          <6>1. /\ counted'.sent = counted.sent /\ counted'.lost = counted.lost + 1
                /\ counted.sent \in Int /\ counted.lost \in Int
            BY ONLY <3>1, <4>1
          <6> QED
            BY ONLY <6>1 DEF NoMore
        <5> QED
          BY <5>2, <5>3
    <3> QED
      BY <1>3, <3>2, <3>3 DEF Link!Counts
  <2>3. Link!TypeOK'
    BY <2>1, <2>2
  <2>4. \A c \in Link!Counters : NoMore(c, counted) => NoMore(c, counted')
    <3>1. /\ \A c \in Link!Counters : c.sent \in Int /\ c.lost \in Int
          /\ counted \in Link!Counters /\ counted' \in Link!Counters
      BY <2>2, CountersTyped DEF LinkInv, Link!TypeOK
    <3> QED
      BY ONLY <2>2, <3>1 DEF NoMore
  <2>5. LossFollows'
    <3>1. /\ linkSession \in Nat /\ last \in Link!Counters \cup {Link!None}
          /\ \A r \in 1 .. MaxSessions : reading[r] \in Link!Counters \cup {Link!None}
          /\ linkSession <= MaxSessions
      <4>1. linkSession \in 0 .. MaxSessions /\ reading \in [1 .. MaxSessions -> Link!Counters \cup {Link!None}]
        BY DEF LinkInv, Link!TypeOK
      <4>2. last \in Link!Counters \cup {Link!None}
        BY DEF LinkInv, Link!TypeOK
      <4> QED
        BY ONLY <4>1, <4>2
    <3>2. LossFollows
      BY DEF LinkInv
    <3>3. MaxSessions \in Nat
      OBVIOUS
    <3>4. attached => linkSession \in 1 .. MaxSessions
      BY ONLY <3>1, <3>2, <3>3 DEF LossFollows
    <3>5. attached => reading[linkSession] \in Link!Counters \cup {Link!None}
      BY ONLY <3>1, <3>4
    <3> QED
      BY ONLY <2>1, <2>4, <3>1, <3>2, <3>5 DEF LossFollows
  <2> QED
    BY <2>3, <2>5
<1>4. ASSUME Link!Drains PROVE LinkInv'
  BY <1>4 DEF Link!Drains
<1>5. ASSUME Link!Capture PROVE LinkInv'
  <2>1. UNCHANGED <<linkSession, attached, counted, last, samples, reading, readings, straddled>>
    BY <1>5 DEF Link!Capture, Link!LoadSkipping, Link!Decide, Link!StoreSkipping
  <2>2. queued' \in 0 .. MaxQueue
    BY <1>5 DEF Link!Capture, Link!LoadSkipping, Link!Decide, Link!StoreSkipping
  <2>3. /\ skipping' \in BOOLEAN
        /\ checking' \in {Link!Idle} \cup ({"loaded", "decided"} \X BOOLEAN)
    <3>1. skipping \in BOOLEAN /\ (checking # Link!Idle => checking \in {"loaded", "decided"} \X BOOLEAN)
      OBVIOUS
    <3>2. CASE Link!LoadSkipping
      BY <3>1, <3>2 DEF Link!LoadSkipping
    <3>3. CASE Link!Decide
      <4>1. PICK skip : /\ skip = Link!NextSkipState(checking[2], IF attached THEN queued ELSE 0)
                        /\ checking' = <<"decided", skip>> /\ skipping' = skipping
        BY <3>3 DEF Link!Decide
      <4>2. skip \in BOOLEAN
        BY <4>1, SkipsOrNot
      <4> QED
        BY <3>1, <4>1, <4>2
    <3>4. CASE Link!StoreSkipping
      BY <3>1, <3>4 DEF Link!StoreSkipping
    <3> QED
      BY <1>5, <3>2, <3>3, <3>4 DEF Link!Capture
  <2> QED
    BY <2>1, <2>2, <2>3
<1>6. ASSUME NEW r \in 1 .. MaxSessions, Link!ReadStats(r) PROVE LinkInv'
  <2>1. /\ attached /\ r <= linkSession /\ reading[r] = Link!None
        /\ reading' = [reading EXCEPT ![r] = counted]
        /\ UNCHANGED <<linkSession, attached, counted, queued, skipping, checking, last, samples, readings, straddled>>
    BY <1>6 DEF Link!ReadStats
  <2>2. NoMore(counted, counted)
    <3>1. counted.sent \in Int /\ counted.lost \in Int
      BY CountersTyped DEF LinkInv, Link!TypeOK
    <3> QED
      BY ONLY <3>1 DEF NoMore
  <2>3. Link!TypeOK'
    BY <2>1
  <2>4. LossFollows'
    BY <2>1, <2>2
  <2> QED
    BY <2>3, <2>4
<1>7. ASSUME NEW r \in 1 .. MaxSessions, Link!Sample(r) PROVE LinkInv'
  BY <1>7, LinkSample
<1>8. ASSUME UNCHANGED link PROVE LinkInv'
  BY <1>8 DEF link
<1> QED
  BY <1>1, <1>2, <1>3, <1>4, <1>5, <1>6, <1>7, <1>8 DEF Link!Next, Link!Reader

\* The differences between the counters read add up to that between the last
\* and the first.
LEMMA LossAddsUp == LinkInv => Link!LossIsTheSessions
<1> SUFFICES ASSUME LinkInv, attached, ~straddled, readings # <<>>
             PROVE  /\ Link!InWindow.sent = readings[Len(readings)].sent - Head(readings).sent
                    /\ Link!InWindow.lost = readings[Len(readings)].lost - Head(readings).lost
  BY DEF Link!LossIsTheSessions, Link!Last
<1> DEFINE n == Len(samples)
           S == [sent : Int, lost : Int]
           With(t, i) == [sent |-> t.sent + samples[i].sent, lost |-> t.lost + samples[i].lost]
           step == [i \in 1 .. n |-> [t \in S |-> With(t, i)]]
           P == {i \in 0 .. n : /\ Link!Total[i].sent = readings[i + 1].sent - readings[1].sent
                                /\ Link!Total[i].lost = readings[i + 1].lost - readings[1].lost}
<1>1. /\ n = Len(readings) - 1 /\ n \in Nat
      /\ \A i \in 1 .. n : samples[i] \in Link!Counters
      /\ \A i \in 1 .. n + 1 : readings[i] \in Link!Counters
      /\ \A i \in 1 .. n :
           /\ samples[i].sent = readings[i + 1].sent - readings[i].sent
           /\ samples[i].lost = readings[i + 1].lost - readings[i].lost
  BY DEF LinkInv, Link!TypeOK, LossFollows
<1>2. \A i \in 1 .. n : samples[i].sent \in Int /\ samples[i].lost \in Int
  BY <1>1, CountersTyped
<1>3. \A i \in 1 .. n + 1 : readings[i].sent \in Int /\ readings[i].lost \in Int
  BY <1>1, CountersTyped
<1>4. \A t \in S, i \in 1 .. n : With(t, i) \in S
  BY <1>2
<1> HIDE DEF n, S, With
<1>5. step \in Steps(n, S)
  BY <1>4 DEF Steps
<1>6. Link!Zero \in S
  BY DEF Link!Zero, S
<1> HIDE DEF step
<1>7. PICK f \in [0 .. n -> S] : Unfolds(f, n, Link!Zero, step)
  BY <1>1, <1>5, <1>6, FoldExists
<1>8. f = [i \in 0 .. n |-> IF i = 0 THEN Link!Zero ELSE With(f[i - 1], i)]
  <2>1. \A i \in 1 .. n : f[i - 1] \in S
    BY <1>1, <1>7
  <2>2. \A i \in 1 .. n : f[i] = With(f[i - 1], i)
    BY <1>7, <2>1 DEF step, Unfolds
  <2>3. f = [i \in 0 .. n |-> f[i]] /\ f[0] = Link!Zero
    BY <1>7 DEF Unfolds
  <2>4. \A i \in 0 .. n : f[i] = IF i = 0 THEN Link!Zero ELSE With(f[i - 1], i)
    BY <1>1, <2>2, <2>3, \A i \in 0 .. n : i = 0 \/ i \in 1 .. n
  <2> QED BY <2>3, <2>4
<1>9. Link!Total = [i \in 0 .. n |-> IF i = 0 THEN Link!Zero ELSE With(Link!Total[i - 1], i)]
  BY <1>8 DEF Link!Total, n, With
<1>10. 0 \in P
  BY <1>1, <1>3, <1>9 DEF Link!Zero
<1>11. ASSUME NEW i \in 1 .. n, i - 1 \in P PROVE i \in P
  <2>1. Link!Total[i] = With(Link!Total[i - 1], i) /\ i \in 0 .. n
    BY <1>1, <1>9
  <2>2. (i - 1) + 1 = i /\ i \in 1 .. n + 1 /\ i + 1 \in 1 .. n + 1 /\ 1 \in 1 .. n + 1
    BY <1>1
  <2>3. /\ Link!Total[i - 1].sent = readings[i].sent - readings[1].sent
        /\ Link!Total[i - 1].lost = readings[i].lost - readings[1].lost
    BY <1>11, <2>2
  <2>4. /\ Link!Total[i].sent = readings[i + 1].sent - readings[1].sent
        /\ Link!Total[i].lost = readings[i + 1].lost - readings[1].lost
    <3>1. /\ Link!Total[i].sent = Link!Total[i - 1].sent + samples[i].sent
          /\ Link!Total[i].lost = Link!Total[i - 1].lost + samples[i].lost
      BY ONLY <2>1 DEF With
    <3>2. /\ samples[i].sent = readings[i + 1].sent - readings[i].sent
          /\ samples[i].lost = readings[i + 1].lost - readings[i].lost
      BY <1>1
    <3>3. /\ readings[1].sent \in Int /\ readings[i].sent \in Int /\ readings[i + 1].sent \in Int
          /\ readings[1].lost \in Int /\ readings[i].lost \in Int /\ readings[i + 1].lost \in Int
      BY <1>3, <2>2
    <3>4. /\ Link!Total[i].sent
               = (readings[i].sent - readings[1].sent) + (readings[i + 1].sent - readings[i].sent)
          /\ Link!Total[i].lost
               = (readings[i].lost - readings[1].lost) + (readings[i + 1].lost - readings[i].lost)
      BY ONLY <2>3, <3>1, <3>2, Zenon
    <3>5. \A a, b, c \in Int : (b - a) + (c - b) = c - a
      OBVIOUS
    <3> QED
      BY ONLY <3>3, <3>4, <3>5, Zenon
  <2> QED
    BY <2>1, <2>4
<1>12. /\ Link!Total[n].sent = readings[n + 1].sent - readings[1].sent
       /\ Link!Total[n].lost = readings[n + 1].lost - readings[1].lost
  <2> HIDE DEF P
  <2>1. \A i \in 0 .. n : i \in P
    BY <1>1, <1>10, <1>11, UpTo
  <2>2. n \in P
    BY <1>1, <2>1
  <2> QED
    BY <2>2 DEF P
<1>13. n + 1 = Len(readings) /\ Head(readings) = readings[1]
  BY <1>1 DEF n
<1> QED
  BY <1>12, <1>13 DEF Link!InWindow, n

-----------------------------------------------------------------------------
(* Pairing: PINs and lockouts.                                             *)

\* A PIN that is in force, or yet to come, was not accepted; and the time since
\* the last failure and the time left of the lockout make up the lockout earned.
PinFollows ==
  /\ pin <= pins
  /\ \A p \in Pairs!PIN : used[p] <= 1 /\ (p = pin \/ p > pins => used[p] = 0)
  /\ failed >= Threshold => waited + pairingLocked >= Pairs!Lockout(failed)

PairsInv == Pairs!TypeOK /\ PinFollows

LEMMA PairsLeast == \A a, b \in Int : Pairs!Min({a, b}) = IF a <= b THEN a ELSE b
<1> SUFFICES ASSUME NEW a \in Int, NEW b \in Int PROVE Pairs!Min({a, b}) = IF a <= b THEN a ELSE b
  OBVIOUS
<1>1. \E x \in {a, b} : \A y \in {a, b} : x <= y
  OBVIOUS
<1> QED
  BY <1>1 DEF Pairs!Min

LEMMA PairsMost == \A a, b \in Int : Pairs!Max({a, b}) = IF a <= b THEN b ELSE a
<1> SUFFICES ASSUME NEW a \in Int, NEW b \in Int PROVE Pairs!Max({a, b}) = IF a <= b THEN b ELSE a
  OBVIOUS
<1>1. \E x \in {a, b} : \A y \in {a, b} : x >= y
  OBVIOUS
<1> QED
  BY <1>1 DEF Pairs!Max

\* A lockout is a time, and no longer than the cap.
LEMMA LockoutCapped == \A f \in Threshold .. MaxFailures : Pairs!Lockout(f) \in 0 .. MaxLockout
<1> USE PartsAssumption DEF Pairs!Assumption
<1> DEFINE n == MaxFailures
           step == [i \in 1 .. n |-> [x \in Nat |-> 2 * x]]
           P == {i \in 0 .. n : Pairs!Multiplier[i] \in Nat}
<1>1. n \in Nat /\ step \in Steps(n, Nat)
  BY DEF Steps
<1> HIDE DEF step
<1>2. PICK g \in [0 .. n -> Nat] : Unfolds(g, n, 1, step)
  BY <1>1, FoldExists
<1>3. g = [i \in 0 .. n |-> IF i = 0 THEN 1 ELSE 2 * g[i - 1]]
  <2>1. \A i \in 1 .. n : g[i - 1] \in Nat
    BY <1>1, <1>2
  <2>2. \A i \in 1 .. n : g[i] = 2 * g[i - 1]
    BY <1>2, <2>1 DEF step, Unfolds
  <2>3. g = [i \in 0 .. n |-> g[i]] /\ g[0] = 1
    BY <1>2 DEF Unfolds
  <2>4. \A i \in 0 .. n : g[i] = IF i = 0 THEN 1 ELSE 2 * g[i - 1]
    BY <1>1, <2>2, <2>3, \A i \in 0 .. n : i = 0 \/ i \in 1 .. n
  <2> QED BY <2>3, <2>4
<1>4. Pairs!Multiplier = [i \in 0 .. n |-> IF i = 0 THEN 1 ELSE 2 * Pairs!Multiplier[i - 1]]
  BY <1>3 DEF Pairs!Multiplier
<1>5. 0 \in P
  BY <1>1, <1>4
<1>6. \A i \in 1 .. n : i - 1 \in P => i \in P
  <2> SUFFICES ASSUME NEW i \in 1 .. n, i - 1 \in P PROVE i \in P
    OBVIOUS
  <2>1. i \in 0 .. n /\ i # 0 /\ Pairs!Multiplier[i - 1] \in Nat
    BY <1>1
  <2>2. Pairs!Multiplier[i] = 2 * Pairs!Multiplier[i - 1]
    BY ONLY <1>4, <2>1
  <2> QED
    BY ONLY <2>1, <2>2
<1>7. \A i \in 0 .. n : Pairs!Multiplier[i] \in Nat
  <2> HIDE DEF P
  <2>1. \A i \in 0 .. n : i \in P
    BY <1>1, <1>5, <1>6, UpTo
  <2> QED
    BY <2>1 DEF P
<1> QED
  <2> TAKE f \in Threshold .. MaxFailures
  <2>1. f - Threshold \in 0 .. n /\ MaxLockout \in Nat
    OBVIOUS
  <2>2. Pairs!Multiplier[f - Threshold] \in Nat
    BY <1>7, <2>1
  <2> DEFINE m == Pairs!Multiplier[f - Threshold]
  <2>3. m \in Int /\ MaxLockout \in Int
    BY <2>1, <2>2
  <2>4. Pairs!Lockout(f) = Pairs!Min({m, MaxLockout})
    BY DEF Pairs!Lockout
  <2> HIDE DEF m
  <2>5. Pairs!Min({m, MaxLockout}) = IF m <= MaxLockout THEN m ELSE MaxLockout
    BY <2>3, PairsLeast
  <2>6. m \in Nat
    BY <2>2 DEF m
  <2> QED
    BY <2>1, <2>4, <2>5, <2>6

LEMMA PairsInit == Pairs!Init => PairsInv
  BY PartsAssumption DEF Pairs!Assumption, Pairs!Init, PairsInv, PinFollows, Pairs!TypeOK, Pairs!PIN, Pairs!None, Pairs!Prompt

LEMMA PairsStep == PairsInv /\ [Pairs!Next]_pairing => PairsInv'
<1> SUFFICES ASSUME PairsInv, [Pairs!Next]_pairing PROVE PairsInv'
  OBVIOUS
<1> USE PartsAssumption DEF Pairs!Assumption, PairsInv, PinFollows, Pairs!TypeOK, Pairs!PIN, Pairs!None, Pairs!Prompt,
      Pairs!handler, Pairs!viewer
<1>1. ASSUME Pairs!GeneratePin PROVE PairsInv'
  BY <1>1 DEF Pairs!GeneratePin
<1>2. ASSUME Pairs!PinExpired PROVE PairsInv'
  BY <1>2 DEF Pairs!PinExpired
<1>3. ASSUME Pairs!WrongPin PROVE PairsInv'
  <2>1. /\ pairingLocked = 0 /\ failed < MaxFailures /\ failed' = failed + 1
        /\ pairingLocked' = IF failed' >= Threshold THEN Pairs!Lockout(failed') ELSE pairingLocked
        /\ waited' = 0
        /\ UNCHANGED <<pin, pinAge, pins, saving, keychain, prompt, token, used>>
    BY <1>3 DEF Pairs!WrongPin
  <2>2. failed' >= Threshold => pairingLocked' \in 0 .. MaxLockout /\ pairingLocked' = Pairs!Lockout(failed')
    BY <2>1, LockoutCapped
  <2>3. pairingLocked' \in 0 .. MaxLockout
    BY <2>1, <2>2
  <2>4. failed' >= Threshold => waited' + pairingLocked' >= Pairs!Lockout(failed)'
    BY <2>1, <2>2 DEF Pairs!Lockout, Pairs!Multiplier
  <2> QED
    BY <2>1, <2>3, <2>4
<1>4. ASSUME Pairs!Reset PROVE PairsInv'
  BY <1>4 DEF Pairs!Reset
<1>5. ASSUME Pairs!Tick PROVE PairsInv'
  <2>1. /\ pinAge' = Pairs!Min({pinAge + 1, Validity + 1})
        /\ pairingLocked' = Pairs!Max({pairingLocked - 1, 0})
        /\ waited' = Pairs!Min({waited + 1, MaxLockout})
        /\ UNCHANGED <<pin, pins, failed, saving, keychain, prompt, token, used>>
    BY <1>5 DEF Pairs!Tick
  <2>2. /\ pinAge' = IF pinAge + 1 <= Validity + 1 THEN pinAge + 1 ELSE Validity + 1
        /\ pairingLocked' = IF pairingLocked - 1 <= 0 THEN 0 ELSE pairingLocked - 1
        /\ waited' = IF waited + 1 <= MaxLockout THEN waited + 1 ELSE MaxLockout
    <3>1. pinAge + 1 \in Int /\ Validity + 1 \in Int /\ pairingLocked - 1 \in Int /\ 0 \in Int
          /\ waited + 1 \in Int /\ MaxLockout \in Int
      OBVIOUS
    <3> HIDE DEF PairsInv, Pairs!Assumption
    <3>2. Pairs!Min({pinAge + 1, Validity + 1})
            = IF pinAge + 1 <= Validity + 1 THEN pinAge + 1 ELSE Validity + 1
      BY ONLY <3>1, PairsLeast
    <3>3. Pairs!Max({pairingLocked - 1, 0}) = IF pairingLocked - 1 <= 0 THEN 0 ELSE pairingLocked - 1
      BY ONLY <3>1, PairsMost
    <3>4. Pairs!Min({waited + 1, MaxLockout}) = IF waited + 1 <= MaxLockout THEN waited + 1 ELSE MaxLockout
      BY ONLY <3>1, PairsLeast
    <3> QED
      BY ONLY <2>1, <3>2, <3>3, <3>4
  <2>3. failed >= Threshold => Pairs!Lockout(failed) \in 0 .. MaxLockout
    BY LockoutCapped
  <2>4. failed' >= Threshold => waited' + pairingLocked' >= Pairs!Lockout(failed)
    <3> SUFFICES ASSUME failed >= Threshold PROVE waited' + pairingLocked' >= Pairs!Lockout(failed)
      BY <2>1
    <3>1. /\ waited \in Nat /\ pairingLocked \in Nat /\ MaxLockout \in Nat
          /\ Pairs!Lockout(failed) \in Int /\ Pairs!Lockout(failed) <= MaxLockout
          /\ waited + pairingLocked >= Pairs!Lockout(failed)
      BY <2>3
    <3> HIDE DEF PairsInv, Pairs!Assumption
    <3> QED
      BY ONLY <2>2, <3>1
  <2>5. Pairs!Lockout(failed)' = Pairs!Lockout(failed)
    BY <2>1 DEF Pairs!Lockout, Pairs!Multiplier
  <2>6. Pairs!TypeOK'
    <3>1. pinAge' \in 0 .. Validity + 1 /\ pairingLocked' \in 0 .. MaxLockout /\ waited' \in 0 .. MaxLockout
      <4>1. /\ pinAge \in 0 .. Validity + 1 /\ pairingLocked \in 0 .. MaxLockout /\ waited \in 0 .. MaxLockout
            /\ Validity \in Nat /\ MaxLockout \in Nat
        OBVIOUS
      <4> QED
        BY ONLY <2>2, <4>1
    <3> QED
      BY <2>1, <3>1, Zenon
  <2>7. PinFollows'
    BY <2>1, <2>4, <2>5
  <2> QED
    BY <2>6, <2>7
<1>6. ASSUME Pairs!StartPrompt PROVE PairsInv'
  BY <1>6 DEF Pairs!StartPrompt
<1>7. ASSUME Pairs!ResetPrompt PROVE PairsInv'
  BY <1>7 DEF Pairs!ResetPrompt
<1>8. ASSUME Pairs!SubmitPin PROVE PairsInv'
  BY <1>8 DEF Pairs!SubmitPin
<1>9. ASSUME Pairs!ExecutePairing PROVE PairsInv'
  BY <1>9 DEF Pairs!ExecutePairing
<1>10. ASSUME NEW v \in Viewers, Pairs!RightPin(v) PROVE PairsInv'
  <2>1. /\ pin # 0 /\ pin' = 0 /\ failed' = 0
        /\ saving' = saving \cup {[viewer |-> v, pin |-> pin, deleted |-> FALSE]}
        /\ used' = [used EXCEPT ![pin] = used[pin] + 1]
        /\ UNCHANGED <<pinAge, pins, pairingLocked, keychain, prompt, token, waited>>
    BY <1>10 DEF Pairs!RightPin
  <2>2. [viewer |-> v, pin |-> pin, deleted |-> FALSE] \in [viewer : Viewers, pin : Pairs!PIN, deleted : BOOLEAN]
    BY <2>1
  <2>3. \A p \in Pairs!PIN : used'[p] = IF p = pin THEN 1 ELSE used[p]
    BY <2>1
  <2>4. used' \in [Pairs!PIN -> Nat]
    BY <2>1
  <2>9. saving' \subseteq [viewer : Viewers, pin : Pairs!PIN, deleted : BOOLEAN]
    BY <2>1, <2>2, Zenon
  <2>5. Pairs!TypeOK'
    BY <2>1, <2>4, <2>9
  <2>6. PinFollows'
    BY <2>1, <2>3
  <2> QED
    BY <2>5, <2>6
<1>11. ASSUME NEW v \in Viewers, Pairs!Revoke(v) PROVE PairsInv'
  BY <1>11 DEF Pairs!Revoke
<1>12. ASSUME NEW s \in saving, Pairs!DeleteOld(s) PROVE PairsInv'
  BY <1>12 DEF Pairs!DeleteOld
<1>13. ASSUME NEW s \in saving, Pairs!Save(s) PROVE PairsInv'
  BY <1>13 DEF Pairs!Save
<1>14. ASSUME UNCHANGED pairing PROVE PairsInv'
  BY <1>14 DEF pairing
<1> QED
  BY <1>1, <1>2, <1>3, <1>4, <1>5, <1>6, <1>7, <1>8, <1>9, <1>10, <1>11, <1>12, <1>13, <1>14 DEF Pairs!Next

\* Only a PIN that is tried while nothing is locked changes how many failed, but for
\* a reset.
LEMMA PairsGuarded ==
  PairsInv /\ [Pairs!Next]_pairing =>
    /\ \A p \in Pairs!PIN : used'[p] <= 1
    /\ failed >= Threshold /\ failed' # failed /\ pins' = pins /\ ~Pairs!Reset
         => waited >= Pairs!Lockout(failed)
<1> SUFFICES ASSUME PairsInv, [Pairs!Next]_pairing
             PROVE  /\ \A p \in Pairs!PIN : used'[p] <= 1
                    /\ failed >= Threshold /\ failed' # failed /\ pins' = pins /\ ~Pairs!Reset
                         => waited >= Pairs!Lockout(failed)
  OBVIOUS
<1>1. \A p \in Pairs!PIN : used'[p] <= 1
  <2>1. PinFollows'
    BY PairsStep DEF PairsInv
  <2>2. Pairs!PIN' = Pairs!PIN
    BY DEF Pairs!PIN
  <2> QED
    BY ONLY <2>1, <2>2 DEF PinFollows
<1>2. ASSUME failed >= Threshold, failed' # failed, ~Pairs!Reset PROVE waited >= Pairs!Lockout(failed)
  <2>1. pairingLocked = 0
    BY <1>2 DEF Pairs!Next, Pairs!GeneratePin, Pairs!PinExpired, Pairs!WrongPin, Pairs!Tick,
      Pairs!RightPin, Pairs!Revoke, Pairs!StartPrompt, Pairs!ResetPrompt, Pairs!SubmitPin,
      Pairs!ExecutePairing, Pairs!DeleteOld, Pairs!Save, Pairs!handler, Pairs!viewer, pairing
  <2>2. waited + pairingLocked >= Pairs!Lockout(failed) /\ waited \in Nat
    BY <1>2 DEF PairsInv, PinFollows, Pairs!TypeOK
  <2> QED
    BY <2>1, <2>2
<1> QED
  BY <1>1, <1>2

-----------------------------------------------------------------------------
(* SizeGovernor: when the display's own size is tried again.               *)

\* Away from the display's size, the link was last unstable no earlier than the
\* size was left, and the wait in force is the one that was earned.
WaitFollows ==
  policy = "sharp" =>
    /\ retryAfter = owedWait
    /\ current > 1 => lastUnstable # Governor!Never /\ lastUnstable <= sinceLeft

GovernorInv == Governor!TypeOK /\ WaitFollows

LEMMA GovernorLeast ==
  \A S \in SUBSET Nat : S # {} => Governor!Min(S) \in S /\ \A n \in S : Governor!Min(S) <= n
<1> SUFFICES ASSUME NEW S \in SUBSET Nat, S # {}
             PROVE  Governor!Min(S) \in S /\ \A n \in S : Governor!Min(S) <= n
  OBVIOUS
<1>1. \E m \in S : \A n \in S : m <= n
  BY LeastElement
<1> QED
  BY <1>1 DEF Governor!Min

LEMMA GovernorLesser == \A a, b \in Nat : Governor!Min({a, b}) = IF a <= b THEN a ELSE b
<1> SUFFICES ASSUME NEW a \in Nat, NEW b \in Nat
             PROVE  Governor!Min({a, b}) = IF a <= b THEN a ELSE b
  OBVIOUS
<1>1. Governor!Min({a, b}) \in {a, b} /\ \A n \in {a, b} : Governor!Min({a, b}) <= n
  BY GovernorLeast
<1> QED
  BY <1>1

LEMMA GovernorGreater == \A a, b \in Nat : Governor!Max({a, b}) = IF a <= b THEN b ELSE a
<1> SUFFICES ASSUME NEW a \in Nat, NEW b \in Nat PROVE Governor!Max({a, b}) = IF a <= b THEN b ELSE a
  OBVIOUS
<1>1. \E x \in {a, b} : \A y \in {a, b} : x >= y
  OBVIOUS
<1> QED
  BY <1>1 DEF Governor!Max

\* An age counts up to its cap, or stays Never.
LEMMA OlderIs ==
  \A cap \in Nat \ {0} : \A age \in Governor!Ages(cap) :
    /\ Governor!Older(age, cap) \in Governor!Ages(cap)
    /\ age # Governor!Never =>
         Governor!Older(age, cap) = IF age + 1 <= cap THEN age + 1 ELSE cap
    /\ age = Governor!Never => Governor!Older(age, cap) = Governor!Never
<1> SUFFICES ASSUME NEW cap \in Nat \ {0}, NEW age \in Governor!Ages(cap)
             PROVE  /\ Governor!Older(age, cap) \in Governor!Ages(cap)
                    /\ age # Governor!Never =>
                         Governor!Older(age, cap) = IF age + 1 <= cap THEN age + 1 ELSE cap
                    /\ age = Governor!Never => Governor!Older(age, cap) = Governor!Never
  OBVIOUS
<1>1. CASE age = Governor!Never
  BY <1>1 DEF Governor!Older, Governor!Ages
<1>2. CASE age # Governor!Never
  <2>1. age \in Nat /\ age + 1 \in Nat /\ cap \in Nat
    BY <1>2 DEF Governor!Ages, Governor!Never
  <2>2. Governor!Min({age + 1, cap}) = IF age + 1 <= cap THEN age + 1 ELSE cap
    BY <2>1, GovernorLesser
  <2> QED
    BY <1>2, <2>1, <2>2 DEF Governor!Older, Governor!Ages
<1> QED
  BY <1>1, <1>2

\* There is a rung to go to, and the one below the display's size or less is not
\* the display's own.
LEMMA RungsFit ==
  \A bitrate \in Bitrates :
    /\ \A quarters \in {3, 4} : Governor!LargestFitting(bitrate, quarters) \in Governor!Rung
    /\ current \in Governor!Rung =>
         Governor!RungBelow(bitrate) \in Governor!Rung /\ Governor!RungBelow(bitrate) > 1
<1> SUFFICES ASSUME NEW bitrate \in Bitrates
             PROVE  /\ \A quarters \in {3, 4} : Governor!LargestFitting(bitrate, quarters) \in Governor!Rung
                    /\ current \in Governor!Rung =>
                         Governor!RungBelow(bitrate) \in Governor!Rung /\ Governor!RungBelow(bitrate) > 1
  OBVIOUS
<1>1. Len(Cost) \in Nat /\ Len(Cost) > 1
  BY PartsAssumption DEF Governor!Assumption
<1>2. \A quarters \in {3, 4} : Governor!LargestFitting(bitrate, quarters) \in Governor!Rung
  <2> TAKE quarters \in {3, 4}
  <2> DEFINE S == {r \in Governor!Rung : Governor!Fits(r, bitrate, quarters)} \cup {Len(Cost)}
  <2>1. S \subseteq Governor!Rung /\ S # {} /\ S \in SUBSET Nat
    BY <1>1 DEF Governor!Rung
  <2>2. Governor!LargestFitting(bitrate, quarters) = Governor!Min(S)
    BY DEF Governor!LargestFitting
  <2> HIDE DEF S
  <2> QED
    BY <2>1, <2>2, GovernorLeast
<1>3. ASSUME current \in Governor!Rung
      PROVE  Governor!RungBelow(bitrate) \in Governor!Rung /\ Governor!RungBelow(bitrate) > 1
  <2> DEFINE l == Governor!LargestFitting(bitrate, 4)
             m == Governor!Max({l, current + 1})
  <2>1. l \in Nat /\ current \in Nat /\ current + 1 \in Nat /\ current >= 1
    BY <1>1, <1>2, <1>3 DEF Governor!Rung
  <2>2. Governor!RungBelow(bitrate) = Governor!Min({m, Len(Cost)})
    BY DEF Governor!RungBelow
  <2> HIDE DEF l
  <2>3. m = IF l <= current + 1 THEN current + 1 ELSE l
    BY <2>1, GovernorGreater
  <2> HIDE DEF m
  <2>4. m \in Nat /\ m > 1
    BY <2>1, <2>3
  <2>5. Governor!Min({m, Len(Cost)}) = IF m <= Len(Cost) THEN m ELSE Len(Cost)
    BY <1>1, <2>4, GovernorLesser
  <2> QED
    BY <1>1, <2>2, <2>4, <2>5 DEF Governor!Rung
<1> QED
  BY <1>2, <1>3

LEMMA GovernorInit == Governor!Init => GovernorInv
<1> SUFFICES ASSUME Governor!Init PROVE GovernorInv
  OBVIOUS
<1>1. current \in Governor!Rung /\ (policy = "sharp" => current = 1)
  <2>1. PICK bitrate \in Bitrates :
          current = IF policy = "sharp" THEN 1 ELSE Governor!LargestFitting(bitrate, 3)
    BY DEF Governor!Init
  <2>2. Governor!LargestFitting(bitrate, 3) \in Governor!Rung
    BY RungsFit
  <2>3. 1 \in Governor!Rung
    BY PartsAssumption DEF Governor!Assumption, Governor!Rung
  <2> QED
    BY <2>1, <2>2, <2>3
<1>2. /\ policy \in {"sharp", "smooth"} /\ pressure = Governor!NoPressure
      /\ changed = Governor!Never /\ runStart = Governor!Never /\ lastCongested = Governor!Never
      /\ lastUnstable = Governor!Never /\ lastReturn = Governor!Never
      /\ retryAfter = UpAfter /\ sinceLeft = 0 /\ owedWait = UpAfter
  BY DEF Governor!Init
<1>3. calm \in BOOLEAN
  BY Zenon DEF Governor!Init
<1>4. /\ UpAfter \in UpAfter .. MaxUpAfter /\ 0 \in 0 .. MaxUpAfter
      /\ Governor!NoPressure \in [way : {"none", "down", "up"}, age : 0 .. UpAfter]
  BY PartsAssumption DEF Governor!Assumption, Governor!NoPressure
<1>5. WaitFollows
  BY <1>1, <1>2 DEF WaitFollows
<1> QED
  BY <1>1, <1>2, <1>3, <1>4, <1>5 DEF GovernorInv, Governor!TypeOK, Governor!Ages

\* The parts of a report that both policies share.
LEMMA GovernorShared ==
  ASSUME GovernorInv, NEW bitrate \in Bitrates, NEW congested \in BOOLEAN,
         Governor!Update(bitrate, congested)
  PROVE  /\ policy' = policy /\ calm' = calm /\ changed' \in Governor!Ages(MinChangeGap)
         /\ sinceLeft' \in 0 .. MaxUpAfter /\ owedWait' \in UpAfter .. MaxUpAfter
         /\ sinceLeft' = IF current = 1 THEN 1
                         ELSE IF sinceLeft + 1 <= MaxUpAfter THEN sinceLeft + 1 ELSE MaxUpAfter
<1> USE PartsAssumption DEF Governor!Assumption
<1>1. /\ changed \in Governor!Ages(MinChangeGap) /\ sinceLeft \in 0 .. MaxUpAfter
      /\ owedWait \in UpAfter .. MaxUpAfter /\ current \in Governor!Rung
  BY DEF GovernorInv, Governor!TypeOK
<1>2. changed' \in Governor!Ages(MinChangeGap)
  <2>1. MinChangeGap \in Nat \ {0}
    OBVIOUS
  <2>2. 0 \in Governor!Ages(MinChangeGap)
    BY <2>1 DEF Governor!Ages
  <2>3. changed' = Governor!Older(IF current' # current THEN 0 ELSE changed, MinChangeGap)
    BY DEF Governor!Update
  <2> QED
    BY <1>1, <2>1, <2>2, <2>3, OlderIs
<1>3. sinceLeft' = IF current = 1 THEN 1
                   ELSE IF sinceLeft + 1 <= MaxUpAfter THEN sinceLeft + 1 ELSE MaxUpAfter
  <2>1. sinceLeft + 1 \in Nat /\ MaxUpAfter \in Nat
    BY <1>1
  <2>2. Governor!Min({sinceLeft + 1, MaxUpAfter})
          = IF sinceLeft + 1 <= MaxUpAfter THEN sinceLeft + 1 ELSE MaxUpAfter
    BY <2>1, GovernorLesser
  <2> QED
    BY <2>2 DEF Governor!Update
<1>4. owedWait' \in UpAfter .. MaxUpAfter
  <2>1. 2 * owedWait \in Nat /\ MaxUpAfter \in Nat /\ UpAfter \in UpAfter .. MaxUpAfter
    BY <1>1
  <2>2. Governor!Min({2 * owedWait, MaxUpAfter})
          = IF 2 * owedWait <= MaxUpAfter THEN 2 * owedWait ELSE MaxUpAfter
    BY <2>1, GovernorLesser
  <2>3. Governor!Min({2 * owedWait, MaxUpAfter}) \in UpAfter .. MaxUpAfter
    BY <1>1, <2>1, <2>2
  <2>4. owedWait' \in {owedWait, Governor!Min({2 * owedWait, MaxUpAfter}), UpAfter}
    BY DEF Governor!Update
  <2> QED
    BY <1>1, <2>1, <2>3, <2>4
<1>5. policy' = policy /\ calm' = calm
  BY Zenon DEF Governor!Update
<1>6. sinceLeft' \in 0 .. MaxUpAfter
  BY <1>1, <1>3
<1> QED
  BY <1>2, <1>3, <1>4, <1>5, <1>6

LEMMA GovernorSharp ==
  ASSUME GovernorInv, NEW bitrate \in Bitrates, NEW congested \in BOOLEAN,
         Governor!Update(bitrate, congested), policy = "sharp"
  PROVE  /\ GovernorInv'
         /\ current > 1 /\ current' = 1 => sinceLeft >= owedWait
<1> USE PartsAssumption DEF Governor!Assumption
<1> DEFINE began == IF congested /\ ~Governor!Within(lastCongested, CalmGap) THEN 0 ELSE runStart
           lastBad == IF congested THEN 0 ELSE lastCongested
           unstable == congested /\ began >= DownAfter
           lastDown == IF unstable THEN 0 ELSE lastUnstable
           settled == ~Governor!Within(lastBad, CalmGap) /\ ~Governor!Within(lastDown, retryAfter)
           nxt == IF Governor!MayChange /\ unstable THEN Governor!RungBelow(bitrate)
                  ELSE IF Governor!MayChange /\ current > 1 /\ settled THEN 1
                  ELSE current
<1>1. /\ current' = nxt
      /\ runStart' = Governor!Older(began, DownAfter)
      /\ lastCongested' = Governor!Older(lastBad, CalmGap)
      /\ lastUnstable' = Governor!Older(lastDown, MaxUpAfter)
      /\ lastReturn' = Governor!Older(IF nxt = 1 /\ current # 1 THEN 0 ELSE lastReturn, RetryHold)
      /\ retryAfter' = IF current = 1 /\ nxt # 1 THEN Governor!OnLeave ELSE retryAfter
      /\ pressure' = pressure
  BY DEF Governor!Update, Governor!SharpNext
<1>2. /\ current \in Governor!Rung /\ pressure \in [way : {"none", "down", "up"}, age : 0 .. UpAfter]
      /\ runStart \in Governor!Ages(DownAfter) /\ lastCongested \in Governor!Ages(CalmGap)
      /\ lastUnstable \in Governor!Ages(MaxUpAfter) /\ lastReturn \in Governor!Ages(RetryHold)
      /\ retryAfter \in UpAfter .. MaxUpAfter /\ calm \in BOOLEAN
      /\ sinceLeft \in 0 .. MaxUpAfter /\ retryAfter = owedWait
      /\ current > 1 => lastUnstable # Governor!Never /\ lastUnstable <= sinceLeft
  BY Zenon DEF GovernorInv, Governor!TypeOK, WaitFollows
<1>3. /\ DownAfter \in Nat \ {0} /\ CalmGap \in Nat \ {0} /\ MaxUpAfter \in Nat \ {0}
      /\ RetryHold \in Nat \ {0} /\ \A cap \in Nat : 0 \in Governor!Ages(cap)
  BY DEF Governor!Ages
<1>4. /\ began \in Governor!Ages(DownAfter) /\ lastBad \in Governor!Ages(CalmGap)
      /\ lastDown \in Governor!Ages(MaxUpAfter)
  BY <1>2, <1>3
<1>5. /\ Governor!RungBelow(bitrate) \in Governor!Rung /\ Governor!RungBelow(bitrate) > 1
      /\ nxt \in Governor!Rung
  <2>1. 1 \in Governor!Rung
    BY DEF Governor!Rung
  <2> QED
    BY <1>2, <2>1, RungsFit
<1>6. retryAfter' = owedWait' /\ retryAfter' \in UpAfter .. MaxUpAfter
  <2>1. Governor!OnLeave = IF Governor!Within(lastReturn, RetryHold)
                           THEN Governor!Min({2 * owedWait, MaxUpAfter}) ELSE UpAfter
    BY <1>2 DEF Governor!OnLeave
  <2>2. owedWait' = IF current # 1 \/ current' = 1 THEN owedWait
                    ELSE IF Governor!Within(lastReturn, RetryHold)
                    THEN Governor!Min({2 * owedWait, MaxUpAfter}) ELSE UpAfter
    BY DEF Governor!Update
  <2> HIDE DEF nxt
  <2>3. retryAfter' = owedWait'
    BY <1>1, <1>2, <2>1, <2>2
  <2> QED
    BY <2>3, GovernorShared
<1> HIDE DEF nxt, began, lastBad
<1>7. /\ runStart' \in Governor!Ages(DownAfter) /\ lastCongested' \in Governor!Ages(CalmGap)
      /\ lastUnstable' \in Governor!Ages(MaxUpAfter) /\ lastReturn' \in Governor!Ages(RetryHold)
  <2> DEFINE returned == IF nxt = 1 /\ current # 1 THEN 0 ELSE lastReturn
  <2>1. returned \in Governor!Ages(RetryHold)
    BY <1>2, <1>3
  <2> HIDE DEF returned, lastDown
  <2>2. /\ Governor!Older(began, DownAfter) \in Governor!Ages(DownAfter)
        /\ Governor!Older(lastBad, CalmGap) \in Governor!Ages(CalmGap)
        /\ Governor!Older(lastDown, MaxUpAfter) \in Governor!Ages(MaxUpAfter)
        /\ Governor!Older(returned, RetryHold) \in Governor!Ages(RetryHold)
    BY <1>3, <1>4, <2>1, OlderIs
  <2> QED
    BY <1>1, <2>2 DEF returned
<1>8. Governor!TypeOK'
  <2>1. calm' \in BOOLEAN /\ policy' \in {"sharp", "smooth"}
    BY <1>2, GovernorShared
  <2>2. changed' \in Governor!Ages(MinChangeGap) /\ sinceLeft' \in 0 .. MaxUpAfter
        /\ owedWait' \in UpAfter .. MaxUpAfter
    BY GovernorShared
  <2> QED
    BY <1>1, <1>2, <1>5, <1>6, <1>7, <2>1, <2>2, Zenon DEF Governor!TypeOK, Governor!Ages
<1>9. current' > 1 => lastUnstable' # Governor!Never /\ lastUnstable' <= sinceLeft'
  <2> SUFFICES ASSUME current' > 1 PROVE lastUnstable' # Governor!Never /\ lastUnstable' <= sinceLeft'
    OBVIOUS
  <2>1. unstable \/ (current > 1 /\ ~unstable)
    BY <1>1, <1>2 DEF nxt, Governor!Rung
  <2>2. lastDown # Governor!Never /\ (lastDown = 0 \/ (current > 1 /\ lastDown <= sinceLeft))
    BY <1>2, <2>1 DEF Governor!Never
  <2>3. lastDown \in Nat
    BY <1>4, <2>2 DEF Governor!Ages
  <2> HIDE DEF lastDown
  <2>4. lastUnstable' = IF lastDown + 1 <= MaxUpAfter THEN lastDown + 1 ELSE MaxUpAfter
    BY <1>1, <1>3, <1>4, <2>2, OlderIs
  <2>5. sinceLeft' = IF current = 1 THEN 1
                     ELSE IF sinceLeft + 1 <= MaxUpAfter THEN sinceLeft + 1 ELSE MaxUpAfter
    BY GovernorShared
  <2> QED
    BY <1>2, <1>3, <2>2, <2>3, <2>4, <2>5 DEF Governor!Never, Governor!Rung
<1>10. ASSUME current > 1, current' = 1 PROVE sinceLeft >= owedWait
  <2>1. ~unstable /\ settled
    BY <1>1, <1>5, <1>10 DEF nxt
  <2>2. lastDown = lastUnstable /\ ~Governor!Within(lastUnstable, retryAfter)
    BY <2>1
  <2>3. lastUnstable >= retryAfter
    BY <1>2, <1>10, <2>2 DEF Governor!Within, Governor!Ages
  <2> QED
    BY <1>2, <1>10, <2>3 DEF Governor!Ages, Governor!Never
<1> QED
  BY <1>6, <1>8, <1>9, <1>10 DEF GovernorInv, WaitFollows

LEMMA GovernorSmooth ==
  ASSUME GovernorInv, NEW bitrate \in Bitrates, NEW congested \in BOOLEAN,
         Governor!Update(bitrate, congested), policy # "sharp"
  PROVE  GovernorInv'
<1> USE PartsAssumption DEF Governor!Assumption
<1> DEFINE pushed == Governor!Pressure(bitrate, congested)
           goDown == Governor!MayChange /\ pushed.way = "down" /\ pushed.age >= DownAfter
           goUp == Governor!MayChange /\ pushed.way = "up" /\ pushed.age >= UpAfter
           Pushes == [way : {"none", "down", "up"}, age : 0 .. UpAfter]
<1>1. /\ pressure' = IF goDown \/ goUp \/ pushed = Governor!NoPressure THEN Governor!NoPressure
                     ELSE [pushed EXCEPT !.age = Governor!Min({pushed.age + 1, UpAfter})]
      /\ current' = IF goDown THEN Governor!RungBelow(bitrate) ELSE IF goUp THEN current - 1 ELSE current
      /\ runStart' = runStart /\ lastCongested' = lastCongested /\ lastUnstable' = lastUnstable
      /\ lastReturn' = lastReturn /\ retryAfter' = retryAfter
  BY DEF Governor!Update, Governor!SmoothNext, Governor!stability
<1>2. /\ current \in Governor!Rung /\ pressure \in Pushes
      /\ runStart \in Governor!Ages(DownAfter) /\ lastCongested \in Governor!Ages(CalmGap)
      /\ lastUnstable \in Governor!Ages(MaxUpAfter) /\ lastReturn \in Governor!Ages(RetryHold)
      /\ retryAfter \in UpAfter .. MaxUpAfter /\ calm \in BOOLEAN
      /\ policy \in {"sharp", "smooth"}
  BY Zenon DEF GovernorInv, Governor!TypeOK
<1>3. 0 \in 0 .. UpAfter /\ Governor!NoPressure \in Pushes
  BY DEF Governor!NoPressure
<1>4. pushed \in Pushes /\ (pushed.way = "up" => current > 1)
  BY <1>2, <1>3 DEF Governor!Pressure, Governor!NoPressure
<1> HIDE DEF pushed
<1>5. current' \in Governor!Rung
  <2>1. Governor!RungBelow(bitrate) \in Governor!Rung
    BY <1>2, RungsFit
  <2>2. goUp => current - 1 \in Governor!Rung
    BY <1>2, <1>4 DEF Governor!Rung
  <2> QED
    BY <1>1, <1>2, <2>1, <2>2
<1>6. pressure' \in Pushes
  <2>1. pushed.age + 1 \in Nat /\ UpAfter \in Nat
    BY <1>4
  <2>4. Governor!Min({pushed.age + 1, UpAfter})
          = IF pushed.age + 1 <= UpAfter THEN pushed.age + 1 ELSE UpAfter
    BY <2>1, GovernorLesser
  <2>2. Governor!Min({pushed.age + 1, UpAfter}) \in 0 .. UpAfter
    BY <2>1, <2>4
  <2>3. [pushed EXCEPT !.age = Governor!Min({pushed.age + 1, UpAfter})] \in Pushes
    BY <1>4, <2>2
  <2> QED
    BY <1>1, <1>3, <2>3
<1>7. /\ policy' = policy /\ calm' = calm /\ changed' \in Governor!Ages(MinChangeGap)
      /\ sinceLeft' \in 0 .. MaxUpAfter /\ owedWait' \in UpAfter .. MaxUpAfter
  BY GovernorShared
<1>8. Governor!TypeOK'
  BY <1>1, <1>2, <1>5, <1>6, <1>7, Zenon DEF Governor!TypeOK, Governor!Ages
<1> QED
  BY <1>7, <1>8 DEF GovernorInv, WaitFollows

LEMMA GovernorStep ==
  GovernorInv /\ [Governor!Next]_governor =>
    /\ GovernorInv'
    /\ policy = "sharp" /\ current > 1 /\ current' = 1 => sinceLeft >= owedWait
<1> SUFFICES ASSUME GovernorInv, [Governor!Next]_governor
             PROVE  /\ GovernorInv'
                    /\ policy = "sharp" /\ current > 1 /\ current' = 1 => sinceLeft >= owedWait
  OBVIOUS
<1>1. CASE Governor!Step
  <2>1. PICK bitrate \in Bitrates, congested \in BOOLEAN : Governor!Update(bitrate, congested)
    BY <1>1 DEF Governor!Step
  <2> QED
    BY <2>1, GovernorSharp, GovernorSmooth
<1>2. CASE Governor!Calm
  <2>1. /\ calm' = TRUE /\ policy' = policy /\ current' = current /\ pressure' = pressure
        /\ changed' = changed /\ runStart' = runStart /\ lastCongested' = lastCongested
        /\ lastUnstable' = lastUnstable /\ lastReturn' = lastReturn /\ retryAfter' = retryAfter
        /\ sinceLeft' = sinceLeft /\ owedWait' = owedWait
    BY <1>2 DEF Governor!Calm, Governor!stability
  <2>2. calm' \in BOOLEAN
    BY <2>1, Zenon
  <2> QED
    BY <2>1, <2>2 DEF GovernorInv, Governor!TypeOK, WaitFollows, Governor!Ages
<1>3. CASE UNCHANGED governor
  <2>1. /\ calm' = calm /\ policy' = policy /\ current' = current /\ pressure' = pressure
        /\ changed' = changed /\ runStart' = runStart /\ lastCongested' = lastCongested
        /\ lastUnstable' = lastUnstable /\ lastReturn' = lastReturn /\ retryAfter' = retryAfter
        /\ sinceLeft' = sinceLeft /\ owedWait' = owedWait
    BY <1>3 DEF governor
  <2> QED
    BY <2>1 DEF GovernorInv, Governor!TypeOK, WaitFollows, Governor!Ages
<1> QED
  BY <1>1, <1>2, <1>3 DEF Governor!Next

-----------------------------------------------------------------------------
(* Negotiation: what the ends agree on.                                    *)

LEMMA Quotient ==
  ASSUME NEW a \in Nat, NEW b \in Nat \ {0}
  PROVE  a \div b \in Nat /\ b * (a \div b) <= a /\ a < b * (a \div b) + b
  OBVIOUS

LEMMA Products ==
  ASSUME NEW a \in Nat, NEW b \in Nat, NEW c \in Nat, NEW d \in Nat, a <= c, b <= d
  PROVE  a * b \in Nat /\ a * b <= c * d
<1>1. a * b <= c * b
  OBVIOUS
<1>2. c * b <= c * d
  OBVIOUS
<1> QED
  BY <1>1, <1>2

LEMMA Strictly ==
  ASSUME NEW p \in Nat, NEW q \in Nat, NEW b \in Nat \ {0}, b * p < b * q + b
  PROVE  p <= q
<1> SUFFICES ASSUME p >= q + 1 PROVE FALSE
  OBVIOUS
<1>1. b * p >= b * (q + 1)
  OBVIOUS
<1>2. b * (q + 1) = b * q + b
  OBVIOUS
<1> QED
  BY <1>1, <1>2

LEMMA QuotientsGrow ==
  ASSUME NEW a \in Nat, NEW c \in Nat, NEW b \in Nat \ {0}, a <= c
  PROVE  a \div b <= c \div b
<1> DEFINE p == a \div b
           q == c \div b
<1>1. p \in Nat /\ q \in Nat /\ b * p <= a /\ c < b * q + b
  BY Quotient
<1> HIDE DEF p, q
<1>2. b * p < b * q + b
  <2>1. b * p \in Nat /\ b * q + b \in Nat
    BY <1>1
  <2> QED
    BY <1>1, <2>1
<1>3. p <= q
  BY <1>1, <1>2, Strictly
<1> QED
  BY <1>3 DEF p, q

LEMMA Evens ==
  ASSUME NEW v \in Nat
  PROVE  /\ Stream0!Even(v) \in Nat \ {0, 1} /\ Stream0!Even(v) % 2 = 0
         /\ v >= 2 => v - 1 <= Stream0!Even(v) /\ Stream0!Even(v) <= v
         /\ v < 2 => Stream0!Even(v) = 2
         /\ \A w \in Nat : v <= w => Stream0!Even(v) <= Stream0!Even(w)
  BY DEF Stream0!Even, Stream0!AtLeast

Sizes2 == [w : Nat \ {0, 1}, h : Nat \ {0, 1}]

\* A picture of a height fits the display and has its shape.
LEMMA ScaledFits ==
  ASSUME NEW d \in Sizes2, NEW h \in Nat \ {0}
  PROVE  LET s == Stream0!Scaled(d, h)
         IN /\ s \in Sizes2 /\ s.w <= d.w /\ s.h <= d.h
            /\ h >= 2 => s.h <= h
            /\ s.w % 2 = 0 /\ s.h % 2 = 0
            /\ s.w * d.h - s.h * d.w \in -(2 * (d.w + d.h)) .. 2 * (d.w + d.h)
<1> DEFINE W == d.w
           H == d.h
           g == Stream0!AtMost(h, H)
           q == (W * g) \div H
           a == Stream0!Even(q)
           b == Stream0!Even(g)
<1>1. /\ W \in Nat \ {0, 1} /\ H \in Nat \ {0, 1}
      /\ g \in Nat \ {0} /\ g <= H /\ g <= h /\ g \in {h, H}
  BY DEF Sizes2, Stream0!AtMost
<1>2. Stream0!Scaled(d, h) = [w |-> a, h |-> b]
  BY DEF Stream0!Scaled
<1> HIDE DEF W, H, g
<1>3. W * g \in Nat /\ W * g <= W * H
  BY <1>1, Products
<1>4. q \in Nat /\ H * q <= W * g /\ W * g < H * q + H
  BY <1>1, <1>3, Quotient
<1> HIDE DEF q
<1>5. q <= W
  <2>1. H * q \in Nat /\ H * W \in Nat /\ H * W = W * H
    BY <1>1, <1>4
  <2>2. H * q < H * W + H
    BY <1>1, <1>3, <1>4, <2>1
  <2> QED
    BY <1>1, <1>4, <2>2, Strictly
<1>6. /\ a \in Nat \ {0, 1} /\ a % 2 = 0 /\ b \in Nat \ {0, 1} /\ b % 2 = 0
      /\ q >= 2 => q - 1 <= a /\ a <= q
      /\ q < 2 => a = 2
      /\ g >= 2 => g - 1 <= b /\ b <= g
      /\ g < 2 => b = 2
  BY <1>1, <1>4, Evens
<1> HIDE DEF a, b
<1>7. a <= W /\ b <= H /\ (h >= 2 => b <= h)
  BY <1>1, <1>4, <1>5, <1>6
<1>8. a * H - b * W \in -(2 * (W + H)) .. 2 * (W + H)
  <2>1. q - 1 <= a /\ a <= q + 2 /\ g - 1 <= b /\ b <= g + 1
    BY <1>1, <1>4, <1>6
  <2>2. H * q - H <= H * a /\ H * a <= H * q + 2 * H
    <3>1. H * (q - 1) <= H * a /\ H * a <= H * (q + 2)
      BY <1>1, <1>4, <1>6, <2>1
    <3>2. H * (q - 1) = H * q - H /\ H * (q + 2) = H * q + 2 * H
      BY <1>1, <1>4
    <3> QED
      BY <3>1, <3>2
  <2>3. W * g - W <= W * b /\ W * b <= W * g + W
    <3>1. W * (g - 1) <= W * b /\ W * b <= W * (g + 1)
      BY <1>1, <1>6, <2>1
    <3>2. W * (g - 1) = W * g - W /\ W * (g + 1) = W * g + W
      BY <1>1
    <3> QED
      BY <3>1, <3>2
  <2>4. a * H = H * a /\ b * W = W * b
    BY <1>1, <1>6
  <2> DEFINE x == H * a
             y == W * b
             m == H * q
             n == W * g
  <2>5. x \in Int /\ y \in Int /\ m \in Int /\ n \in Int
    BY <1>1, <1>4, <1>6
  <2>6. /\ m - H <= x /\ x <= m + 2 * H
        /\ n - W <= y /\ y <= n + W
        /\ m <= n /\ n < m + H
    BY <1>4, <2>2, <2>3
  <2> HIDE DEF x, y, m, n
  <2>7. x - y \in -(2 * (W + H)) .. 2 * (W + H)
    BY <1>1, <2>5, <2>6
  <2> QED
    BY <2>4, <2>7 DEF x, y
<1> QED
  <2>1. [w |-> a, h |-> b] \in Sizes2
    BY <1>6 DEF Sizes2
  <2> QED
    BY <1>2, <1>6, <1>7, <1>8, <2>1 DEF W, H

\* A lower picture is of fewer pixels and costs less.
LEMMA LowerIsCheaper ==
  ASSUME NEW d \in Sizes2, NEW g \in Nat \ {0}, NEW h \in Nat \ {0}, g <= h
  PROVE  /\ Stream0!Pixels(Stream0!Scaled(d, g)) <= Stream0!Pixels(Stream0!Scaled(d, h))
         /\ \A ceiling, fps \in Nat : \A codec :
              Stream0!Affords(ceiling, fps, codec, Stream0!Scaled(d, h))
                => Stream0!Affords(ceiling, fps, codec, Stream0!Scaled(d, g))
<1> DEFINE S(x) == Stream0!Scaled(d, x)
           low == Stream0!AtMost(g, d.h)
           top == Stream0!AtMost(h, d.h)
<1>1. /\ d.w \in Nat /\ d.h \in Nat \ {0}
      /\ low \in Nat /\ top \in Nat /\ low <= top
  BY DEF Sizes2, Stream0!AtMost
<1>2. /\ S(g) = [w |-> Stream0!Even((d.w * low) \div d.h), h |-> Stream0!Even(low)]
      /\ S(h) = [w |-> Stream0!Even((d.w * top) \div d.h), h |-> Stream0!Even(top)]
  BY DEF Stream0!Scaled
<1> HIDE DEF low, top
<1>3. /\ d.w * low \in Nat /\ d.w * top \in Nat /\ d.w * low <= d.w * top
  BY <1>1, Products
<1>4. /\ (d.w * low) \div d.h \in Nat /\ (d.w * top) \div d.h \in Nat
      /\ (d.w * low) \div d.h <= (d.w * top) \div d.h
  BY <1>1, <1>3, Quotient, QuotientsGrow
<1>5. S(g).w <= S(h).w /\ S(g).h <= S(h).h
  BY <1>1, <1>2, <1>4, Evens
<1>6. /\ S(g).w \in Nat /\ S(h).w \in Nat /\ S(g).h \in Nat /\ S(h).h \in Nat
  BY ScaledFits DEF Sizes2
<1> DEFINE p == S(g).w * S(g).h
           q == S(h).w * S(h).h
<1>7. p \in Nat /\ q \in Nat /\ p <= q
  BY <1>5, <1>6, Products
<1>8. Stream0!Pixels(S(g)) = p /\ Stream0!Pixels(S(h)) = q
  BY DEF Stream0!Pixels
<1>9. ASSUME NEW ceiling \in Nat, NEW fps \in Nat, NEW codec, Stream0!Affords(ceiling, fps, codec, S(h))
      PROVE  Stream0!Affords(ceiling, fps, codec, S(g))
  <2> DEFINE bits == Stream0!BitsPerPixelFloor(codec)
             u == (p * fps) \div 1000
             v == (q * fps) \div 1000
  <2>1. bits \in Nat /\ v * bits <= ceiling * 1000
    BY <1>9 DEF Stream0!Affords, Stream0!BitsPerPixelFloor
  <2> HIDE DEF S, p, q
  <2>2. p * fps \in Nat /\ q * fps \in Nat /\ p * fps <= q * fps
    BY <1>7, Products
  <2>3. u \in Nat /\ v \in Nat /\ u <= v
    BY <2>2, Quotient, QuotientsGrow
  <2> HIDE DEF u, v, bits
  <2>4. u * bits \in Nat /\ v * bits \in Nat /\ u * bits <= v * bits
    BY <2>1, <2>3, Products
  <2>5. u * bits <= ceiling * 1000
    <3>1. ceiling * 1000 \in Nat
      OBVIOUS
    <3> QED
      BY <2>1, <2>4, <3>1
  <2> QED
    BY <2>5 DEF Stream0!Affords, u, p, bits
<1> QED
  BY <1>7, <1>8, <1>9

\* The heights that are tried when none was configured.
Heights(d) == {d.h} \cup {h \in Stream0!ToSet(StandardHeights) : h < d.h}

LEMMA LeastPlace ==
  ASSUME NEW S \in SUBSET Nat, S # {}
  PROVE  Stream0!Min(S) \in S /\ \A n \in S : Stream0!Min(S) <= n
<1>1. \E m \in S : \A n \in S : m <= n
  BY LeastElement
<1> QED
  BY <1>1 DEF Stream0!Min

\* A height within the one configured, or the tallest that the ceiling affords, or
\* the lowest there is.
Chosen(h, d, fps, codec, ceiling, maxHeight) ==
  LET Fits(g) == Stream0!Affords(ceiling, fps, codec, Stream0!Scaled(d, g))
  IN /\ maxHeight # 0 => h <= maxHeight
     /\ maxHeight = 0 =>
          /\ h \in Heights(d)
          /\ \A g \in Heights(d) : Fits(g) => g <= h
          /\ Fits(h) \/ \A g \in Heights(d) : ~Fits(g) /\ h <= g

LEMMA HeightChosen ==
  ASSUME NEW display \in [w : Nat \ {0}, h : Nat \ {0}], NEW fps \in Nat, NEW codec,
         NEW ceiling \in Nat, NEW maxHeight \in Nat \ {1}
  PROVE  /\ Stream0!Displayed(display) \in Sizes2
         /\ Heights(Stream0!Displayed(display)) \subseteq Nat \ {0, 1}
         /\ \E h \in Nat \ {0, 1} :
              /\ Stream0!StreamSize(display, fps, codec, ceiling, maxHeight)
                   = Stream0!Scaled(Stream0!Displayed(display), h)
              /\ Chosen(h, Stream0!Displayed(display), fps, codec, ceiling, maxHeight)
<1> DEFINE d == Stream0!Displayed(display)
           Fits(g) == Stream0!Affords(ceiling, fps, codec, Stream0!Scaled(d, g))
           s == StandardHeights
           n == Len(s)
           cap == IF maxHeight = 0 THEN d.h ELSE Stream0!AtMost(maxHeight, d.h)
           fitting == {i \in DOMAIN s : s[i] < cap /\ (maxHeight # 0 \/ Fits(s[i]))}
           height == IF maxHeight # 0 \/ Fits(cap) THEN cap
                     ELSE IF fitting # {} THEN s[Stream0!Min(fitting)]
                     ELSE Stream0!AtMost(s[n], cap)
<1>1. d \in Sizes2 /\ d.h \in Nat \ {0, 1}
  BY DEF Sizes2, Stream0!Displayed, Stream0!AtLeast
<1>2. /\ n \in Nat \ {0} /\ DOMAIN s = 1 .. n
      /\ \A i \in 1 .. n : s[i] \in Nat \ {0, 1}
      /\ \A i, j \in 1 .. n : i < j => s[i] > s[j]
  BY PartsAssumption DEF Stream0!Assumption
<1>3. cap \in Nat \ {0, 1} /\ (maxHeight # 0 => cap <= maxHeight) /\ (maxHeight = 0 => cap = d.h)
  BY <1>1 DEF Stream0!AtMost
<1>4. Stream0!StreamSize(display, fps, codec, ceiling, maxHeight) = Stream0!Scaled(d, height)
  BY DEF Stream0!StreamSize
<1> HIDE DEF d, Fits, s, n, cap
<1>5. Heights(d) = {d.h} \cup {s[i] : i \in {i \in 1 .. n : s[i] < d.h}}
  BY <1>2 DEF Heights, Stream0!ToSet, s
<1>6. Heights(d) \subseteq Nat \ {0, 1}
  BY <1>1, <1>2, <1>5
<1>7. CASE maxHeight # 0
  <2>1. height = cap
    BY <1>7
  <2> QED
    BY <1>1, <1>3, <1>4, <1>6, <1>7, <2>1 DEF d, Fits, Chosen
<1>8. CASE maxHeight = 0 /\ Fits(cap)
  <2>1. height = d.h
    BY <1>3, <1>8
  <2>2. \A g \in Heights(d) : g <= d.h
    BY <1>1, <1>2, <1>5
  <2>3. d.h \in Heights(d) /\ Fits(d.h)
    BY <1>3, <1>5, <1>8
  <2> QED
    BY <1>1, <1>4, <1>6, <1>8, <2>1, <2>2, <2>3 DEF d, Fits, Chosen
<1>9. CASE maxHeight = 0 /\ ~Fits(cap) /\ fitting # {}
  <2> DEFINE i == Stream0!Min(fitting)
  <2>1. height = s[i] /\ cap = d.h
    BY <1>3, <1>9
  <2>2. i \in fitting /\ \A j \in fitting : i <= j
    <3>1. fitting \in SUBSET Nat
      BY <1>2
    <3> HIDE DEF fitting
    <3> QED
      BY <1>9, <3>1, LeastPlace
  <2> HIDE DEF i, height
  <2>3. i \in 1 .. n /\ s[i] < d.h /\ Fits(s[i]) /\ s[i] \in Nat \ {0, 1}
    BY <1>2, <1>9, <2>1, <2>2
  <2>4. \A j \in 1 .. n : s[j] < d.h /\ Fits(s[j]) => s[j] <= s[i]
    <3> SUFFICES ASSUME NEW j \in 1 .. n, s[j] < d.h, Fits(s[j]) PROVE s[j] <= s[i]
      OBVIOUS
    <3>1. i <= j
      BY <1>2, <2>1, <2>2
    <3> QED
      BY <1>2, <2>3, <3>1
  <2>5. \A g \in Heights(d) : Fits(g) => g <= s[i]
    <3> SUFFICES ASSUME NEW g \in Heights(d), Fits(g) PROVE g <= s[i]
      OBVIOUS
    <3>1. g # d.h
      BY <1>9, <2>1
    <3>2. PICK j \in 1 .. n : g = s[j] /\ s[j] < d.h
      BY <1>5, <3>1
    <3> QED
      BY <2>4, <3>2
  <2>6. s[i] \in Heights(d)
    BY <1>5, <2>3
  <2> QED
    BY <1>1, <1>4, <1>6, <1>9, <2>1, <2>3, <2>5, <2>6 DEF d, Fits, Chosen
<1>10. CASE maxHeight = 0 /\ ~Fits(cap) /\ fitting = {}
  <2> DEFINE h == Stream0!AtMost(s[n], d.h)
  <2>1. height = h /\ cap = d.h
    BY <1>3, <1>10
  <2> HIDE DEF height
  <2>2. /\ s[n] \in Nat \ {0, 1} /\ n \in 1 .. n
        /\ h \in Nat \ {0, 1} /\ h <= s[n] /\ h <= d.h /\ h \in {s[n], d.h}
        /\ h # d.h => h = s[n] /\ s[n] < d.h
    BY <1>1, <1>2 DEF Stream0!AtMost
  <2> HIDE DEF h
  <2>3. h \in Heights(d)
    BY <1>5, <2>2
  <2>4. \A j \in 1 .. n : h <= s[j]
    <3> TAKE j \in 1 .. n
    <3>1. s[n] <= s[j]
      BY <1>2
    <3> QED
      BY <1>2, <2>2, <3>1
  <2>5. \A g \in Heights(d) : ~Fits(g) /\ h <= g
    <3> TAKE g \in Heights(d)
    <3>1. CASE g = d.h
      BY <1>10, <2>1, <2>2, <3>1
    <3>2. CASE g # d.h
      <4>1. PICK j \in 1 .. n : g = s[j] /\ s[j] < d.h
        BY <1>5, <3>2
      <4>2. ~Fits(s[j])
        BY <1>2, <1>10, <2>1, <4>1
      <4> QED
        BY <2>4, <4>1, <4>2
    <3> QED
      BY <3>1, <3>2
  <2> QED
    BY <1>1, <1>4, <1>6, <1>10, <2>1, <2>2, <2>3, <2>5 DEF d, Fits, Chosen
<1> QED
  BY <1>7, <1>8, <1>9, <1>10

\* What the host answers to the hello.
Answer ==
  LET codec == Stream0!SelectedCodec(offer.codecs)
      fps == Stream0!FrameRate(settings.fps, offer.refresh)
  IN [codec |-> codec, fps |-> fps,
      size |-> Stream0!StreamSize(offer.display, fps, codec, settings.ceiling, settings.maxHeight)]

StreamInv ==
  /\ Stream0!TypeOK
  /\ config # Stream0!None => config = Answer
  /\ down # <<>> \/ viewer = "agreed" \/ host \in {"answered", "connected"} => config # Stream0!None

\* What is known of a hello and of the host's settings.
LEMMA HelloTyped ==
  ASSUME Stream0!TypeOK
  PROVE  /\ offer.codecs \in Seq(Stream0!Codecs) /\ offer.codecs # <<>>
         /\ offer.display \in [w : Nat \ {0}, h : Nat \ {0}]
         /\ offer.refresh \in Nat \ {0}
         /\ settings.fps \in Nat \ {0} /\ settings.ceiling \in Nat \ {0}
         /\ settings.maxHeight \in Nat \ {1}
<1>1. offer \in Stream0!Hello /\ settings \in Stream0!Settings
  BY DEF Stream0!TypeOK
<1>2. /\ offer.codecs \in Offers /\ offer.display \in Displays /\ offer.refresh \in Refresh
      /\ settings.fps \in HostRates /\ settings.ceiling \in Ceilings /\ settings.maxHeight \in MaxHeights
  BY <1>1 DEF Stream0!Hello, Stream0!Settings
<1> QED
  BY <1>2, PartsAssumption DEF Stream0!Assumption

\* The host has every codec there is, so it takes the first.
LEMMA FirstCodec ==
  ASSUME NEW c \in Seq(Stream0!Codecs), c # <<>>
  PROVE  Stream0!SelectedCodec(c) = Head(c) /\ Head(c) \in Stream0!Codecs
<1> DEFINE S == {i \in DOMAIN c : c[i] \in Stream0!Codecs}
<1>1. /\ S \in SUBSET Nat /\ 1 \in S /\ \A i \in S : i >= 1
      /\ Head(c) = c[1] /\ c[1] \in Stream0!Codecs
  OBVIOUS
<1>2. Stream0!SelectedCodec(c) = c[Stream0!Min(S)]
  BY DEF Stream0!SelectedCodec
<1> HIDE DEF S
<1>3. Stream0!Min(S) \in S /\ Stream0!Min(S) <= 1
  BY <1>1, LeastPlace
<1>4. Stream0!Min(S) = 1
  <2> DEFINE m == Stream0!Min(S)
  <2>1. m \in Nat /\ m >= 1 /\ m <= 1
    BY <1>1, <1>3
  <2> HIDE DEF m
  <2>2. m = 1
    BY <2>1
  <2> QED
    BY <2>2 DEF m
<1> QED
  BY <1>1, <1>2, <1>4

LEMMA AnswerTyped ==
  ASSUME Stream0!TypeOK
  PROVE  /\ Answer \in [codec : Stream0!Codecs, size : Sizes2, fps : Nat \ {0}]
         /\ Answer.codec = Head(offer.codecs)
         /\ Answer.fps <= settings.fps /\ (offer.refresh >= 20 => Answer.fps <= offer.refresh)
<1> DEFINE fps == Stream0!FrameRate(settings.fps, offer.refresh)
           codec == Stream0!SelectedCodec(offer.codecs)
           picture == Stream0!StreamSize(offer.display, fps, codec, settings.ceiling, settings.maxHeight)
<1>1. codec = Head(offer.codecs) /\ codec \in Stream0!Codecs
  BY HelloTyped, FirstCodec
<1>2. fps \in Nat \ {0} /\ fps <= settings.fps /\ (offer.refresh >= 20 => fps <= offer.refresh)
  BY HelloTyped DEF Stream0!FrameRate, Stream0!AtMost
<1> HIDE DEF fps, codec
<1>3. picture \in Sizes2
  <2>1. PICK h \in Nat \ {0, 1} : picture = Stream0!Scaled(Stream0!Displayed(offer.display), h)
    <3>1. /\ offer.display \in [w : Nat \ {0}, h : Nat \ {0}] /\ fps \in Nat
          /\ settings.ceiling \in Nat /\ settings.maxHeight \in Nat \ {1}
      BY <1>2, HelloTyped
    <3>2. \E h \in Nat \ {0, 1} : picture = Stream0!Scaled(Stream0!Displayed(offer.display), h)
      BY ONLY <3>1, HeightChosen DEF picture
    <3> QED
      BY <3>2
  <2>2. Stream0!Displayed(offer.display) \in Sizes2
    BY HelloTyped DEF Sizes2, Stream0!Displayed, Stream0!AtLeast
  <2> QED
    BY <2>1, <2>2, ScaledFits
<1>4. Answer = [codec |-> codec, fps |-> fps, size |-> picture]
  BY DEF Answer, fps, codec
<1> HIDE DEF picture
<1> QED
  BY <1>1, <1>2, <1>3, <1>4

LEMMA StreamInit == Stream0!Init => StreamInv
<1> SUFFICES ASSUME Stream0!Init PROVE StreamInv
  OBVIOUS
<1>1. /\ offer \in Stream0!Hello /\ settings \in Stream0!Settings /\ config = Stream0!None
      /\ viewer = "opening" /\ host = "accepting" /\ up = <<>> /\ down = <<>>
  BY DEF Stream0!Init
<1> QED
  BY <1>1 DEF StreamInv, Stream0!TypeOK

LEMMA StreamStep == StreamInv /\ [Stream0!Next]_stream0 => StreamInv'
<1> SUFFICES ASSUME StreamInv, [Stream0!Next]_stream0 PROVE StreamInv'
  OBVIOUS
<1>1. Stream0!TypeOK
  BY DEF StreamInv
<1>2. \A s \in Stream0!SendControl : s \in {<<>>, <<Stream0!Whole>>, <<Stream0!Cut>>}
  BY DEF Stream0!SendControl
<1>3. ASSUME Stream0!AnswerHello PROVE StreamInv'
  <2>1. /\ config' = Answer /\ host' = "answered" /\ up' = <<>> /\ down' \in Stream0!SendControl
        /\ offer' = offer /\ settings' = settings /\ viewer' = viewer
    BY <1>3 DEF Stream0!AnswerHello, Answer
  <2>2. Answer' = Answer
    BY <2>1 DEF Answer
  <2>3. /\ Answer \in [codec : Stream0!Codecs, size : Sizes2, fps : Nat \ {0}]
    BY <1>1, AnswerTyped
  <2>4. Answer \in [codec : Stream0!Codecs, size : [w : Nat, h : Nat], fps : Nat]
    BY <2>3 DEF Sizes2
  <2>5. Answer # Stream0!None
    BY <2>3 DEF Stream0!None, Sizes2
  <2> QED
    BY <1>2, <2>1, <2>2, <2>4, <2>5 DEF StreamInv, Stream0!TypeOK
<1>4. ASSUME ~Stream0!AnswerHello PROVE StreamInv'
  <2>1. config' = config /\ offer' = offer /\ settings' = settings
    BY <1>4 DEF Stream0!Next, Stream0!SendHello, Stream0!CompletePairing, Stream0!HelloFails,
      Stream0!TakeConfig, Stream0!ConfigFails, stream0
  <2>2. Answer' = Answer
    BY <2>1 DEF Answer
  <2>3. /\ viewer' \in {"opening", "awaiting", "agreed", "failed"}
        /\ host' \in {"accepting", "answered", "connected", "failed"}
        /\ {up', down'} \subseteq {<<>>, <<Stream0!Whole>>, <<Stream0!Cut>>}
    BY <1>1, <1>2, <1>4 DEF Stream0!Next, Stream0!SendHello, Stream0!CompletePairing, Stream0!HelloFails,
      Stream0!TakeConfig, Stream0!ConfigFails, stream0, Stream0!TypeOK
  <2>4. Stream0!TypeOK'
    BY <2>1, <2>3 DEF StreamInv, Stream0!TypeOK
  <2>5. down' # <<>> => down # <<>>
    BY <1>4 DEF Stream0!Next, Stream0!SendHello, Stream0!CompletePairing, Stream0!HelloFails,
      Stream0!TakeConfig, Stream0!ConfigFails, stream0
  <2>6. viewer' = "agreed" => viewer = "agreed" \/ down # <<>>
    BY <1>4 DEF Stream0!Next, Stream0!SendHello, Stream0!CompletePairing, Stream0!HelloFails,
      Stream0!TakeConfig, Stream0!ConfigFails, stream0, Stream0!Received
  <2>7. host' \in {"answered", "connected"} => host \in {"answered", "connected"}
    BY <1>4 DEF Stream0!Next, Stream0!SendHello, Stream0!CompletePairing, Stream0!HelloFails,
      Stream0!TakeConfig, Stream0!ConfigFails, stream0
  <2>8. /\ config # Stream0!None => config = Answer
        /\ down # <<>> \/ viewer = "agreed" \/ host \in {"answered", "connected"} => config # Stream0!None
    BY DEF StreamInv
  <2>9. config' # Stream0!None => config' = Answer'
    BY ONLY <2>1, <2>2, <2>8
  <2>10. down' # <<>> \/ viewer' = "agreed" \/ host' \in {"answered", "connected"} => config' # Stream0!None
    BY ONLY <2>1, <2>5, <2>6, <2>7, <2>8
  <2> QED
    BY ONLY <2>4, <2>9, <2>10 DEF StreamInv
<1> QED
  BY <1>3, <1>4

\* What the host answers suits the viewer, the display and the ceiling.
LEMMA StreamSuits == StreamInv => Stream0!StreamAgreed
<1> SUFFICES ASSUME StreamInv, config # Stream0!None
             PROVE  /\ Stream0!ValidConfig(config)
                    /\ config.codec = Head(offer.codecs)
                    /\ config.fps <= settings.fps
                    /\ offer.refresh >= 20 => config.fps <= offer.refresh
                    /\ Stream0!Shown(config.size) /\ Stream0!WellSized(config.size)
  <2>1. ASSUME StreamInv PROVE viewer = "agreed" \/ host = "connected" => config # Stream0!None
    BY <2>1 DEF StreamInv
  <2>2. ASSUME StreamInv PROVE Stream0!StreamAgreed
    <3>1. CASE config = Stream0!None
      BY <2>1, <2>2, <3>1 DEF Stream0!StreamAgreed
    <3>2. CASE config # Stream0!None
      BY <2>2, <3>2 DEF Stream0!StreamAgreed
    <3> QED
      BY <3>1, <3>2
  <2> QED
    BY <2>2
<1> DEFINE d == Stream0!Displayed(offer.display)
           fps == config.fps
           codec == config.codec
           top == settings.maxHeight
           ceiling == settings.ceiling
<1>1. Stream0!TypeOK /\ config = Answer
  BY DEF StreamInv
<1>2. /\ config \in [codec : Stream0!Codecs, size : Sizes2, fps : Nat \ {0}]
      /\ config.codec = Head(offer.codecs)
      /\ config.fps <= settings.fps /\ (offer.refresh >= 20 => config.fps <= offer.refresh)
  BY <1>1, AnswerTyped
<1>3. Stream0!ValidConfig(config)
  BY <1>2 DEF Stream0!ValidConfig, Sizes2
<1>4. config.size = Stream0!StreamSize(offer.display, fps, codec, ceiling, top)
  BY <1>1 DEF Answer
<1>5. fps \in Nat /\ ceiling \in Nat /\ top \in Nat \ {1}
      /\ offer.display \in [w : Nat \ {0}, h : Nat \ {0}]
  BY <1>1, <1>2, HelloTyped
<1> HIDE DEF fps, codec, top, ceiling
<1>6. d \in Sizes2 /\ Heights(d) \subseteq Nat \ {0, 1}
  BY <1>5, HeightChosen
<1>7. PICK h \in Nat \ {0, 1} : config.size = Stream0!Scaled(d, h) /\ Chosen(h, d, fps, codec, ceiling, top)
  <2>1. \E h \in Nat \ {0, 1} : /\ Stream0!StreamSize(offer.display, fps, codec, ceiling, top) = Stream0!Scaled(d, h)
                              /\ Chosen(h, d, fps, codec, ceiling, top)
    BY <1>5, HeightChosen
  <2> QED
    BY <1>4, <2>1
<1> HIDE DEF d
<1>8. /\ config.size \in Sizes2 /\ config.size.w <= d.w /\ config.size.h <= d.h /\ config.size.h <= h
      /\ config.size.w % 2 = 0 /\ config.size.h % 2 = 0
      /\ config.size.w * d.h - config.size.h * d.w \in -(2 * (d.w + d.h)) .. 2 * (d.w + d.h)
  BY <1>6, <1>7, ScaledFits
<1>9. Stream0!Shown(config.size)
  BY <1>8 DEF Stream0!Shown, d
<1>10. Stream0!WellSized(config.size)
  <2> DEFINE Fits(g) == Stream0!Affords(ceiling, fps, codec, Stream0!Scaled(d, g))
  <2>1. CASE top # 0
    <3>1. config.size.h \in Nat /\ config.size.h <= h /\ h <= top
      BY <1>7, <1>8, <2>1 DEF Sizes2, Chosen
    <3>2. config.size.h <= top
      BY <1>5, <3>1
    <3> QED
      BY <2>1, <3>2 DEF Stream0!WellSized, top
  <2>2. CASE top = 0
    <3>1. Stream0!Candidates = {Stream0!Scaled(d, g) : g \in Heights(d)}
      BY DEF Stream0!Candidates, Heights, d
    <3>2. /\ h \in Heights(d) /\ \A g \in Heights(d) : Fits(g) => g <= h
          /\ Fits(h) \/ \A g \in Heights(d) : ~Fits(g) /\ h <= g
      BY <1>7, <2>2 DEF Chosen
    <3> HIDE DEF Fits
    <3>3. \A g \in Heights(d) : g <= h => Stream0!Pixels(Stream0!Scaled(d, g)) <= Stream0!Pixels(config.size)
      BY <1>6, <1>7, LowerIsCheaper
    <3>4. \A g \in Heights(d) : h <= g => Stream0!Pixels(config.size) <= Stream0!Pixels(Stream0!Scaled(d, g))
      BY <1>6, <1>7, LowerIsCheaper
    <3>5. /\ \A g \in Heights(d) : Fits(g) => Stream0!Pixels(Stream0!Scaled(d, g)) <= Stream0!Pixels(config.size)
          /\ Fits(h) \/ \A g \in Heights(d) :
                           ~Fits(g) /\ Stream0!Pixels(config.size) <= Stream0!Pixels(Stream0!Scaled(d, g))
      BY <3>2, <3>3, <3>4
    <3> QED
      BY <1>7, <2>2, <3>1, <3>2, <3>5 DEF Stream0!WellSized, fps, codec, top, ceiling, Fits
  <2> QED
    BY <2>1, <2>2
<1> QED
  BY <1>2, <1>3, <1>9, <1>10

-----------------------------------------------------------------------------
(* The whole: a behaviour of it is one of each part, which moves or not.   *)

LEMMA PartsStart ==
  ASSUME Init
  PROVE  /\ machine \in Machines
         /\ Still!Init /\ Governor!Init /\ Rates!Init /\ Pairs!Init /\ Link!Init
         /\ Control!Init /\ Stream0!Init /\ Size!Init /\ Surfaces!Init /\ Start!Init
  BY DEF Init

LEMMA PartsStep ==
  ASSUME [Next]_vars
  PROVE  /\ machine' = machine
         /\ [Still!Next]_still /\ [Governor!Next]_governor /\ [Rates!Next]_rates
         /\ [Pairs!Next]_pairing /\ [Link!Next]_link /\ [Control!Next]_control
         /\ [Stream0!Next]_stream0 /\ [Size!Next]_size /\ [Surfaces!Next]_surfaces
         /\ [Start!Next]_start
  BY DEF Next, vars

PartsInv ==
  /\ machine \in Machines
  /\ StillInv /\ GovernorInv /\ RatesInv /\ PairsInv /\ LinkInv
  /\ ControlInv /\ StreamInv /\ SizeInv /\ SurfacesInv /\ StartInv

LEMMA PartsKept == Spec => []PartsInv
<1>1. ASSUME Init PROVE PartsInv
  BY <1>1, PartsStart, StillInit, GovernorInit, RatesInit, PairsInit, LinkInit, ControlInit,
     StreamInit, SizeInit, SurfacesInit, StartInit DEF PartsInv
<1>2. ASSUME PartsInv, [Next]_vars PROVE PartsInv'
  <2>1. machine' \in Machines
    BY <1>2, PartsStep DEF PartsInv
  <2>2. StillInv' /\ GovernorInv' /\ RatesInv' /\ PairsInv' /\ LinkInv'
    BY <1>2, PartsStep, StillStep, GovernorStep, RatesStep, PairsStep, LinkStep DEF PartsInv
  <2>3. ControlInv' /\ StreamInv' /\ SizeInv' /\ SurfacesInv' /\ StartInv'
    BY <1>2, PartsStep, ControlStep, StreamStep, SizeStep, SurfacesStep, StartStep DEF PartsInv
  <2> QED
    BY <2>1, <2>2, <2>3 DEF PartsInv
<1> QED
  BY <1>1, <1>2, PTL DEF Spec

\* Every part's variables have their types: the ranges of the rate, the rung, the
\* ages and the counters, the frames and the surfaces, for whatever constants.
THEOREM HostTypesHold == Spec => []TypeOK
<1>1. PartsInv => TypeOK
  BY DEF PartsInv, TypeOK, StillInv, GovernorInv, RatesInv, PairsInv, LinkInv, ControlInv, StreamInv,
     SizeInv, SurfacesInv, StartInv
<1> QED
  BY <1>1, PartsKept, PTL

\* What was decided is what is in force: the encoder's rate, the interval of
\* capture, the encoder's size and what file and flags say of the host.
THEOREM SettingsHold == Spec => []SettingsInForce
<1>1. RatesInv => Rates!RateInForce
  BY DEF RatesInv, RateFollows, Rates!RateInForce
<1>2. ControlInv => Control!IntervalInForce
  <2> SUFFICES ASSUME ControlInv, phase = "streaming", jobs = {}, applying = {}, ~refused
               PROVE  os[controlSession].interval = controlApplied
    BY DEF Control!IntervalInForce
  <2> QED
    BY DEF ControlInv, IntervalFollows
<1>3. SizeInv => Size!LinkSizeInForce
  BY DEF SizeInv, SizeFollows, Size!TypeOK, Size!LinkSizeInForce, Size!Settled, Size!Thread
<1>4. StartInv => Start!RunsAsConfigured
  BY DEF StartInv, StartFollows
<1>5. PartsInv => SettingsInForce
  BY <1>1, <1>2, <1>3, <1>4 DEF PartsInv, SettingsInForce
<1> QED
  BY <1>5, PartsKept, PTL

\* What stream 0 agrees on suits both ends, and no size that the ceiling affords
\* is larger than the one chosen.
THEOREM StreamSuitsBoth == Spec => []StreamAgreed
<1>1. PartsInv => StreamAgreed
  BY StreamSuits DEF PartsInv, StreamAgreed
<1> QED
  BY <1>1, PartsKept, PTL

\* The loss that the rate follows adds up to what the session's own counters
\* moved by between the first and the last sample of the window.
THEOREM LossIsOwn == Spec => []LossIsTheSessions
<1>1. PartsInv => LossIsTheSessions
  BY LossAddsUp DEF PartsInv, LossIsTheSessions
<1> QED
  BY <1>1, PartsKept, PTL

\* The viewer ends on the current screen, as long as a screen at rest is encoded
\* once more than the hardware holds frames; and what is encoded shows what it was
\* submitted as, from surfaces that all go back to the pool.
THEOREM ScreenEndsCurrent ==
  ASSUME Passes > MaxCoding
  PROVE  Spec => []EndsOnCurrentScreen
<1>1. PartsInv => EndsOnCurrentScreen
  BY StillEnds, SurfacesEnd DEF PartsInv, EndsOnCurrentScreen
<1> QED
  BY <1>1, PartsKept, PTL

\* Frames of an encoder session come out before those of the session that
\* replaced it.
THEOREM SessionsInOrder == Spec => OldSessionFirst
<1>1. PartsInv /\ [Next]_vars => [out'.session >= out.session]_(Still!vars)
  BY PartsStep, StillOrdered DEF PartsInv
<1> QED
  BY <1>1, PartsKept, PTL DEF Spec, OldSessionFirst, Still!OldSessionFirst

\* Coming back to the display's own size waits for what the last failed return
\* has earned.
THEOREM RetriesAreSpread == Spec => RetriesSpread
<1>1. PartsInv /\ [Next]_vars =>
        [policy = "sharp" /\ current > 1 /\ current' = 1 => sinceLeft >= owedWait]_(Governor!vars)
  BY PartsStep, GovernorStep DEF PartsInv
<1> QED
  BY <1>1, PartsKept, PTL DEF Spec, RetriesSpread, Governor!RetriesSpread

\* A PIN is accepted at most once, and no attempt counts before the lockout that the
\* failures in a row have earned is over.
THEOREM PinsAreGuarded == Spec => PinGuarded
<1>1. PartsInv /\ [Next]_vars =>
        [/\ \A p \in Pairs!PIN : used'[p] <= 1
         /\ failed >= Threshold /\ failed' # failed /\ pins' = pins /\ ~Pairs!Reset
              => waited >= Pairs!Lockout(failed)]_(Pairs!vars)
  BY PartsStep, PairsGuarded DEF PartsInv
<1> QED
  BY <1>1, PartsKept, PTL DEF Spec, PinGuarded, Pairs!PinGuarded
=============================================================================
