---------------------------- MODULE SizeGovernor ----------------------------
(***************************************************************************)
(* The ResolutionGovernor of crates/renderd-host/src/scale.rs, fed by each *)
(* bitrate decision (app.rs, follow_link_with_size): which rung of the     *)
(* ladder of sizes to encode at.  Rung 1 is the display's own size.        *)
(*                                                                         *)
(* Reports come one time unit apart.  An Option<Instant> is kept as its    *)
(* age at the next report, Never when it is None and no longer counted     *)
(* past the longest duration it is compared with.                          *)
(***************************************************************************)
EXTENDS Integers, Sequences, FiniteSetsExt

CONSTANTS
  Cost,          \* the bitrate each rung wants, by rung (bits_per_pixel_floor)
  Bitrates,      \* the bitrates decided
  DownAfter, UpAfter, MinChangeGap, CalmGap, RetryHold, MaxUpAfter

\* What the constants must be; the module that chooses them assumes it.
Assumption ==
  /\ Len(Cost) > 1 /\ Cost \in Seq(Nat)
  /\ \A i \in 1 .. Len(Cost) - 1 : Cost[i] > Cost[i + 1]
  /\ Bitrates \subseteq Nat
  /\ {DownAfter, UpAfter, MinChangeGap, CalmGap, RetryHold, MaxUpAfter} \subseteq Nat
  /\ 0 < CalmGap /\ CalmGap <= DownAfter /\ DownAfter < MinChangeGap
  /\ MinChangeGap <= UpAfter /\ UpAfter <= RetryHold /\ UpAfter <= MaxUpAfter

Never == -1   \* no age
Rung == 1 .. Len(Cost)

VARIABLES
  policy,      \* SizePolicy
  current,     \* the rung in use
  pressure,    \* Pressure: its direction and age
  changed,     \* age of last_change
  runStart, lastCongested, lastUnstable, lastReturn, retryAfter,  \* Stability
  calm,        \* environment: the link is good from here on
  sinceLeft,   \* history: time since the display's size was left
  owedWait     \* history: how long it is to be left alone, given how often
               \* coming back to it has just failed

stability == <<runStart, lastCongested, lastUnstable, lastReturn, retryAfter>>
vars == <<policy, current, pressure, changed, stability, calm, sinceLeft, owedWait>>

Ages(cap) == 0 .. cap \cup {Never}

NoPressure == [way |-> "none", age |-> 0]

TypeOK ==
  /\ policy \in {"sharp", "smooth"}
  /\ current \in Rung
  /\ pressure \in [way : {"none", "down", "up"}, age : 0 .. UpAfter]
  /\ changed \in Ages(MinChangeGap)
  /\ runStart \in Ages(DownAfter) /\ lastCongested \in Ages(CalmGap)
  /\ lastUnstable \in Ages(MaxUpAfter) /\ lastReturn \in Ages(RetryHold)
  /\ retryAfter \in UpAfter .. MaxUpAfter
  /\ calm \in BOOLEAN
  /\ sinceLeft \in 0 .. MaxUpAfter /\ owedWait \in UpAfter .. MaxUpAfter

\* An age at the report after, which comes a unit later.
Older(age, cap) == IF age = Never THEN Never ELSE Min({age + 1, cap})

Within(age, span) == age # Never /\ age < span

\* fits, with the margin in quarters; STAY_MARGIN is three of them.
Fits(rung, bitrate, quarters) == 4 * bitrate >= quarters * Cost[rung]

LargestFitting(bitrate, quarters) ==
  Min({r \in Rung : Fits(r, bitrate, quarters)} \cup {Len(Cost)})

RungBelow(bitrate) ==
  Min({Max({LargestFitting(bitrate, 4), current + 1}), Len(Cost)})

\* new and start
Init ==
  /\ policy \in {"sharp", "smooth"}
  /\ \E bitrate \in Bitrates :
       current = IF policy = "sharp" THEN 1 ELSE LargestFitting(bitrate, 3)
  /\ pressure = NoPressure /\ changed = Never
  /\ runStart = Never /\ lastCongested = Never /\ lastUnstable = Never
  /\ lastReturn = Never /\ retryAfter = UpAfter
  /\ calm = FALSE /\ sinceLeft = 0 /\ owedWait = UpAfter

MayChange == ~Within(changed, MinChangeGap)

-----------------------------------------------------------------------------
(* SizePolicy::Sharp.                                                      *)

MutOnLeave ==
  IF Within(lastReturn, RetryHold) THEN Min({2 * UpAfter, MaxUpAfter}) ELSE UpAfter

\* Stability::on_leave: a return that did not hold doubles the wait.
OnLeave ==
  IF Within(lastReturn, RetryHold) THEN Min({2 * retryAfter, MaxUpAfter}) ELSE UpAfter

\* on_report, then what to do about it: congestion without a calm gap is one
\* run, unstable once it has lasted, and the display's size is tried again when
\* the link has been stable for the wait in force.
SharpNext(bitrate, congested) ==
  LET start == IF congested /\ ~Within(lastCongested, CalmGap) THEN 0 ELSE runStart
      lastBad == IF congested THEN 0 ELSE lastCongested
      unstable == congested /\ start >= DownAfter
      lastDown == IF unstable THEN 0 ELSE lastUnstable
      settled == ~Within(lastBad, CalmGap) /\ ~Within(lastDown, retryAfter)
      next == IF MayChange /\ unstable THEN RungBelow(bitrate)
              ELSE IF MayChange /\ current > 1 /\ settled THEN 1
              ELSE current
  IN /\ current' = next
     /\ runStart' = Older(start, DownAfter)
     /\ lastCongested' = Older(lastBad, CalmGap)
     /\ lastUnstable' = Older(lastDown, MaxUpAfter)
     /\ lastReturn' = Older(IF next = 1 /\ current # 1 THEN 0 ELSE lastReturn, RetryHold)
     /\ retryAfter' = IF current = 1 /\ next # 1 THEN OnLeave ELSE retryAfter
     /\ UNCHANGED pressure

-----------------------------------------------------------------------------
(* SizePolicy::Smooth.                                                     *)

MutPressure(bitrate, congested) ==
  LET since(way) == [way |-> way, age |-> 0]
  IN IF ~Fits(current, bitrate, 3) THEN since("down")
     ELSE IF current > 1 /\ ~congested /\ Fits(current - 1, bitrate, 4) THEN since("up")
     ELSE NoPressure

\* bitrate_pressure, dated by the first report of an unbroken run of them.
Pressure(bitrate, congested) ==
  LET since(way) == IF pressure.way = way THEN pressure ELSE [way |-> way, age |-> 0]
  IN IF ~Fits(current, bitrate, 3) THEN since("down")
     ELSE IF current > 1 /\ ~congested /\ Fits(current - 1, bitrate, 4) THEN since("up")
     ELSE NoPressure

SmoothNext(bitrate, congested) ==
  LET pushed == Pressure(bitrate, congested)
      down == MayChange /\ pushed.way = "down" /\ pushed.age >= DownAfter
      up == MayChange /\ pushed.way = "up" /\ pushed.age >= UpAfter
  IN /\ pressure' = IF down \/ up \/ pushed = NoPressure THEN NoPressure
                    ELSE [pushed EXCEPT !.age = Min({@ + 1, UpAfter})]
     /\ current' = IF down THEN RungBelow(bitrate) ELSE IF up THEN current - 1 ELSE current
     /\ UNCHANGED stability

-----------------------------------------------------------------------------
\* update, on one report; a size change is dated.
Update(bitrate, congested) ==
  /\ calm => ~congested /\ bitrate = Max(Bitrates)
  /\ IF policy = "sharp" THEN SharpNext(bitrate, congested) ELSE SmoothNext(bitrate, congested)
  /\ changed' = Older(IF current' # current THEN 0 ELSE changed, MinChangeGap)
  /\ sinceLeft' = IF current = 1 THEN 1 ELSE Min({sinceLeft + 1, MaxUpAfter})
  /\ owedWait' = IF current # 1 \/ current' = 1 THEN owedWait
                 ELSE IF Within(lastReturn, RetryHold) THEN Min({2 * owedWait, MaxUpAfter})
                 ELSE UpAfter
  /\ UNCHANGED <<policy, calm>>

Calm ==
  /\ ~calm
  /\ calm' = TRUE
  /\ UNCHANGED <<policy, current, pressure, changed, stability, sinceLeft, owedWait>>

Step == \E bitrate \in Bitrates, congested \in BOOLEAN : Update(bitrate, congested)

Next == Step \/ Calm

Spec == Init /\ [][Next]_vars

-----------------------------------------------------------------------------
(* Properties.                                                             *)

\* A link that cannot carry the display's size is not tried over and over:
\* however reports alternate, coming back to it waits twice as long after each
\* return that did not hold.
RetriesSpread ==
  [][policy = "sharp" /\ current > 1 /\ current' = 1 => sinceLeft >= owedWait]_vars

\* ... and yet a link that turns good is used: the display's size comes back,
\* whatever waits were in force.
NativeComesBack == calm ~> [](current = 1)
=============================================================================
