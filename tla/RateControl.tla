----------------------------- MODULE RateControl -----------------------------
(***************************************************************************)
(* How fast the host sends: the congestion state machine of the crate      *)
(* renderd-abr (engine.rs, state.rs), the AbrManager that feeds it each    *)
(* ReactiveStats report and applies its decisions (renderd-host abr.rs),   *)
(* and EncodePipeline::set_bitrate meeting a rebuild of the encoder        *)
(* (encode.rs).                                                            *)
(*                                                                         *)
(* Bitrates are in units of 100 kbps.  Loss and delay are classes, in the  *)
(* order of the thresholds they are compared with.                         *)
(***************************************************************************)
EXTENDS Integers

CONSTANTS
  MinRate, MaxRate,   \* bounds of AbrConfig, in units
  StepUp,             \* AbrConfig::step_kbps, in units
  ProbeAfter,         \* probe_trigger_intervals
  HoldTicks           \* BACKOFF_HOLD_TICKS

\* What the constants must be; the module that chooses them assumes it.
Assumption ==
  /\ {MinRate, MaxRate, StepUp, ProbeAfter, HoldTicks} \subseteq Nat \ {0}
  /\ MinRate <= MaxRate

VARIABLES
  rate,       \* AbrEngine::current_bitrate
  mode,       \* AbrEngine::state
  clean,      \* consecutive_clean_intervals
  hold,       \* backoff_hold
  owed,       \* KeyframeGate::pending
  debounced,  \* whether 250 ms since last_keyframe_request have yet to pass
  applied,    \* EncodePipeline::current_bitrate_kbps
  setting,    \* set_bitrate has swapped it and has the session yet to tell
  hardware,   \* the rate of the compression session in use
  building,   \* the rate given to one being created, 0 for none
  calm,       \* environment: the link is good from here on
  overlapped  \* history: a rate was set during a rebuild, or not at all

engine == <<rate, mode, clean, hold>>
encoder == <<applied, setting, hardware, building, overlapped>>
vars == <<engine, owed, debounced, encoder, calm>>

\* Loss: none, up to loss_threshold, below five times it, up to the panic
\* threshold, and above.  Delay: below DELAY_CLEAN_MS, up to DELAY_BACKOFF_MS,
\* below DELAY_PANIC_MS, and above.
LossClass == 0 .. 3
DelayClass == 0 .. 3
Mode == {"Steady", "ProbeUp", "Backoff", "Panic"}
Rate == MinRate .. MaxRate

TypeOK ==
  /\ rate \in Rate /\ mode \in Mode
  /\ clean \in 0 .. ProbeAfter /\ hold \in 0 .. HoldTicks
  /\ {owed, debounced, setting, calm, overlapped} \subseteq BOOLEAN
  /\ {applied, hardware} \subseteq Rate
  /\ building \in Rate \cup {0}

Init ==
  /\ rate = MaxRate /\ mode = "Steady" /\ clean = 0 /\ hold = 0
  /\ owed = FALSE /\ debounced = FALSE
  /\ applied = rate /\ setting = FALSE /\ hardware = rate /\ building = 0
  /\ calm = FALSE /\ overlapped = FALSE

Least(a, b) == IF a < b THEN a ELSE b
Most(a, b) == IF a > b THEN a ELSE b

-----------------------------------------------------------------------------
(* The engine.                                                             *)

\* set_bitrate of the engine.
Clamped(kbps) == Least(Most(kbps, MinRate), MaxRate)

\* classify
Classified(loss, delay) ==
  IF loss = 3 \/ delay = 3 THEN "Panic"
  ELSE IF loss = 2 \/ delay = 2 THEN "Backoff"
  ELSE IF loss = 0 /\ delay = 0 /\ clean >= ProbeAfter THEN "ProbeUp"
  ELSE "Steady"

MutProbed == Clamped(rate + Least((rate * 8) \div 100, StepUp))

\* probe_up: 8 % more, at least 100 kbps and at most a step.
Probed == Clamped(rate + Least(Most((rate * 8) \div 100, 1), StepUp))

\* What a cut leaves, given what the viewer says it receives (0: unknown).
BackedOff(rx) ==
  Clamped(Least((rate * 85 + 50) \div 100, IF rx = 0 THEN rate ELSE (rx * 95) \div 100))

Panicked(rx) ==
  Clamped(Least((rate + 1) \div 2, IF rx = 0 THEN rate ELSE (rx * 7) \div 10))

\* update_signals: a cut is held for a few reports, Panic cuts once as it is
\* entered.
UpdateSignals(loss, delay, rx, limited) ==
  LET next == Classified(loss, delay)
      held == IF hold = 0 THEN 0 ELSE hold - 1
      cut == (next = "Backoff" /\ held = 0) \/ (next = "Panic" /\ mode # "Panic")
  IN /\ mode' = next
     /\ rate' = CASE next = "Backoff" /\ cut -> BackedOff(rx)
                  [] next = "Panic" /\ cut -> Panicked(rx)
                  [] next = "ProbeUp" /\ ~limited -> Probed
                  [] OTHER -> rate
     /\ hold' = IF cut THEN HoldTicks ELSE held
     /\ clean' = IF next = "Steady" /\ loss = 0 /\ delay = 0 THEN clean + 1 ELSE 0

-----------------------------------------------------------------------------
(* Keyframe requests, of the viewer and of the engine.                     *)

\* on_keyframe_request: at most one in 250 ms.
KeyframeAsked == owed' = (owed \/ ~debounced) /\ debounced' = TRUE

KeyframeRequest ==
  /\ ~debounced
  /\ KeyframeAsked
  /\ UNCHANGED <<engine, encoder, calm>>

KeyframeTaken ==
  /\ owed
  /\ owed' = FALSE
  /\ UNCHANGED <<engine, debounced, encoder, calm>>

Debounced ==
  /\ debounced
  /\ debounced' = FALSE
  /\ UNCHANGED <<engine, owed, encoder, calm>>

-----------------------------------------------------------------------------
(* The encoder's rate.                                                     *)

\* on_reactive_stats up to the swap in set_bitrate.
OnReactiveStats(loss, delay, rx, limited) ==
  /\ ~setting
  /\ calm => loss = 0 /\ delay = 0 /\ ~limited
  /\ UpdateSignals(loss, delay, rx, limited)
  /\ applied' = rate'
  /\ setting' = (rate' # applied)
  /\ overlapped' = (overlapped \/ (building # 0 /\ rate' # applied))
  /\ IF mode' = "Panic" /\ mode # "Panic" /\ loss = 3 THEN KeyframeAsked
     ELSE UNCHANGED <<owed, debounced>>
  /\ UNCHANGED <<hardware, building, calm>>

MutSetBitrate ==
  /\ setting
  /\ setting' = FALSE
  /\ UNCHANGED <<engine, owed, debounced, applied, hardware, building, overlapped, calm>>

\* ... and under the session's lock, which may fail.
SetBitrate ==
  /\ setting
  /\ setting' = FALSE
  /\ \/ hardware' = applied /\ overlapped' = overlapped
     \/ hardware' = hardware /\ overlapped' = TRUE
  /\ UNCHANGED <<engine, owed, debounced, applied, building, calm>>

\* resize creates a session at the rate it reads ...
Rebuild ==
  /\ building = 0
  /\ building' = applied
  /\ overlapped' = (overlapped \/ setting)
  /\ UNCHANGED <<engine, owed, debounced, applied, setting, hardware, calm>>

\* ... and swaps it in under the lock.
Rebuilt ==
  /\ building # 0
  /\ hardware' = building
  /\ building' = 0
  /\ UNCHANGED <<engine, owed, debounced, applied, setting, overlapped, calm>>

Calm ==
  /\ ~calm
  /\ calm' = TRUE
  /\ UNCHANGED <<engine, owed, debounced, encoder>>

-----------------------------------------------------------------------------
Report ==
  \E loss \in LossClass, delay \in DelayClass, rx \in {0, MaxRate - 2}, limited \in BOOLEAN :
    OnReactiveStats(loss, delay, rx, limited)

Next ==
  \/ Report \/ SetBitrate \/ Rebuild \/ Rebuilt
  \/ KeyframeRequest \/ KeyframeTaken \/ Debounced
  \/ Calm

Spec == Init /\ [][Next]_vars

-----------------------------------------------------------------------------
(* Properties.                                                             *)

\* The encoder runs at the engine's rate once both threads are done with it,
\* unless a rate was set while the encoder was being rebuilt.
RateInForce == ~setting /\ building = 0 /\ ~overlapped => hardware = rate

\* A link that turns good is used to the full.
RateRecovers == calm ~> rate = MaxRate
=============================================================================
