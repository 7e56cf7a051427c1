------------------------------- MODULE Pairing -------------------------------
(***************************************************************************)
(* Pairing a viewer with the host: the PIN, the count of failures and the  *)
(* lockout of PairingHandler (crates/renderd-host/src/session/pairing.rs), *)
(* the keychain entries it saves (renderd-keychain) and the registry that  *)
(* revokes them (session/devices.rs); on the viewer, the PIN prompt and    *)
(* the client that derives and saves its own copy of the token             *)
(* (renderd-viewer/src/pairing).  A token is identified by the PIN it is   *)
(* derived from: derive_pair_token is a function of it and the two ids.    *)
(*                                                                         *)
(* The handler's mutex is dropped before the keychain is written, which on *)
(* macOS is a delete followed by a set.  Time is in units of the first     *)
(* lockout.                                                                *)
(***************************************************************************)
EXTENDS Integers, FiniteSetsExt

CONSTANTS
  Viewers,
  MaxPins,      \* PINs generated
  Validity,     \* PIN_VALIDITY_DURATION, in units
  Threshold,    \* MAX_ATTEMPTS_BEFORE_LOCKOUT
  MaxLockout,   \* the cap on a lockout, in units
  MaxFailures   \* failures in a row

\* What the constants must be; the module that chooses them assumes it.
Assumption ==
  /\ {MaxPins, Validity, Threshold, MaxLockout} \subseteq Nat \ {0}
  /\ MaxFailures \in Nat /\ MaxFailures > Threshold

None == 0

VARIABLES
  pin,        \* active_pin
  pinAge,     \* time since pin_generated_at, up to one past its validity
  pins,       \* PINs generated so far
  failed,     \* failed_attempts
  locked,     \* time left until locked_until
  saving,     \* verified and on the way to the keychain: [viewer, pin, deleted]
  keychain,   \* the host's entry of each viewer, by PIN
  prompt,     \* PairingUiState of one viewer
  token,      \* that viewer's own entry, by PIN
  waited,     \* history: time since the last failure
  used        \* history: how often each PIN was accepted

handler == <<pin, pinAge, pins, failed, locked>>
viewer == <<prompt, token>>
vars == <<handler, saving, keychain, viewer, waited, used>>

PIN == 1 .. MaxPins

Prompt == {"Idle", "Prompting", "Verifying", "Success", "Failed"}

TypeOK ==
  /\ pin \in PIN \cup {None}
  /\ pinAge \in 0 .. Validity + 1
  /\ pins \in 0 .. MaxPins
  /\ failed \in 0 .. MaxFailures
  /\ locked \in 0 .. MaxLockout
  /\ saving \subseteq [viewer : Viewers, pin : PIN, deleted : BOOLEAN]
  /\ keychain \in [Viewers -> PIN \cup {None}]
  /\ prompt \in Prompt
  /\ token \in PIN \cup {None}
  /\ waited \in 0 .. MaxLockout
  /\ used \in [PIN -> Nat]

Init ==
  /\ pin = None /\ pinAge = 0 /\ pins = 0 /\ failed = 0 /\ locked = 0
  /\ saving = {} /\ keychain = [v \in Viewers |-> None]
  /\ prompt = "Idle" /\ token = None
  /\ waited = MaxLockout /\ used = [p \in PIN |-> 0]

\* lockout_duration: doubled by every failure past the threshold, up to a cap.
Multiplier[extra \in 0 .. MaxFailures] == IF extra = 0 THEN 1 ELSE 2 * Multiplier[extra - 1]
Lockout(failures) == Min({Multiplier[failures - Threshold], MaxLockout})

-----------------------------------------------------------------------------
(* The host.                                                               *)

\* generate_pin; the failures of the PIN before stay on the account.
GeneratePin ==
  /\ pins < MaxPins
  /\ pins' = pins + 1
  /\ pin' = pins + 1 /\ pinAge' = 0
  /\ UNCHANGED <<failed, locked, saving, keychain, viewer, waited, used>>

\* verify_and_save refuses a stale PIN, and forgets it.
PinExpired ==
  /\ locked = 0
  /\ pin # None /\ pinAge > Validity
  /\ pin' = None
  /\ UNCHANGED <<pinAge, pins, failed, locked, saving, keychain, viewer, waited, used>>

\* ... counts a wrong one, and locks out from the threshold on ...
WrongPin ==
  /\ locked = 0
  /\ pin # None /\ pinAge <= Validity
  /\ failed < MaxFailures
  /\ failed' = failed + 1
  /\ locked' = IF failed' >= Threshold THEN Lockout(failed') ELSE locked
  /\ waited' = 0
  /\ UNCHANGED <<pin, pinAge, pins, saving, keychain, viewer, used>>

MutRightPin(v) ==
  /\ locked = 0
  /\ pin # None /\ pinAge <= Validity
  /\ saving' = saving \cup {[viewer |-> v, pin |-> pin, deleted |-> FALSE]}
  /\ failed' = 0
  /\ used' = [used EXCEPT ![pin] = @ + 1]
  /\ used[pin] < 2
  /\ UNCHANGED <<pin, pinAge, pins, locked, keychain, viewer, waited>>

\* ... and takes the right one, once, on to the keychain.
RightPin(v) ==
  /\ locked = 0
  /\ pin # None /\ pinAge <= Validity
  /\ saving' = saving \cup {[viewer |-> v, pin |-> pin, deleted |-> FALSE]}
  /\ pin' = None
  /\ failed' = 0
  /\ used' = [used EXCEPT ![pin] = @ + 1]
  /\ UNCHANGED <<pinAge, pins, locked, keychain, viewer, waited>>

\* save_pairing on macOS: the old entry is deleted first ...
DeleteOld(s) ==
  /\ ~s.deleted
  /\ saving' = (saving \ {s}) \cup {[s EXCEPT !.deleted = TRUE]}
  /\ keychain' = [keychain EXCEPT ![s.viewer] = None]
  /\ UNCHANGED <<handler, viewer, waited, used>>

\* ... and the new one set, or refused by the keychain.
Save(s) ==
  /\ s.deleted
  /\ saving' = saving \ {s}
  /\ keychain' \in {keychain, [keychain EXCEPT ![s.viewer] = s.pin]}
  /\ UNCHANGED <<handler, viewer, waited, used>>

\* DeviceRegistry::revoke
Revoke(v) ==
  /\ keychain[v] # None
  /\ keychain' = [keychain EXCEPT ![v] = None]
  /\ UNCHANGED <<handler, saving, viewer, waited, used>>

\* reset, when the host is idle again: PIN, failures and lockout are forgotten.
Reset ==
  /\ pin # None \/ failed # 0
  /\ pin' = None /\ pinAge' = 0 /\ failed' = 0 /\ locked' = 0
  /\ UNCHANGED <<pins, saving, keychain, viewer, waited, used>>

Tick ==
  /\ pinAge' = Min({pinAge + 1, Validity + 1})
  /\ locked' = Max({locked - 1, 0})
  /\ waited' = Min({waited + 1, MaxLockout})
  /\ UNCHANGED <<pin, pins, failed, saving, keychain, viewer, used>>

-----------------------------------------------------------------------------
(* The viewer's prompt.  The client derives and saves its token from the   *)
(* PIN typed in alone; nothing passes between it and the handler.          *)

StartPrompt ==
  /\ prompt \notin {"Prompting", "Verifying"}
  /\ prompt' = "Prompting"
  /\ UNCHANGED <<handler, saving, keychain, token, waited, used>>

ResetPrompt ==
  /\ prompt \notin {"Idle", "Verifying"}
  /\ prompt' = "Idle"
  /\ UNCHANGED <<handler, saving, keychain, token, waited, used>>

SubmitPin ==
  /\ prompt = "Prompting"
  /\ prompt' = "Verifying"
  /\ UNCHANGED <<handler, saving, keychain, token, waited, used>>

\* execute_pairing: a malformed PIN or a failing credential store fails it.
ExecutePairing ==
  /\ prompt = "Verifying"
  /\ \/ /\ prompt' = "Success"
        /\ token' \in 1 .. pins
     \/ /\ prompt' = "Failed"
        /\ token' = token
  /\ UNCHANGED <<handler, saving, keychain, waited, used>>

-----------------------------------------------------------------------------
Next ==
  \/ GeneratePin \/ PinExpired \/ WrongPin \/ Reset \/ Tick
  \/ \E v \in Viewers : RightPin(v) \/ Revoke(v)
  \/ StartPrompt \/ ResetPrompt \/ SubmitPin \/ ExecutePairing
  \/ \E s \in saving : DeleteOld(s) \/ Save(s)

Spec == Init /\ [][Next]_vars

-----------------------------------------------------------------------------
(* Properties.                                                             *)

\* Guessing a PIN gets slower and slower: past the threshold, an attempt is
\* counted or accepted only when the lockout that its failures in a row have
\* earned is over, whatever PINs were generated in between; and the right PIN is
\* accepted once, however many viewers submit it at the same time.
PinGuarded ==
  [][/\ \A p \in PIN : used'[p] <= 1
     /\ failed >= Threshold /\ failed' # failed /\ pins' = pins /\ ~Reset
          => waited >= Lockout(failed)]_vars
=============================================================================
