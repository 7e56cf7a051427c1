---------------------------- MODULE MCHostSender ----------------------------
(* HostSender with a small ring, for TLC. *)
EXTENDS HostSender, TLC

\* Capture and the refiner run the same code; used for safety only.
SubmitterSymmetry == Permutations(Submitters)
=============================================================================
