--------------------------- MODULE MCEncoderSize ---------------------------
(* EncoderSize on a ladder of four sizes, for TLC. *)
EXTENDS EncoderSize

MCSizes == 1 .. 4

MCNative == 4
=============================================================================
