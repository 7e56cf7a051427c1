---------------------------- MODULE MCHostParts -----------------------------
(***************************************************************************)
(* The parts of the host on small instances.  ReceiveWindow, HostSession and *)
(* HostSender have runs of their own.                                      *)
(***************************************************************************)
EXTENDS HostParts

\* What the rungs of a ladder of three want, in the units of Bitrates.
MCCost == <<8, 4, 2>>

\* CodecChoice, and what codecs_for makes of auto.
MCOffers == {<<"h264", "hevc">>, <<"hevc", "h264">>, <<"h264">>, <<"hevc">>}

\* Monitors, and windows of any size.
Sized(w, h) == [w |-> w, h |-> h]
MCDisplays ==
  {Sized(3840, 2160), Sized(2560, 1600), Sized(1920, 1080), Sized(1366, 769),
   Sized(1004, 898), Sized(640, 480), Sized(1, 900)}

\* Of StreamSize::for_display.
MCStandardHeights == <<2160, 1440, 1200, 1080, 900, 720, 540>>

\* Both sides of the limits that validate sets, and bounds of the bitrate
\* below, around and above the one it starts at.
MCValues ==
  [port |-> {0, 9000}, fps |-> {0, 240, 241}, start |-> {999, 1000, 200000},
   height |-> {359, 360}, least |-> {0, 500, 12000}, most |-> {500, 12000},
   step |-> {0, 1}, smooth |-> {0, 1}, rest |-> {0}]
MCOverrides == [port |-> {0, 4434}, display |-> {7}, extend |-> {0, 1}, smooth |-> {1}]
=============================================================================
