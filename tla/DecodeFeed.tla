----------------------------- MODULE DecodeFeed -----------------------------
(***************************************************************************)
(* What a frame receiver promises its decoder, with nothing said of how:   *)
(* every frame handed out is newer than all before it, and is either a     *)
(* keyframe or the direct successor of the frame handed out just before    *)
(* it, with nothing skipped by the caller in between.  A decoder fed this  *)
(* way never decodes against a reference it does not hold.                 *)
(*                                                                         *)
(* ReceiveWindow implements this specification (its refinement mapping is  *)
(* the identity on the three variables).                                   *)
(***************************************************************************)
EXTENDS Integers, Sequences

NoFrame == -1

FrameId == Nat \ {0}

\* ReassembledFrame without its payload and timestamp.
Frame == [id : FrameId, key : BOOLEAN]

VARIABLES
  handed,   \* the frames the latest call handed out, oldest first
  ref,      \* the frame the decoder decoded last, or NoFrame if it must restart
  top       \* the newest frame handed out so far, 0 before the first

feedVars == <<handed, ref, top>>

\* The frame the decoder holds when it is given the i-th frame of fs.
Before(r, fs, i) == IF i = 1 THEN r ELSE fs[i - 1].id

\* Every frame of fs decodes, when the decoder starts from reference r.
Decodable(r, fs) ==
  \A i \in DOMAIN fs : fs[i].key \/ fs[i].id = Before(r, fs, i) + 1

\* The ids of fs rise strictly, from above t.
Ascending(t, fs) ==
  \A i \in DOMAIN fs : fs[i].id > Before(t, fs, i)

\* The last id of fs, or d when fs is empty.
LastId(d, fs) == IF fs = << >> THEN d ELSE fs[Len(fs)].id

FeedInit ==
  /\ handed = << >>
  /\ ref = NoFrame
  /\ top = 0

\* A call hands out any decodable run of new frames, possibly none.
Feed ==
  /\ handed' \in Seq(Frame)
  /\ Decodable(ref, handed')
  /\ Ascending(top, handed')
  /\ ref' = LastId(ref, handed')
  /\ top' = LastId(top, handed')

\* The decoder lost its place: it fell behind and skipped, or a decode failed.
Restart ==
  /\ handed' = << >>
  /\ ref' = NoFrame
  /\ UNCHANGED top

FeedNext == Feed \/ Restart

FeedSpec == FeedInit /\ [][FeedNext]_feedVars
=============================================================================
