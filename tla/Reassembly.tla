----------------------------- MODULE Reassembly ------------------------------
(***************************************************************************)
(* The ReassemblyBuffer of crates/renderd-frame/src/reassembly.rs, which   *)
(* the receive window took the place of: a sliding window of frames that   *)
(* are partly there.  Fragments come in any order, some twice and some     *)
(* never, and may disagree about their frame.                              *)
(***************************************************************************)
EXTENDS Integers, Sequences, FiniteSets

CONSTANTS
  Frames,     \* frame ids that come
  MaxTotal,   \* fragments a frame may be said to have
  Capacity    \* ReassemblyBuffer::capacity, at least 1 by new

\* What the constants must be; the module that chooses them assumes it.
Assumption ==
  /\ Frames \subseteq Nat /\ IsFiniteSet(Frames)
  /\ {MaxTotal, Capacity} \subseteq Nat \ {0}

None == -1

VARIABLES
  pending,    \* frames partly there: what they are made of, by their ids
  watermark,  \* retired_watermark
  abandoned,  \* history: frames given up incomplete
  out         \* frames handed out

vars == <<pending, watermark, abandoned, out>>

\* A FragmentHeader that passes validate.
Header ==
  {h \in [id : Frames, frag : 0 .. MaxTotal - 1, total : 1 .. MaxTotal, key : BOOLEAN] : h.frag < h.total}

PendingFrame == [total : 1 .. MaxTotal, got : SUBSET (0 .. MaxTotal - 1), key : BOOLEAN]
Handed == [id : Frames, total : 1 .. MaxTotal, got : SUBSET (0 .. MaxTotal - 1), key : BOOLEAN]

TypeOK ==
  /\ DOMAIN pending \subseteq Frames
  /\ \A f \in DOMAIN pending : pending[f] \in PendingFrame
  /\ watermark \in Frames \cup {None}
  /\ abandoned \subseteq Frames
  /\ out \in Seq(Handed)

Init ==
  /\ pending = [f \in {} |-> {}]
  /\ watermark = None
  /\ abandoned = {}
  /\ out = <<>>

IsStale(f) == watermark # None /\ f <= watermark

\* retire
Retired(mark, f) == IF mark >= f THEN mark ELSE f

\* The entry of a fragment's frame: what is there of it, or a new one.
Entry(h) ==
  IF h.id \in DOMAIN pending THEN pending[h.id] ELSE [total |-> h.total, got |-> {}, key |-> FALSE]

With(p, f, entry) == [g \in DOMAIN p \cup {f} |-> IF g = f THEN entry ELSE p[g]]
Without(p, gone) == [g \in DOMAIN p \ gone |-> p[g]]

Full(h) == h.id \notin DOMAIN pending /\ Cardinality(DOMAIN pending) >= Capacity

\* The oldest frame, which makes room for a newer one.
Oldest == {f \in DOMAIN pending : \A g \in DOMAIN pending : f <= g}

\* insert, of a fragment of no use: its frame is retired, or older than all of a
\* full window, or it says something else of its frame, or is there already.
Refused(h) ==
  \/ IsStale(h.id)
  \/ Full(h) /\ \A f \in DOMAIN pending : h.id < f
  \/ h.total # Entry(h).total
  \/ h.frag \in Entry(h).got

InsertRefused ==
  /\ \E h \in Header : Refused(h)
  /\ UNCHANGED vars

Evicted(h) == IF Full(h) THEN Oldest ELSE {}

\* The watermark once room was made.
Made(h, mark) == IF Full(h) THEN Retired(mark, CHOOSE f \in Oldest : TRUE) ELSE mark

Filled(h) ==
  [Entry(h) EXCEPT !.got = @ \cup {h.frag}, !.key = @ \/ h.key]

IsComplete(entry) == Cardinality(entry.got) = entry.total

\* insert, of a fragment its frame was waiting for ...
InsertPartial ==
  \E h \in Header :
    /\ ~Refused(h) /\ ~IsComplete(Filled(h))
    /\ pending' = With(Without(pending, Evicted(h)), h.id, Filled(h))
    /\ watermark' = Made(h, watermark)
    /\ abandoned' = abandoned \cup Evicted(h)
    /\ UNCHANGED out

MutCompleted(h) == Made(h, watermark)

\* The watermark once a frame is complete: the ones before it are stale, even
\* those that wait for fragments still.
Completed(h) == Retired(Made(h, watermark), h.id)

\* ... and of the last one, which has the frame handed out.
InsertLast ==
  \E h \in Header :
    /\ ~Refused(h) /\ IsComplete(Filled(h))
    /\ pending' = Without(pending, Evicted(h) \cup {h.id})
    /\ watermark' = Completed(h)
    /\ abandoned' = abandoned \cup Evicted(h)
    /\ out' = Append(out, [id |-> h.id, total |-> Filled(h).total, got |-> Filled(h).got, key |-> Filled(h).key])

Older(min) == {f \in DOMAIN pending : f < min}

\* drop_older_than
DropOlderThan ==
  \E min \in Frames :
    /\ Older(min) # {}
    /\ pending' = Without(pending, Older(min))
    /\ watermark' = Retired(watermark, CHOOSE f \in Older(min) : \A g \in Older(min) : g <= f)
    /\ abandoned' = abandoned \cup Older(min)
    /\ UNCHANGED out

Next == InsertRefused \/ InsertPartial \/ InsertLast \/ DropOlderThan

Spec == Init /\ [][Next]_vars

-----------------------------------------------------------------------------
(* Properties.                                                             *)

\* Frames come out in the order of their ids, each once, whatever came late,
\* twice or not at all.
InOrder == \A i, j \in DOMAIN out : i < j => out[i].id < out[j].id

\* ... and whole, and never one that was given up.
WholeFrames ==
  \A i \in DOMAIN out : out[i].got = 0 .. out[i].total - 1 /\ out[i].id \notin abandoned

\* The window holds no more than it may, lost fragments or not.
WithinCapacity == Cardinality(DOMAIN pending) <= Capacity

FramesWhole == InOrder /\ WholeFrames /\ WithinCapacity
=============================================================================
