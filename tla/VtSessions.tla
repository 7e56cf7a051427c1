----------------------------- MODULE VtSessions ------------------------------
(***************************************************************************)
(* The compression and decompression sessions of VideoToolbox, as          *)
(* crates/renderd-vt-sys/src/session.rs and its C shim wrap them: frames   *)
(* are coded in their own time and handed to a callback on a thread of     *)
(* VideoToolbox's, which reads a box that belongs to the session.  The     *)
(* thread that owns the session, the host's EncodePipeline (encode.rs) or  *)
(* the viewer's VideoToolboxDecoder (videotoolbox_decode.rs), replaces it  *)
(* when the size or the stream changes.  What the objects handed to        *)
(* VideoToolbox are worth is told by their reference counts, as the code   *)
(* retains and releases them.                                              *)
(***************************************************************************)
EXTENDS Naturals, Sequences, FiniteSets

CONSTANTS
  MaxSessions,
  MaxFrames,   \* frames given to VideoToolbox
  MaxCoding    \* frames it holds at a time

\* What the constants must be; the module that chooses them assumes it.
Assumption == {MaxSessions, MaxFrames, MaxCoding} \subseteq Nat \ {0}

Session == 1 .. MaxSessions
None == 0

\* What a frame brings along, one of each at most: on the host the pixel buffer
\* around its surface, on the viewer the description of a keyframe's stream.
Object == 1 .. MaxFrames

VARIABLES
  side,     \* "encoder" or "decoder"
  made,     \* sessions created
  current,  \* EncodePipeline::session, or the decoder's
  fresh,    \* of the encoder: created, and not in its place yet
  dropping, \* the session whose drop runs
  owner,    \* where that is: "idle", "completing", "invalidating", "freeing"
  box,      \* _callback_box of each session: "none", "live" or "freed"
  given,    \* frames given
  coding,   \* frames in each session, oldest first: the object each holds
  callback, \* each session's callback: "none", "entered", "copied" or "locked"
  holder,   \* of the decoder's output_queue mutex
  clears,   \* the decoder is being reset, and clears its queue last
  cached,   \* format_desc of each session
  refs      \* reference count of each object

owning == <<made, current, fresh, dropping, owner, clears>>
videotoolbox == <<coding, callback>>
vars == <<side, owning, box, given, videotoolbox, holder, cached, refs>>

Nobody == "nobody"

TypeOK ==
  /\ side \in {"encoder", "decoder"}
  /\ {made, current, fresh, dropping} \subseteq Session \cup {None}
  /\ owner \in {"idle", "completing", "invalidating", "freeing", "reading"}
  /\ box \in [Session -> {"none", "live", "freed"}]
  /\ given \in 0 .. MaxFrames
  /\ coding \in [Session -> Seq(Object \cup {None})]
  /\ callback \in [Session -> {"none", "entered", "copied", "locked"}]
  /\ holder \in {"owner", "callback", Nobody}
  /\ clears \in BOOLEAN
  /\ cached \in [Session -> Object \cup {None}]
  /\ refs \in [Object -> Nat]

Init ==
  /\ side \in {"encoder", "decoder"}
  /\ made = 0 /\ current = None /\ fresh = None
  /\ dropping = None /\ owner = "idle" /\ clears = FALSE
  /\ box = [s \in Session |-> "none"]
  /\ given = 0
  /\ coding = [s \in Session |-> <<>>]
  /\ callback = [s \in Session |-> "none"]
  /\ holder = Nobody
  /\ cached = [s \in Session |-> None]
  /\ refs = [o \in Object |-> 0]

\* CFRetain and CFRelease.
Retain(count, o) == IF o = None THEN count ELSE [count EXCEPT ![o] = @ + 1]
Release(count, o) == IF o = None THEN count ELSE [count EXCEPT ![o] = @ - 1]

-----------------------------------------------------------------------------
(* Sessions come and go.                                                   *)

Drop(s) == dropping' = s /\ owner' = "completing"
NoDrop == UNCHANGED <<dropping, owner>>

Free == owner = "idle" /\ made < MaxSessions

\* A session is created together with the box its callback reads.
Create ==
  /\ Free
  /\ made' = made + 1
  /\ box' = [box EXCEPT ![made + 1] = "live"]

\* with_frame_rate, from start_session: the session there is goes first, and only
\* then is the new one put in its place.
CreateEncoder ==
  /\ side = "encoder" /\ Create
  /\ IF current = None
     THEN current' = made + 1 /\ fresh' = None /\ NoDrop
     ELSE fresh' = made + 1 /\ Drop(current) /\ UNCHANGED current
  /\ UNCHANGED <<side, clears, given, videotoolbox, holder, cached, refs>>

\* new and from_nal, from decode_packet: there is no session, or none any more.
CreateDecoder ==
  /\ side = "decoder" /\ current = None /\ Create
  /\ current' = made + 1
  /\ UNCHANGED <<side, fresh, clears, given, videotoolbox, holder, cached, refs>>
  /\ NoDrop

\* VideoToolbox will not create one: the box goes with the error.
CreateFails ==
  /\ Free /\ (side = "decoder" => current = None)
  /\ made' = made + 1
  /\ box' = [box EXCEPT ![made + 1] = "freed"]
  /\ UNCHANGED <<side, current, fresh, dropping, owner, clears, given, videotoolbox, holder, cached, refs>>

MutReset ==
  /\ side = "decoder" /\ owner = "idle" /\ current # None /\ holder = Nobody
  /\ Drop(current)
  /\ clears' = TRUE /\ holder' = "owner"
  /\ UNCHANGED <<side, made, current, fresh, box, given, videotoolbox, cached, refs>>

\* reset: the session goes, and only then is the queue locked and cleared.
Reset ==
  /\ side = "decoder" /\ owner = "idle" /\ current # None
  /\ Drop(current)
  /\ clears' = TRUE
  /\ UNCHANGED <<side, made, current, fresh, box, given, videotoolbox, holder, cached, refs>>

\* shutdown of the encoder; other parameter sets, on the viewer.
Discard ==
  /\ owner = "idle" /\ current # None
  /\ Drop(current)
  /\ UNCHANGED <<side, made, current, fresh, clears, box, given, videotoolbox, holder, cached, refs>>

MutCompleted ==
  /\ owner = "completing"
  /\ owner' = "invalidating"
  /\ UNCHANGED <<side, made, current, fresh, dropping, clears, box, given, videotoolbox, holder, cached, refs>>

\* VTCompressionSessionCompleteFrames, VTDecompressionSessionWaitForAsynchronousFrames:
\* both return when every callback has.
Completed ==
  /\ owner = "completing"
  /\ coding[dropping] = <<>> /\ callback[dropping] = "none"
  /\ owner' = "invalidating"
  /\ UNCHANGED <<side, made, current, fresh, dropping, clears, box, given, videotoolbox, holder, cached, refs>>

\* Invalidate, of a session that VideoToolbox has nothing left of.
Invalidate ==
  /\ owner = "invalidating"
  /\ owner' = "freeing"
  /\ UNCHANGED <<side, made, current, fresh, dropping, clears, box, given, videotoolbox, holder, cached, refs>>

\* The end of drop: the cached description and the box.
Freed ==
  /\ owner = "freeing"
  /\ refs' = Release(refs, cached[dropping])
  /\ cached' = [cached EXCEPT ![dropping] = None]
  /\ box' = [box EXCEPT ![dropping] = "freed"]
  /\ current' = fresh /\ fresh' = None
  /\ dropping' = None
  /\ owner' = IF clears THEN "reading" ELSE "idle"
  /\ UNCHANGED <<side, made, clears, given, videotoolbox, holder>>

-----------------------------------------------------------------------------
(* Frames.                                                                 *)

Give ==
  /\ owner = "idle" /\ current # None /\ given < MaxFrames
  /\ Len(coding[current]) < MaxCoding
  /\ given' = given + 1
  /\ UNCHANGED <<side, owning, box, callback, holder>>

\* encode_surface: VideoToolbox keeps the pixel buffer of a frame it takes, and
\* the one who made it lets go of it.
EncodeSurface ==
  /\ side = "encoder" /\ Give
  /\ LET buffer == given + 1
         created == Retain(refs, buffer)
     IN \/ /\ refs' = Release(Retain(created, buffer), buffer)
           /\ coding' = [coding EXCEPT ![current] = Append(@, buffer)]
        \/ refs' = Release(created, buffer) /\ coding' = coding
  /\ UNCHANGED cached

MutDescribed(count, o) == Release(count, cached[current])

\* The description a frame brings replaces the one cached.
Described(count, o) == Retain(Release(count, cached[current]), o)

\* decode_frame_with_ctx, of a frame that brings the description of its stream ...
DecodeKeyframe ==
  /\ side = "decoder" /\ Give
  /\ LET desc == given + 1
         kept == Described(Retain(refs, desc), desc)
     IN \/ /\ refs' = Release(Retain(kept, desc), desc)
           /\ coding' = [coding EXCEPT ![current] = Append(@, desc)]
        \/ refs' = Release(kept, desc) /\ coding' = coding
     /\ cached' = [cached EXCEPT ![current] = desc]

\* ... or of one that is described by what is cached, or by nothing.
DecodeFrame ==
  /\ side = "decoder" /\ Give
  /\ LET desc == cached[current]
         own == Retain(refs, desc)
     IN \/ /\ desc # None
           /\ refs' = Release(Retain(own, desc), desc)
           /\ coding' = [coding EXCEPT ![current] = Append(@, desc)]
        \/ refs' = Release(own, desc) /\ coding' = coding
  /\ UNCHANGED cached

-----------------------------------------------------------------------------
(* VideoToolbox's threads, and the output queue.                           *)

\* vt_output_callback, vt_decompression_output_callback: the box is looked up.
\* The decoder's copies the picture, if there is one, to queue it.
CallbackBegins(s) ==
  /\ callback[s] = "none" /\ coding[s] # <<>>
  /\ \E place \in {"entered", "copied"} :
       /\ place = "copied" => side = "decoder"
       /\ callback' = [callback EXCEPT ![s] = place]
  /\ UNCHANGED <<side, owning, box, given, coding, holder, cached, refs>>

CallbackLocks(s) ==
  /\ callback[s] = "copied" /\ holder = Nobody
  /\ callback' = [callback EXCEPT ![s] = "locked"]
  /\ holder' = "callback"
  /\ UNCHANGED <<side, owning, box, given, coding, cached, refs>>

\* The callback returns, and VideoToolbox lets go of the frame.
CallbackEnds(s) ==
  /\ callback[s] \in {"entered", "locked"}
  /\ callback' = [callback EXCEPT ![s] = "none"]
  /\ holder' = IF callback[s] = "locked" THEN Nobody ELSE holder
  /\ coding' = [coding EXCEPT ![s] = Tail(@)]
  /\ refs' = Release(refs, Head(coding[s]))
  /\ UNCHANGED <<side, owning, box, given, cached>>

\* receive_frame, and the end of reset: the queue is locked ...
QueueLocked ==
  /\ side = "decoder" /\ holder = Nobody
  /\ owner = "reading" \/ (owner = "idle" /\ current # None)
  /\ holder' = "owner" /\ owner' = "reading"
  /\ UNCHANGED <<side, made, current, fresh, dropping, clears, box, given, videotoolbox, cached, refs>>

\* ... and left.
QueueUnlocked ==
  /\ owner = "reading" /\ holder = "owner"
  /\ holder' = Nobody /\ owner' = "idle" /\ clears' = FALSE
  /\ UNCHANGED <<side, made, current, fresh, dropping, box, given, videotoolbox, cached, refs>>

-----------------------------------------------------------------------------
DropStep == Completed \/ Invalidate \/ Freed \/ QueueUnlocked \/ (owner = "reading" /\ QueueLocked)
Callback(s) == CallbackBegins(s) \/ CallbackLocks(s) \/ CallbackEnds(s)

Next ==
  \/ CreateEncoder \/ CreateDecoder \/ CreateFails \/ Reset \/ Discard
  \/ Completed \/ Invalidate \/ Freed
  \/ EncodeSurface \/ DecodeKeyframe \/ DecodeFrame
  \/ \E s \in Session : CallbackBegins(s) \/ CallbackLocks(s) \/ CallbackEnds(s)
  \/ QueueLocked \/ QueueUnlocked

Spec == Init /\ [][Next]_vars

-----------------------------------------------------------------------------
(* Properties.                                                             *)

\* VideoToolbox never calls into a session that is gone, however many frames it
\* held when the session was dropped.
CallbackInLife == \A s \in Session : callback[s] # "none" => box[s] = "live"

Uses(o) ==
  Cardinality({s \in Session : cached[s] = o})
    + Cardinality({u \in Session \X (1 .. MaxCoding) :
                     u[2] <= Len(coding[u[1]]) /\ coding[u[1]][u[2]] = o})

\* What is retained is released: an object lives exactly as long as a session
\* keeps it or VideoToolbox has a frame with it.
Balanced == \A o \in Object : refs[o] = Uses(o)

SessionsSafe == CallbackInLife /\ Balanced

\* A session that is dropped is gone some time: its callbacks never wait for
\* who waits for them.
DropEnds == owner = "completing" ~> owner = "idle"
=============================================================================
