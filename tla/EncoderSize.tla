---------------------------- MODULE EncoderSize ----------------------------
(***************************************************************************)
(* Who decides how large the host encodes: the size changes of             *)
(* EncodePipeline in crates/renderd-host/src/encode.rs (init, reconfigure, *)
(* sharpen, restore_size, resize, shutdown), asked for by three threads    *)
(* besides the session's own task: the link's resizes run on a blocking    *)
(* thread (app.rs, follow_link_with_size), sharpening on the still-screen  *)
(* refiner and restoring on the capture callback (refine.rs).              *)
(*                                                                         *)
(* The resizing lock serialises the three, but not init and shutdown.      *)
(* Each of params, base_size and session has a mutex of its own, so a step *)
(* here is one of those critical sections, or several of which nothing     *)
(* else can run in between.                                                *)
(***************************************************************************)
EXTENDS Naturals

CONSTANTS
  Sizes,        \* the sizes on the ladder, as numbers
  Native,       \* the display's own size
  MaxSessions   \* sessions run one after another

\* What the constants must be; the module that chooses them assumes it.
Assumption ==
  /\ Sizes \subseteq Nat \ {0}
  /\ Native \in Sizes
  /\ MaxSessions \in Nat

None == 0

Thread == {"link", "refiner", "capture"}

VARIABLES
  params,    \* EncodePipeline::params: the configured size
  hardware,  \* the size of the compression session that exists
  base,      \* base_size: the link's size while sharpened
  holder,    \* the thread holding the resizing lock
  at,        \* where each thread is
  want,      \* the size each thread is changing to
  phase,     \* the session: "down", "starting", "up", "stopping"
  linkSize,  \* the size the link last called for and got
  sessions,  \* sessions begun
  spoilt     \* history: a session ended sharpened or with a resize of the link
             \* under way, or such a resize failed while the encoder was sharpened

vars == <<params, hardware, base, holder, at, want, phase, linkSize, sessions, spoilt>>

Size == Sizes \cup {None}

TypeOK ==
  /\ {params, hardware, base, linkSize} \subseteq Size
  /\ holder \in Thread \cup {"nobody"}
  /\ at \in [Thread -> {"idle", "queued", "building", "built"}]
  /\ want \in [Thread -> Size]
  /\ phase \in {"down", "starting", "up", "stopping"}
  /\ sessions \in 0 .. MaxSessions
  /\ spoilt \in BOOLEAN

Init ==
  /\ params = None /\ hardware = None /\ base = None
  /\ holder = "nobody"
  /\ at = [t \in Thread |-> "idle"]
  /\ want = [t \in Thread |-> None]
  /\ phase = "down"
  /\ linkSize = None
  /\ sessions = 0
  /\ spoilt = FALSE

\* Thread t goes to a place, with the lock in the hands given.
Goes(t, place, size, lock) ==
  /\ at' = [at EXCEPT ![t] = place]
  /\ want' = [want EXCEPT ![t] = size]
  /\ holder' = lock

-----------------------------------------------------------------------------
(* The session's task.                                                     *)

MutStartSession(size) ==
  /\ phase = "down" /\ sessions < MaxSessions
  /\ hardware' = size + 1
  /\ phase' = "starting"
  /\ sessions' = sessions + 1
  /\ UNCHANGED <<params, base, holder, at, want, linkSize, spoilt>>

\* init: the hardware session first.
StartSession(size) ==
  /\ phase = "down" /\ sessions < MaxSessions
  /\ hardware' = size
  /\ phase' = "starting"
  /\ sessions' = sessions + 1
  /\ UNCHANGED <<params, base, holder, at, want, linkSize, spoilt>>

\* ... then the parameters to rebuild it from.  Capture starts after this.
Started ==
  /\ phase = "starting"
  /\ params' = hardware
  /\ linkSize' = hardware
  /\ phase' = "up"
  /\ UNCHANGED <<hardware, base, holder, at, want, sessions, spoilt>>

\* teardown: capture.stop has joined the callback and the refiner, and then
\* shutdown forgets the parameters.
StopSession ==
  /\ phase = "up"
  /\ at["refiner"] = "idle" /\ at["capture"] = "idle"
  /\ params' = None
  /\ phase' = "stopping"
  /\ spoilt' = (spoilt \/ base # None \/ at["link"] # "idle")
  /\ UNCHANGED <<hardware, base, holder, at, want, linkSize, sessions>>

\* ... and drops the hardware session.
Stopped ==
  /\ phase = "stopping"
  /\ hardware' = None
  /\ linkSize' = None
  /\ phase' = "down"
  /\ UNCHANGED <<params, base, holder, at, want, sessions, spoilt>>

-----------------------------------------------------------------------------
(* Size changes.                                                           *)

\* The governor picks another size; the resize is queued to a blocking thread.
LinkAsks(size) ==
  /\ phase = "up" /\ at["link"] = "idle"
  /\ Goes("link", "queued", size, holder)
  /\ UNCHANGED <<params, hardware, base, phase, linkSize, sessions, spoilt>>

\* resize with the lock held: an error if never configured, nothing to do if
\* already that size, else on to the rebuild.
Resize(t, size) ==
  IF params \in {None, size} THEN Goes(t, "idle", None, "nobody")
  ELSE Goes(t, "building", size, t)

MutReconfigure ==
  /\ at["link"] = "queued"
  /\ Resize("link", want["link"])
  /\ base' = None
  /\ linkSize' = IF params = want["link"] THEN params ELSE linkSize
  /\ UNCHANGED <<params, hardware, phase, sessions, spoilt>>

\* reconfigure: the link's size replaces whatever sharpening was in use.
Reconfigure ==
  /\ at["link"] = "queued" /\ holder = "nobody"
  /\ Resize("link", want["link"])
  /\ base' = None
  /\ linkSize' = IF params = want["link"] THEN params ELSE linkSize
  /\ UNCHANGED <<params, hardware, phase, sessions, spoilt>>

\* sharpen, by the refiner of a running capture.
Sharpen ==
  /\ phase = "up" /\ at["refiner"] = "idle" /\ holder = "nobody"
  /\ params # Native /\ base = None
  /\ base' = params
  /\ Resize("refiner", Native)
  /\ UNCHANGED <<params, hardware, phase, linkSize, sessions, spoilt>>

\* restore_size, by a capture callback that sees motion.
RestoreSize ==
  /\ phase = "up" /\ at["capture"] = "idle" /\ holder = "nobody"
  /\ base # None
  /\ Resize("capture", base)
  /\ base' = IF params = base THEN None ELSE base
  /\ UNCHANGED <<params, hardware, phase, linkSize, sessions, spoilt>>

\* start_session: the old hardware session is drained and replaced.
Build(t) ==
  /\ at[t] = "building"
  /\ hardware' = want[t]
  /\ Goes(t, "built", want[t], holder)
  /\ UNCHANGED <<params, base, phase, linkSize, sessions, spoilt>>

\* The new size is recorded; a restore is no longer sharpened.
Store(t) ==
  /\ at[t] = "built"
  /\ params' = want[t]
  /\ base' = IF t = "capture" THEN None ELSE base
  /\ linkSize' = IF t = "link" THEN want[t] ELSE linkSize
  /\ Goes(t, "idle", None, "nobody")
  /\ UNCHANGED <<hardware, phase, sessions, spoilt>>

\* start_session fails: the old session keeps running.  Only sharpen takes back
\* what it did to base_size.
BuildFails(t) ==
  /\ at[t] = "building"
  /\ base' = IF t = "refiner" THEN None ELSE base
  /\ Goes(t, "idle", None, "nobody")
  /\ spoilt' = (spoilt \/ (t = "link" /\ params # linkSize))
  /\ UNCHANGED <<params, hardware, phase, linkSize, sessions>>

-----------------------------------------------------------------------------
Next ==
  \/ \E size \in Sizes : StartSession(size) \/ LinkAsks(size)
  \/ Started \/ StopSession \/ Stopped
  \/ Reconfigure \/ Sharpen \/ RestoreSize
  \/ \E t \in Thread : Build(t) \/ Store(t) \/ BuildFails(t)

Spec == Init /\ [][Next]_vars

-----------------------------------------------------------------------------
(* Properties.                                                             *)

Settled == phase = "up" /\ holder = "nobody"

AtLinkSize == \/ base = None /\ params = linkSize
              \/ base = linkSize /\ params = Native

\* Between size changes the encoder is where the threads agree it is: at the
\* link's size, or sharpened to the display's with the link's size remembered.
\* No sharpen or restore, whether its rebuild succeeds or fails, undoes what the
\* link asked for.
LinkSizeInForce == Settled /\ ~spoilt => AtLinkSize

\* base_size is the size this link calls for, also in the sessions that follow.
BaseIsLinkSize == Settled => base \in {None, linkSize}
=============================================================================
