---------------------------- MODULE HostSession ----------------------------
(***************************************************************************)
(* The life of viewer connections on the host: the accept loop and the     *)
(* per-connection task of crates/renderd-host/src/app.rs, the Stream 0     *)
(* negotiation it awaits (network/control.rs), the session state machine   *)
(* they share (session/mod.rs), and the capture, encoder, link and sender  *)
(* that a session turns on and teardown_session turns off.                 *)
(*                                                                         *)
(* Every accepted connection has a task of its own on a multi-threaded     *)
(* runtime, so the steps of two tasks interleave wherever the code awaits, *)
(* blocks or merely releases a lock.  A step here is one critical section  *)
(* or one call that changes shared state.  Each shared resource is         *)
(* represented by the connection it was set up for.                        *)
(*                                                                         *)
(* A connection is used once: a viewer that reconnects is a new one.       *)
(***************************************************************************)
EXTENDS Naturals, FiniteSets

CONSTANTS
  Conns,    \* the connections viewers make
  NoConn,   \* no connection
  MaxOpen   \* connections viewers hold open at a time

ASSUME ConnAssumption ==
  /\ NoConn \notin Conns
  /\ MaxOpen \in Nat

VARIABLES
  task,       \* where each connection's task is
  open,       \* which connections their viewer still holds open
  accepting,  \* whether the accept loop still runs
  session,    \* HostSession: the state and the viewer's connection
  encoder,    \* the connection the hardware encoder was configured for
  capture,    \* the connection screen capture was started for
  link,       \* the connection LinkPressure is attached to
  sender,     \* the connections with a DataSender running
  halted,     \* the connections whose shutdown_flag is set
  overlapped  \* history: a viewer dialled while another's task was still
              \* negotiating, refused or tearing down

vars == <<task, open, accepting, session, encoder, capture, link, sender, halted,
          overlapped>>

pipeline == <<encoder, capture, link, sender, halted>>

Phase == {"away", "knocking", "negotiating", "connected", "encoding", "capturing",
          "attaching", "serving", "stopping", "releasing", "resetting", "done"}

Idle == [state |-> "IDLE", viewer |-> NoConn]

\* SessionState: a viewer comes with CONNECTED and STREAMING and with nothing
\* else.  PAIRING is left out: nothing in the program calls begin_pairing.
SessionState ==
  {Idle} \cup [state : {"CONNECTED", "STREAMING"}, viewer : Conns]

TypeOK ==
  /\ task \in [Conns -> Phase]
  /\ open \subseteq Conns
  /\ accepting \in BOOLEAN
  /\ session \in SessionState
  /\ {encoder, capture, link} \subseteq Conns \cup {NoConn}
  /\ sender \subseteq Conns
  /\ halted \subseteq Conns
  /\ overlapped \in BOOLEAN

Init ==
  /\ task = [c \in Conns |-> "away"]
  /\ open = {}
  /\ accepting = TRUE
  /\ session = Idle
  /\ encoder = NoConn
  /\ capture = NoConn
  /\ link = NoConn
  /\ sender = {}
  /\ halted = {}
  /\ overlapped = FALSE

GoTo(c, phase) == task' = [task EXCEPT ![c] = phase]

-----------------------------------------------------------------------------
(* The viewers.                                                            *)

\* Every other connection has ended or owns the session.
Alone(c) == \A d \in Conns \ {c} : task[d] \in {"away", "done"} \/ session.viewer = d

\* A viewer connects: its handshake waits in the endpoint.
Dial(c) ==
  /\ task[c] = "away" /\ Cardinality(open) < MaxOpen
  /\ GoTo(c, "knocking")
  /\ open' = open \cup {c}
  /\ overlapped' = (overlapped \/ ~Alone(c))
  /\ UNCHANGED <<accepting, session, pipeline>>

\* A viewer closes, or its host is lost; the task learns of it in its own time.
HangUp(c) ==
  /\ c \in open
  /\ open' = open \ {c}
  /\ UNCHANGED <<task, accepting, session, pipeline, overlapped>>

-----------------------------------------------------------------------------
(* The accept loop.                                                        *)

MutAcceptAnyone(c) ==
  /\ accepting /\ task[c] = "knocking"
  /\ GoTo(c, "negotiating")
  /\ UNCHANGED <<open, accepting, session, pipeline, overlapped>>

\* A connection comes out of accept().  The loop looks at the session once,
\* and either refuses the viewer or spawns a task that will claim it later.
Accept(c) ==
  /\ accepting /\ task[c] = "knocking"
  /\ \/ /\ session = Idle
        /\ GoTo(c, "negotiating")
        /\ open' = open
     \/ /\ session # Idle
        /\ GoTo(c, "done")
        /\ open' = open \ {c}
  /\ UNCHANGED <<accepting, session, pipeline, overlapped>>

\* The QUIC handshake fails inside accept(): `while let Ok` leaves the loop.
AcceptFails(c) ==
  /\ accepting /\ task[c] = "knocking"
  /\ accepting' = FALSE
  /\ GoTo(c, "done")
  /\ open' = open \ {c}
  /\ UNCHANGED <<session, pipeline, overlapped>>

-----------------------------------------------------------------------------
(* A connection's task.                                                    *)

\* Hello read, config sent; then complete_pairing, which fails unless the
\* session is idle at this point.
Negotiated(c) ==
  /\ task[c] = "negotiating"
  /\ \/ /\ session = Idle
        /\ session' = [state |-> "CONNECTED", viewer |-> c]
        /\ GoTo(c, "connected")
     \/ /\ session # Idle
        /\ session' = session
        /\ GoTo(c, "stopping")
  /\ UNCHANGED <<open, accepting, pipeline, overlapped>>

\* No stream, no hello, an invalid hello, no common codec, or a dead connection.
NegotiationFails(c) ==
  /\ task[c] = "negotiating"
  /\ GoTo(c, "stopping")
  /\ UNCHANGED <<open, accepting, session, pipeline, overlapped>>

MutBeginStreaming(c) ==
  /\ task[c] = "connected"
  /\ session' = [session EXCEPT !.state = "STREAMING"]
  /\ GoTo(c, "encoding")
  /\ UNCHANGED <<open, accepting, pipeline, overlapped>>

\* A failed begin_streaming is only logged.
BeginStreaming(c) ==
  /\ task[c] = "connected"
  /\ session' = IF session.state = "CONNECTED" THEN [session EXCEPT !.state = "STREAMING"]
                ELSE session
  /\ GoTo(c, "encoding")
  /\ UNCHANGED <<open, accepting, pipeline, overlapped>>

\* encode.init: a new hardware session replaces whatever was there, unless
\* it cannot be created.
EncodeInit(c) ==
  /\ task[c] = "encoding"
  /\ \/ encoder' = c /\ GoTo(c, "capturing")
     \/ encoder' = encoder /\ GoTo(c, "stopping")
  /\ UNCHANGED <<open, accepting, session, capture, link, sender, halted, overlapped>>

MutCaptureStart(c) ==
  /\ task[c] = "capturing"
  /\ \/ /\ capture' = IF capture = NoConn THEN c ELSE capture
        /\ GoTo(c, "attaching")
     \/ /\ capture' = capture
        /\ GoTo(c, "done")
  /\ UNCHANGED <<open, accepting, session, encoder, link, sender, halted, overlapped>>

\* capture.start: a running capture is left as it is.
CaptureStart(c) ==
  /\ task[c] = "capturing"
  /\ \/ /\ capture' = IF capture = NoConn THEN c ELSE capture
        /\ GoTo(c, "attaching")
     \/ /\ capture = NoConn
        /\ capture' = capture
        /\ GoTo(c, "stopping")
  /\ UNCHANGED <<open, accepting, session, encoder, link, sender, halted, overlapped>>

\* The link is attached and the DataSender spawned.
Attach(c) ==
  /\ task[c] = "attaching"
  /\ link' = c
  /\ sender' = sender \cup {c}
  /\ GoTo(c, "serving")
  /\ UNCHANGED <<open, accepting, session, encoder, capture, halted, overlapped>>

MutClosed(c) ==
  /\ task[c] = "serving" /\ c \notin open
  /\ halted' = halted \cup {c}
  /\ GoTo(c, "done")
  /\ UNCHANGED <<open, accepting, session, encoder, capture, link, sender, overlapped>>

\* conn.closed() resolves.
Closed(c) ==
  /\ task[c] = "serving" /\ c \notin open
  /\ halted' = halted \cup {c}
  /\ GoTo(c, "stopping")
  /\ UNCHANGED <<open, accepting, session, encoder, capture, link, sender, overlapped>>

\* run_blocking returns: the flag is set, or every datagram is refused.
SenderExits(c) ==
  /\ c \in sender
  /\ c \in halted \/ c \notin open
  /\ sender' = sender \ {c}
  /\ UNCHANGED <<task, open, accepting, session, encoder, capture, link, halted, overlapped>>

-----------------------------------------------------------------------------
(* teardown_session, on behalf of c: three calls, each locking for itself. *)

MutStopCapture(c) ==
  /\ task[c] = "stopping"
  /\ GoTo(c, "releasing")
  /\ UNCHANGED <<open, accepting, session, encoder, capture, link, sender, halted, overlapped>>

StopCapture(c) ==
  /\ task[c] = "stopping"
  /\ capture' = NoConn
  /\ GoTo(c, "releasing")
  /\ UNCHANGED <<open, accepting, session, encoder, link, sender, halted, overlapped>>

MutReleaseEncoder(c) ==
  /\ task[c] = "releasing"
  /\ encoder' = NoConn
  /\ GoTo(c, "resetting")
  /\ UNCHANGED <<open, accepting, session, capture, link, sender, halted, overlapped>>

\* encode.shutdown also detaches the link.
ReleaseEncoder(c) ==
  /\ task[c] = "releasing"
  /\ encoder' = NoConn
  /\ link' = NoConn
  /\ GoTo(c, "resetting")
  /\ UNCHANGED <<open, accepting, session, capture, sender, halted, overlapped>>

\* session.reset, whatever the state; the task ends and drops its connection.
ResetSession(c) ==
  /\ task[c] = "resetting"
  /\ session' = Idle
  /\ GoTo(c, "done")
  /\ open' = open \ {c}
  /\ UNCHANGED <<accepting, pipeline, overlapped>>

-----------------------------------------------------------------------------
\* What the host does for c of its own accord.
HostStep(c) ==
  \/ Accept(c) \/ BeginStreaming(c) \/ EncodeInit(c) \/ CaptureStart(c)
  \/ Attach(c) \/ Closed(c)
  \/ StopCapture(c) \/ ReleaseEncoder(c) \/ ResetSession(c)

Negotiate(c) == Negotiated(c) \/ NegotiationFails(c)

Next ==
  \E c \in Conns : \/ Dial(c) \/ HangUp(c) \/ AcceptFails(c)
                   \/ Negotiate(c) \/ SenderExits(c) \/ HostStep(c)

Spec == Init /\ [][Next]_vars

\* The runtime runs every task that can move, and a negotiation with a viewer
\* that is gone ends (by the 10 s idle timeout of the transport, or sooner).
FairSpec ==
  /\ Spec
  /\ \A c \in Conns : /\ WF_vars(HostStep(c))
                      /\ WF_vars(SenderExits(c))
                      /\ WF_vars(c \notin open /\ Negotiate(c))

-----------------------------------------------------------------------------
(* What must hold however connections overlap.                             *)

Pipelined == {"capturing", "attaching", "serving", "stopping", "releasing"}

\* Nothing outlives the task it was set up for: the encoder, capture, the link
\* and the session are each held for a connection whose task has yet to reach
\* the teardown call that gives that resource back.
NothingLeaks ==
  /\ encoder # NoConn => task[encoder] \in Pipelined
  /\ capture # NoConn => task[capture] \in {"attaching", "serving", "stopping"}
  /\ link # NoConn => task[link] \in {"serving", "stopping", "releasing"}
  /\ session.viewer # NoConn =>
       task[session.viewer] \in Pipelined \cup {"connected", "encoding", "resetting"}

\* A session whose viewer is gone is given up, so that the next one is let in.
SessionFreed ==
  \A c \in Conns : (session.viewer = c /\ c \notin open) ~> (session.viewer # c)

\* Once every viewer has gone the host is idle for good: no capture, no
\* encoder, no sender, no session.
HostGoesQuiet ==
  <>[](open = {}) =>
    <>[](/\ session = Idle /\ sender = {}
         /\ {encoder, capture, link} = {NoConn})

-----------------------------------------------------------------------------
(* What a viewer can count on for as long as no two handshakes overlapped. *)

\* A viewer being served has all of it to itself: the session is STREAMING for
\* it, and the encoder, the capture and the link are the ones set up for it.
ServedWhole ==
  ~overlapped => \A c \in open : task[c] = "serving" =>
    /\ session = [state |-> "STREAMING", viewer |-> c]
    /\ encoder = c /\ capture = c /\ link = c

\* Capture never feeds a pipeline without an encoder session: submit would
\* take its fallback path and ship a zeroed frame marked as a keyframe.
NoMockFrames == ~overlapped => (capture # NoConn => encoder # NoConn)

\* One viewer at a time: two tasks never serve viewers from the one ring.
OneViewerAtATime ==
  ~overlapped => \A c, d \in Conns : (task[c] = "serving" /\ task[d] = "serving") => c = d

EndedByOwner ==
  \A c \in Conns : (session.viewer = c /\ session'.viewer # c) => task[c] = "resetting"

\* A session leaves a viewer only through that viewer's own task: teardown on
\* behalf of another connection never ends it.
OnlyOwnerEnds == [][~overlapped => EndedByOwner]_vars

-----------------------------------------------------------------------------
(* What the comments promise and overlapping or failing handshakes break.  *)

\* teardown_session leaves a session that is not its connection's alone, also
\* when handshakes overlap.
TeardownSafe == [][EndedByOwner]_vars

\* An idle host is listening for connections.
IdleListens == session = Idle => accepting
=============================================================================
