------------------------- MODULE HostSessionProofs -------------------------
(***************************************************************************)
(* Proofs about HostSession, for any set of connections.                   *)
(*                                                                         *)
(* Inv holds however connections overlap.  SerialInv adds what a viewer    *)
(* can count on for as long as no two handshakes overlapped: a connection  *)
(* that is neither knocking nor over is alone (Exclusive), and what it has *)
(* set up so far is still its own (Owned).                                 *)
(***************************************************************************)
EXTENDS HostSession, TLAPS

Inv == TypeOK /\ NothingLeaks

\* Of two connections with a task or a handshake under way, one owns the
\* session and the other is still knocking.
Exclusive ==
  \A c, d \in Conns :
    (c # d /\ task[c] \notin {"away", "done"} /\ task[d] \notin {"away", "done"}) =>
      \/ session.viewer = c /\ task[d] = "knocking"
      \/ session.viewer = d /\ task[c] = "knocking"

\* Each phase of a task finds what the phases before it set up, and capture
\* never runs for anyone but the connection the encoder is configured for.
Owned ==
  /\ capture # NoConn => encoder = capture
  /\ \A c \in Conns :
      /\ task[c] = "connected" => session = [state |-> "CONNECTED", viewer |-> c]
      /\ task[c] \in {"encoding", "capturing", "attaching", "serving"} =>
           session = [state |-> "STREAMING", viewer |-> c]
      /\ task[c] \in {"capturing", "attaching", "serving"} => encoder = c
      /\ task[c] \in {"attaching", "serving"} => capture = c
      /\ task[c] = "serving" => link = c

SerialInv == Inv /\ (~overlapped => Exclusive /\ Owned)

-----------------------------------------------------------------------------
\* The initial state is idle.
LEMMA InitInv == Init => Inv
<1>1. Init => accepting \in BOOLEAN /\ overlapped \in BOOLEAN
  BY Zenon DEF Init
<1>2. Init => NothingLeaks
  BY DEF Init, NothingLeaks, Idle
<1> QED
  BY <1>1, <1>2, ConnAssumption DEF Init, Inv, TypeOK, Phase, SessionState, Idle

\* Every step keeps resources with a task that will release them.
LEMMA StepInv == Inv /\ [Next]_vars => Inv'
<1> SUFFICES ASSUME Inv, [Next]_vars PROVE Inv'
  OBVIOUS
<1> USE ConnAssumption DEF Inv, TypeOK, NothingLeaks, Phase, SessionState, Idle, GoTo,
      Pipelined, pipeline
<1>1. ASSUME NEW c \in Conns, Dial(c) PROVE Inv'
  <2>1. overlapped' \in BOOLEAN
    BY <1>1, Zenon DEF Dial
  <2>2. /\ task' = [task EXCEPT ![c] = "knocking"] /\ task[c] = "away"
        /\ open' = open \cup {c}
        /\ UNCHANGED <<accepting, session, encoder, capture, link, sender, halted>>
    BY <1>1 DEF Dial
  <2> QED
    BY <2>1, <2>2
<1>2. ASSUME NEW c \in Conns, HangUp(c) PROVE Inv'
  BY <1>2 DEF HangUp
<1>3. ASSUME NEW c \in Conns, AcceptFails(c) PROVE Inv'
  <2>1. accepting' \in BOOLEAN
    BY <1>3, Zenon DEF AcceptFails
  <2>2. /\ task' = [task EXCEPT ![c] = "done"] /\ task[c] = "knocking"
        /\ open' = open \ {c}
        /\ UNCHANGED <<session, encoder, capture, link, sender, halted, overlapped>>
    BY <1>3 DEF AcceptFails
  <2> QED
    BY <2>1, <2>2
<1>4. ASSUME NEW c \in Conns, Negotiated(c) PROVE Inv'
  BY <1>4 DEF Negotiated
<1>5. ASSUME NEW c \in Conns, NegotiationFails(c) PROVE Inv'
  BY <1>5 DEF NegotiationFails
<1>6. ASSUME NEW c \in Conns, SenderExits(c) PROVE Inv'
  BY <1>6 DEF SenderExits
<1>7. ASSUME NEW c \in Conns, Accept(c) PROVE Inv'
  BY <1>7 DEF Accept
<1>8. ASSUME NEW c \in Conns, BeginStreaming(c) PROVE Inv'
  BY <1>8 DEF BeginStreaming
<1>9. ASSUME NEW c \in Conns, EncodeInit(c) PROVE Inv'
  BY <1>9 DEF EncodeInit
<1>10. ASSUME NEW c \in Conns, CaptureStart(c) PROVE Inv'
  BY <1>10 DEF CaptureStart
<1>11. ASSUME NEW c \in Conns, Attach(c) PROVE Inv'
  BY <1>11 DEF Attach
<1>12. ASSUME NEW c \in Conns, Closed(c) PROVE Inv'
  BY <1>12 DEF Closed
<1>13. ASSUME NEW c \in Conns, StopCapture(c) PROVE Inv'
  BY <1>13 DEF StopCapture
<1>14. ASSUME NEW c \in Conns, ReleaseEncoder(c) PROVE Inv'
  BY <1>14 DEF ReleaseEncoder
<1>15. ASSUME NEW c \in Conns, ResetSession(c) PROVE Inv'
  BY <1>15 DEF ResetSession
<1>16. CASE UNCHANGED vars
  BY <1>16 DEF vars
<1> QED
  BY <1>1, <1>2, <1>3, <1>4, <1>5, <1>6, <1>7, <1>8, <1>9, <1>10, <1>11, <1>12, <1>13,
     <1>14, <1>15, <1>16 DEF Next, HostStep, Negotiate

\* Whatever the tasks do, every variable keeps its type: the session is in one
\* of its three states, and a resource belongs to a connection or to none.
THEOREM SessionTypesHold == Spec => []TypeOK
<1>1. Inv => TypeOK
  BY DEF Inv
<1> QED
  BY InitInv, StepInv, <1>1, PTL DEF Spec

\* Nothing outlives the connection it was set up for, whatever the order in
\* which any number of tasks run, fail and tear down.
THEOREM NothingEverLeaks == Spec => [](TypeOK /\ NothingLeaks)
<1>1. Inv => TypeOK /\ NothingLeaks
  BY DEF Inv
<1> QED
  BY InitInv, StepInv, <1>1, PTL DEF Spec
-----------------------------------------------------------------------------
\* With nothing under way everything is exclusive.
LEMMA InitSerialInv == Init => SerialInv
<1>1. Init => Exclusive /\ Owned
  BY DEF Init, Exclusive, Owned
<1> QED
  BY <1>1, InitInv DEF SerialInv

\* Without overlapping handshakes, no step lets a second task past knocking or
\* takes from a task what it has set up.
LEMMA StepSerialInv == SerialInv /\ [Next]_vars => SerialInv'
<1> SUFFICES ASSUME SerialInv, [Next]_vars, ~overlapped' PROVE Exclusive' /\ Owned'
  BY StepInv DEF SerialInv
<1>0. Inv /\ ~overlapped /\ Exclusive /\ Owned
  <2>1. ASSUME NEW c \in Conns, Dial(c) PROVE ~overlapped
    BY <2>1, Zenon DEF Dial
  <2>2. (\E c \in Conns : Dial(c)) \/ UNCHANGED overlapped
    BY DEF Next, HostStep, Negotiate, vars, HangUp, AcceptFails, Negotiated,
       NegotiationFails, SenderExits, Accept, BeginStreaming, EncodeInit, CaptureStart,
       Attach, Closed, StopCapture, ReleaseEncoder, ResetSession
  <2>3. ~overlapped
    BY <2>1, <2>2, Zenon
  <2> QED
    BY <2>3, Zenon DEF SerialInv
<1> USE <1>0, ConnAssumption DEF Inv, TypeOK, NothingLeaks, Phase, SessionState, Idle,
      GoTo, Pipelined, pipeline, Exclusive, Owned
<1>1. ASSUME NEW c \in Conns, Dial(c) PROVE Exclusive' /\ Owned'
  <2>1. Alone(c)
    BY <1>1, Zenon DEF Dial
  <2>2. /\ task' = [task EXCEPT ![c] = "knocking"] /\ task[c] = "away"
        /\ UNCHANGED <<session, encoder, capture, link>>
    BY <1>1 DEF Dial
  <2> QED
    BY <2>1, <2>2 DEF Alone
<1>2. ASSUME NEW c \in Conns, HangUp(c) PROVE Exclusive' /\ Owned'
  BY <1>2 DEF HangUp
<1>3. ASSUME NEW c \in Conns, AcceptFails(c) PROVE Exclusive' /\ Owned'
  <2>1. /\ task' = [task EXCEPT ![c] = "done"] /\ task[c] = "knocking"
        /\ UNCHANGED <<session, encoder, capture, link, sender, halted>>
    BY <1>3 DEF AcceptFails
  <2> QED
    BY <2>1
<1>4. ASSUME NEW c \in Conns, Negotiated(c) PROVE Exclusive' /\ Owned'
  BY <1>4 DEF Negotiated
<1>5. ASSUME NEW c \in Conns, NegotiationFails(c) PROVE Exclusive' /\ Owned'
  BY <1>5 DEF NegotiationFails
<1>6. ASSUME NEW c \in Conns, SenderExits(c) PROVE Exclusive' /\ Owned'
  BY <1>6 DEF SenderExits
<1>7. ASSUME NEW c \in Conns, Accept(c) PROVE Exclusive' /\ Owned'
  BY <1>7 DEF Accept
<1>8. ASSUME NEW c \in Conns, BeginStreaming(c) PROVE Exclusive' /\ Owned'
  BY <1>8 DEF BeginStreaming
<1>9. ASSUME NEW c \in Conns, EncodeInit(c) PROVE Exclusive' /\ Owned'
  BY <1>9 DEF EncodeInit
<1>10. ASSUME NEW c \in Conns, CaptureStart(c) PROVE Exclusive' /\ Owned'
  BY <1>10 DEF CaptureStart
<1>11. ASSUME NEW c \in Conns, Attach(c) PROVE Exclusive' /\ Owned'
  BY <1>11 DEF Attach
<1>12. ASSUME NEW c \in Conns, Closed(c) PROVE Exclusive' /\ Owned'
  BY <1>12 DEF Closed
<1>13. ASSUME NEW c \in Conns, StopCapture(c) PROVE Exclusive' /\ Owned'
  BY <1>13 DEF StopCapture
<1>14. ASSUME NEW c \in Conns, ReleaseEncoder(c) PROVE Exclusive' /\ Owned'
  BY <1>14 DEF ReleaseEncoder
<1>15. ASSUME NEW c \in Conns, ResetSession(c) PROVE Exclusive' /\ Owned'
  BY <1>15 DEF ResetSession
<1>16. CASE UNCHANGED vars
  BY <1>16 DEF vars
<1> QED
  BY <1>1, <1>2, <1>3, <1>4, <1>5, <1>6, <1>7, <1>8, <1>9, <1>10, <1>11, <1>12, <1>13,
     <1>14, <1>15, <1>16 DEF Next, HostStep, Negotiate

\* What the exclusive ownership of SerialInv gives a viewer.
LEMMA SerialInvServes == SerialInv => ServedWhole /\ OneViewerAtATime /\ NoMockFrames
<1> SUFFICES ASSUME SerialInv, ~overlapped
             PROVE  ServedWhole /\ OneViewerAtATime /\ NoMockFrames
  BY Zenon DEF ServedWhole, OneViewerAtATime, NoMockFrames
<1> USE ConnAssumption DEF SerialInv, Inv, TypeOK, NothingLeaks, Exclusive, Owned, Pipelined
<1>1. ServedWhole
  BY DEF ServedWhole
<1>2. OneViewerAtATime
  BY DEF OneViewerAtATime
<1>3. NoMockFrames
  BY DEF NoMockFrames
<1> QED
  BY <1>1, <1>2, <1>3

\* When no two handshakes overlap, a viewer is served alone and whole: its
\* session, encoder, capture and link are its own until it leaves, and no frame
\* is captured for an encoder that is gone.
THEOREM ServedAlone == Spec => [](ServedWhole /\ OneViewerAtATime /\ NoMockFrames)
BY InitSerialInv, StepSerialInv, SerialInvServes, PTL DEF Spec

\* Only a task that reached its own session.reset takes the session away.
LEMMA StepOwnerEnds == SerialInv /\ [Next]_vars => (~overlapped => EndedByOwner)
<1> SUFFICES ASSUME SerialInv, [Next]_vars, ~overlapped,
                    NEW c \in Conns, session.viewer = c, session'.viewer # c
             PROVE  task[c] = "resetting"
  BY DEF EndedByOwner
<1> USE ConnAssumption DEF SerialInv, Inv, TypeOK, NothingLeaks, SessionState, Idle, Pipelined
<1>1. session # Idle
  OBVIOUS
<1>2. PICK d \in Conns : Negotiated(d) \/ BeginStreaming(d) \/ ResetSession(d)
  BY DEF Next, vars, HostStep, Negotiate, Dial, HangUp, AcceptFails, NegotiationFails,
         SenderExits, Accept, EncodeInit, CaptureStart, Attach, Closed, StopCapture,
         ReleaseEncoder
<1>3. CASE Negotiated(d)
  BY <1>1, <1>3 DEF Negotiated
<1>4. CASE BeginStreaming(d)
  BY <1>4 DEF BeginStreaming
<1>5. CASE ResetSession(d)
  <2>1. task[d] = "resetting"
    BY <1>5 DEF ResetSession
  <2>2. task[c] \notin {"away", "knocking", "done"}
    OBVIOUS
  <2> QED
    BY <2>1, <2>2 DEF Exclusive
<1> QED
  BY <1>2, <1>3, <1>4, <1>5

\* When no two handshakes overlap, teardown on behalf of one connection never
\* ends the session of another.
THEOREM OwnerEndsSession == Spec => OnlyOwnerEnds
<1>1. Spec => []SerialInv
  BY InitSerialInv, StepSerialInv, PTL DEF Spec
<1>2. SerialInv /\ [Next]_vars => [~overlapped => EndedByOwner]_vars
  BY StepOwnerEnds
<1> QED
  BY <1>1, <1>2, PTL DEF Spec, OnlyOwnerEnds
=============================================================================
