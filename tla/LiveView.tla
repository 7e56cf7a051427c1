------------------------------- MODULE LiveView -------------------------------
(***************************************************************************)
(* What the viewer's window promises, whatever decoder, queue and renderer *)
(* are behind it: it takes up frames of the session in progress only, each *)
(* newer than the one in view, and shows them one at a time.  A frame is   *)
(* identified by its session and its place in it.                          *)
(***************************************************************************)
EXTENDS Naturals, Sequences

VARIABLES
  live,     \* the session in progress, or the last one
  on,       \* whether it is in progress
  taken,    \* the frame taken up and not shown yet, <<>> for none
  view      \* the frame in view

vars == <<live, on, taken, view>>

Blank == [session |-> 0, id |-> 0]

Newer(f, g) ==
  \/ f.session > g.session
  \/ f.session = g.session /\ f.id > g.id

Init == live = 0 /\ on = FALSE /\ taken = <<>> /\ view = Blank

Begin == ~on /\ live' = live + 1 /\ on' = TRUE /\ UNCHANGED <<taken, view>>

End == on /\ on' = FALSE /\ UNCHANGED <<live, taken, view>>

\* Of the session in progress, and newer than what is in view.
Take ==
  /\ on /\ taken = <<>>
  /\ taken' # <<>> /\ Tail(taken') = <<>>
  /\ taken'[1].session = live /\ Newer(taken'[1], view)
  /\ UNCHANGED <<live, on, view>>

Show ==
  /\ taken # <<>>
  /\ taken' = <<>> /\ view' = taken[1]
  /\ UNCHANGED <<live, on>>

\* The renderer fails, and the frame is lost.
Lose ==
  /\ taken # <<>>
  /\ taken' = <<>>
  /\ UNCHANGED <<live, on, view>>

Next == Begin \/ End \/ Take \/ Show \/ Lose

Spec == Init /\ [][Next]_vars
=============================================================================
