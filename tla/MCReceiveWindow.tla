-------------------------- MODULE MCReceiveWindow --------------------------
(* ReceiveWindow on a short stream, for TLC. *)
EXTENDS ReceiveWindow

\* Fragment i of the n of frame f, flagged as the host's packetizer flags it.
Frag(f, i, n, key) ==
  [frame |-> f, frag |-> i, total |-> n,
   first |-> i = 0, last |-> i = n - 1, key |-> key]

Whole(f, n, key) == {Frag(f, i, n, key) : i \in 0 .. (n - 1)}

\* K1 P2 K3 P4 P5; P2 and K3 in two fragments.
MCStream == Whole(1, 1, TRUE) \cup Whole(2, 2, FALSE) \cup Whole(3, 2, TRUE)
            \cup Whole(4, 1, FALSE) \cup Whole(5, 1, FALSE)

\* The same with P2 also claimed to be of one fragment, and a header that lies
\* about being the last of its frame.
MCHeaders == MCStream \cup {Frag(2, 0, 1, FALSE),
                            [Frag(4, 0, 2, FALSE) EXCEPT !.last = TRUE]}
=============================================================================
