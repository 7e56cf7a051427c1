--------------------------- MODULE MCViewerParts ----------------------------
(***************************************************************************)
(* The parts of the viewer on small instances.                             *)
(***************************************************************************)
EXTENDS ViewerParts

\* Two addresses of the best score, one of a lower one and one of the lowest.
MCScore == <<4, 4, 3, 1>>

\* Two streams of the same picture but for their second parameter set.
MCParameterSets ==
  { << <<64, 1, 3>>, <<66, 1>>, <<68, 0, 2>> >>,
    << <<64, 1, 3>>, <<66, 1, 0, 0, 3>>, <<68, 0, 2>> >> }

\* A NAL unit of a picture that others build on, and of a keyframe.
MCSlices == { <<2, 0, 0, 3>>, <<38, 0, 1>> }

\* Sizes that are whole blocks in neither, one or both dimensions.
Sized(w, h) == [w |-> w, h |-> h]
MCSessionSizes == {Sized(6, 6), Sized(8, 6), Sized(6, 10), Sized(8, 8)}

\* As large as a picture, of another shape, and one pixel wide.
MCWindows ==
  {Sized(6, 6), Sized(5, 6), Sized(8, 6), Sized(4, 4), Sized(9, 3), Sized(3, 7), Sized(1, 5)}

\* Ids of frames that come, and one more than the buffer may pass over.
MCFrames == 0 .. 3
=============================================================================
