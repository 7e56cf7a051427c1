SPECIFICATION Spec
CONSTANTS
  Submitters = {capture, refine}
  RingCapacity = 3
  Backlog = 2
  MaxCoding = 2
SYMMETRY SubmitterSymmetry
INVARIANTS TypeOK KeyframeOwed BreaksOnlyAfterKeyframe
