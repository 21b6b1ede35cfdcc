CONSTANTS
  r1 = r1  r2 = r2  q1 = q1  q2 = q2  q3 = q3
  None = None
  Run = {r1, r2}
  Request = {q1, q2, q3}
  Batch <- Parallel
  MaxStreams = 3
  Faults = FALSE
SPECIFICATION Spec
SYMMETRY Interchangeable
INVARIANT PausedOnConfirm
CHECK_DEADLOCK FALSE
