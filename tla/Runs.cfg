CONSTANTS
  r1 = r1  r2 = r2  q1 = q1  q2 = q2  q3 = q3
  None = None
  Run = {r1, r2}
  Request = {q1, q2, q3}
  Batch <- Mixed
  MaxStreams = 3
  Faults = TRUE
SPECIFICATION Spec
SYMMETRY Interchangeable
INVARIANTS FlagsBounded PausedIsAsked AnsweredOnce GateIsExact OneTerminal
PROPERTY ImplementsChat
CHECK_DEADLOCK FALSE
