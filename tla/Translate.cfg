CONSTANTS
  MaxMessages = 5
  MaxBlocks = 2
  Text = Text
  None = None
SPECIFICATION Spec
INVARIANTS PendingIsWaiting ResultsReachTheirCall EventsNest FlagIsTrue
PROPERTY ImplementsToolStream
CHECK_DEADLOCK FALSE
