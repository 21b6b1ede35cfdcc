CONSTANTS
  r1 = r1  r2 = r2  q1 = q1  q2 = q2  q3 = q3
  None = None
  Run = {r1, r2}
  Request = {q1, q2, q3}
  Batch <- OneQuestion
  MaxStreams = 2
  MaxLogins = 2
  MaxKeys = 2
  Faults = TRUE
SPECIFICATION AppFairSpec
INVARIANTS AppTypeOK OwnAnswer DialogStillAsks BusyIsTrue NoSilentLoss OwnScreen
PROPERTIES AnswersWhatItShows InputReturns LoginReturns
CHECK_DEADLOCK FALSE
