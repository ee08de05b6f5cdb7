SPECIFICATION FairSpec
CONSTANTS
  r1 = r1  r2 = r2
  Runs = {r1, r2}
  MaxTurns = 3  MaxRetries = 3  MaxTokens = 1  MaxCalls = 2
  Outputs = {"failed"}
  Scenarios <- RegularVerifiedAndFaulty
INVARIANTS QuotaHolds SuspendedWaits TurnsClosed
PROPERTIES CallsAnswered PausedStartsNothing FailuresFollowedUp Terminates
CHECK_DEADLOCK FALSE
