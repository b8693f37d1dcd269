SPECIFICATION FairSpec
CONSTANTS
  Requests = {q1, q2}
  Idle = Idle
  MaxSessions = 3
  MaxVerifyTokens = 3
  MaxResetTokens = 1
  MaxPasswords = 1
  MaxFailures = 1
CHECK_DEADLOCK FALSE
INVARIANTS
  TypeOK
  SurvivorsWereInFlight
  DeactivatedIsOut
  RotationKeepsSession
  ResendThrottled
PROPERTY
  AccountSettles
