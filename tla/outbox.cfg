SPECIFICATION Spec
CONSTANTS
  Mails = {m1, m2}
  Workers = {w1, w2}
  NoWorker = NoWorker
  DeadWorker = DeadWorker
  RedisOpen = {FALSE}
  MaxAttempts = 2
  BatchSize = 2
  MaxFailures = 1
SYMMETRY OutboxSymmetry
INVARIANTS
  SentWasAccepted
  SecondCopyHasReason
  WaitingHasAttempts
PROPERTIES
  SentIsFinal
