SPECIFICATION FairSpec
CONSTANTS
  Mails = {m1}
  Workers = {w1, w2}
  NoWorker = NoWorker
  DeadWorker = DeadWorker
  RedisOpen = {TRUE}
  MaxAttempts = 2
  BatchSize = 1
  MaxFailures = 1
PROPERTIES
  EveryMailSettles
