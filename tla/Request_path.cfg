SPECIFICATION PathSpec
CONSTANTS
  IPs = {"a"}
  Limit = 2
  Window = 3
  Second = 2
  MaxTime = 10
  Messages = {"m"}
  First = 1
  Thereafter = 3
  Interval = 3
  MaxWait = 1
  LogTime = 8
  MaxRecords = 8
  WriteTimeout = 10
  ShutdownTimeout = 10
  ClientTimeout = 10
  MaxRetries = 3
  MaxResetWait = 120
  MaxBackoffAttempt = 2
  DialTimeout = 30
  PublishTimeout = 5
  SagaTimeout = 30
  Lengths = {0, 1, 9}
  Stalls = {0, 100}
  RetryAfters = {0, 60}
  Resets <- MCResets
  MaxRequests = 2
CHECK_DEADLOCK FALSE
CONSTANT Parts = {"limiter", "sampler", "subscribe"}
INVARIANT PartsInv WindowsBound TurnedAwayWasOver RetryAfterHonest HandlerBounded NotFoundIsTrue
