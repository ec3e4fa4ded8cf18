SPECIFICATION FairSpec
CONSTANTS
  N = 2
  Consumer = Consumer
  Reaper = Reaper
  ReaperBatch = 1
  Outcomes = {"ok", "lost", "late"}
  MaxFaults = 2
  MaxCopies = 2
CONSTRAINT OneOrCalm
INVARIANT IInv OkIsFinal NoLostWakeup FailedNotCompleted
PROPERTY ImplementsLifecycle CallersReturn AwaitingIsLeft
