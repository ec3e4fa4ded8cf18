SPECIFICATION Spec
CONSTANTS
  N = 1
  Consumer = Consumer
  Reaper = Reaper
  ReaperBatch = 1
  Outcomes = {"ok", "lost", "late"}
  MaxFaults = 1
  MaxCopies = 1
INVARIANT FailedIsNoSuccess
