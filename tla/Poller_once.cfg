SPECIFICATION FairSpec
CONSTANTS
  Repos = {"r1"}
  Emails = {1, 2, 3}
  MaxTag = 2
  NotifyWorkers = 2
  MaxRetries = 1
  MaxFaults = 2
INVARIANT IInv AtMostOnce
PROPERTY EventuallySeen SubscribersNotified PollerStops
