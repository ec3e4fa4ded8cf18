SPECIFICATION LifeSpec
CONSTANTS
  Requests = {"q1", "q2"}
  MonolithFaults = 1
  NotifierFaults = 2
  Instances = {i1, i2}
  i1 = i1
  i2 = i2
  Nobody = Nobody
  Last = 2
  MigrationFaults = 2
  Callers = {c1, c2, c3}
  c1 = c1
  c2 = c2
  c3 = c3
  NoCaller = NoCaller
  MaxFaults = 2
CHECK_DEADLOCK FALSE
INVARIANT PartsInv NothingLeftOpen CleanExitAnswered WorkKeepsResources
INVARIANT SchemaBeforeServing FailsForACause NoLeak
PROPERTY ConsumersComeBack ProcessesExit StrayIsClosed RedialKept PublishCallsReturn
