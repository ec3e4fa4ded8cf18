SPECIFICATION FairSpec
CONSTANTS
  SagaCommands = {"s1", "s2", "s3"}
  EmailCommands = {"e1", "e2"}
  Calls = {"c1"}
  Keys = {"k1", "k2"}
  KeyOf <- MCKeyOf
  Form <- MCForm
  StatementsOpen = TRUE
  Outcomes = {"ok", "lost", "late"}
  MaxFaults = 2
CHECK_DEADLOCK FALSE
INVARIANT IInv DuplicatesPaid
PROPERTY ImplementsLedger CommandsSettle
