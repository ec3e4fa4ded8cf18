SPECIFICATION FairSpec
CONSTANTS
  SagaCommands = {"s1"}
  EmailCommands = {"e1"}
  Calls = {}
  Keys = {"k1", "k2"}
  KeyOf <- MCKeyOf
  Form <- MCForm
  StatementsOpen = FALSE
  Outcomes = {"ok"}
  MaxFaults = 0
CHECK_DEADLOCK FALSE
PROPERTY CommandsSettle
