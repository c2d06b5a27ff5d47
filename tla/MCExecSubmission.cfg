SPECIFICATION FairSpec
CONSTANTS
  Client = client
  RelayTexts = {"output"}
  LogServer = TRUE
  ScriptTimeouts = {1, 2}
  TickLength = 2
  Faults = {"spawn", "waitid"}
INVARIANTS
  AnswerIsBacked
PROPERTIES
  ChildEnds
  TimeoutEndsAll
  ImplementsConnection
\* The submission comes to its end.
CHECK_DEADLOCK FALSE
