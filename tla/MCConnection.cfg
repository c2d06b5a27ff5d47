SPECIFICATION FairSpec
CONSTANTS
  c1 = c1
  c2 = c2
  Connections = {c1, c2}
  LogServer = TRUE
  RelayTexts <- MCRelayTexts
  ScriptTimeouts <- MCScriptTimeouts
  TickLength <- MCTickLength
INVARIANTS
  TypeOK
  AssertionsHold
  CallbacksExpected
  LoggedOnce
  AnswerIsVerdict
PROPERTIES
  HandedOverOnce
  ImplementsSubmission
  TimeoutCancels
\* Every connection may come to its end.
CHECK_DEADLOCK FALSE
