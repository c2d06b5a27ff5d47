SPECIFICATION FairSpec
CONSTANTS
  RelayTexts = {"output"}
  RequestSize = 3
INVARIANTS
  ReportIsTrue
PROPERTIES
  Finishes
  ImplementsRelay
\* A relay that was destroyed does nothing any more.
CHECK_DEADLOCK FALSE
