SPECIFICATION FairSpec
CONSTANTS
  RelayTexts = {"output"}
  Faults = {"spawn", "waitid"}
INVARIANTS
  TypeOK
  VerdictNeedsSuccess
  ChildAccountedFor
PROPERTIES
  Finishes
  ImplementsRelay
\* A relay that was destroyed does nothing any more.
CHECK_DEADLOCK FALSE
