SPECIFICATION FairSpec
CONSTANTS
  MailSize <- MCMailSize
  PipeSize <- MCPipeSize
  BufferSize <- MCBufferSize
  DiscardSize <- MCDiscardSize
  MaxOutput <- MCMaxOutput
  RelayTexts <- MCRelayTexts
  Faults = {"spawn", "waitid", "read"}
INVARIANTS
  TypeOK
  VerdictIsExitStatus
  OutputComplete
  ChildAccountedFor
PROPERTIES
  OutputDrained
  Finishes
  ImplementsRelay
\* A relay that was destroyed does nothing any more.
CHECK_DEADLOCK FALSE
