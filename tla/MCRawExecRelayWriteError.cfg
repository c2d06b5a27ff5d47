SPECIFICATION Spec
CONSTANTS
  MailSize <- MCMailSize
  PipeSize <- MCPipeSize
  BufferSize <- MCBufferSize
  DiscardSize <- MCDiscardSize
  MaxOutput <- MCMaxOutput
  RelayTexts <- MCRelayTexts
  Faults = {}
INVARIANTS
  SuccessIsAccepted
\* A relay that was destroyed does nothing any more.
CHECK_DEADLOCK FALSE
