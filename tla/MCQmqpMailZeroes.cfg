SPECIFICATION Spec
CONSTANTS
  Characters <- MCCharacters
  Inputs <- MCInputs
  Addresses <- MCAddresses
  HeaderLines <- MCHeaderLines
  ReceivedLine <- MCReceivedLine
  MaxRecipients <- MCMaxRecipients
  MaxHeaders <- MCMaxHeaders
INVARIANTS
  LeadingZeroesRejected
\* A mail that was refused or relayed has come to its end.
CHECK_DEADLOCK FALSE
