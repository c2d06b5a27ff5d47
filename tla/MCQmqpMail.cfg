SPECIFICATION Spec
CONSTANTS
  Characters <- MCCharacters
  Inputs <- MCInputs
  Addresses <- MCAddresses
  HeaderLines <- MCHeaderLines
  ReceivedLine <- MCReceivedLine
  MaxRecipients <- MCMaxRecipients
  MaxHeaders <- MCMaxHeaders
INVARIANTS
  MailsUnderstood
  AcceptedIsMail
  RelayedMail
\* A mail that was refused or relayed has come to its end.
CHECK_DEADLOCK FALSE
