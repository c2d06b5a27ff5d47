SPECIFICATION FairSpec
CONSTANTS
  Clients = {c1, c2}
  SystemdFds = 2
  MaxListens = 2
INVARIANTS
  TypeOK
  SocketsAdoptedOnce
  ReadyToServe
  CleanEnd
PROPERTIES
  ShutdownEnds
\* The process has ended.
CHECK_DEADLOCK FALSE
