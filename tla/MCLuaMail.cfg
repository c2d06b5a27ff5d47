\* Scripts may assign the sender of a mail that is being relayed, but not twice.
SPECIFICATION Spec
CONSTANTS
  c1 = c1
  c2 = c2
  s1 = s1
  s2 = s2
  Connections = {c1, c2}
  Senders = {s1, s2}
  MaxHeaders = 2
  MaxBuffers = 11
  MaxEdits = 2
  MaxExec = 2
  MaxEnv = 1
  LateEdits = {"insert_header", "sender"}
SYMMETRY Symmetry
INVARIANTS
  TypeOK
  NothingDangles
  DetachedWhenGone
  SentAsDecided
  ExecAsGiven
\* All connections may be gone.
CHECK_DEADLOCK FALSE
