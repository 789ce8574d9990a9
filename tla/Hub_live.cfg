SPECIFICATION FairSpec
CHECK_DEADLOCK FALSE
CONSTANTS
  c1 = c1
  c2 = c2
  s1 = s1
  s2 = s2
  None = None
  Conns <- TwoConns
  Senders <- OneSender
  SmtpSenders <- OneSender
  MaxEvents = 2
  Stalls = FALSE
INVARIANT NoneMissed
PROPERTIES
  Hears
  BroadcastEnds
  GoneIsReleased
