SPECIFICATION MCSpec
CHECK_DEADLOCK FALSE
CONSTANTS
  c1 = c1
  c2 = c2
  s1 = s1
  s2 = s2
  None = None
  Conns <- TwoConns
  Senders <- TwoSenders
  SmtpSenders <- OneSender
  MaxEvents = 2
  Stalls = TRUE
  m1 = m1
  m2 = m2
  ViewedMails = {m1, m2}
  BodyVersions <- MCBodyVersions
  RoutedTabs = {"none", "headers"}
  NoMail = NoMail
  ViewCalls = 2
  ViewActs = 3
  ReleaseMails = {m1, m2}
  ReleaseCalls = 3
  ReleaseActs = 4
SYMMETRY Symmetry
INVARIANTS
  HubKnowsTheServed
  NoWriteDuringClose
  AtMostOnce
  ViewAgrees
  ReleasesWhatIsShown
