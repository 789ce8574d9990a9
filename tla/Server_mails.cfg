SPECIFICATION MCSpec
CHECK_DEADLOCK FALSE
CONSTANTS
  m1 = m1
  m2 = m2
  h1 = h1
  w1 = w1
  Mails = {m1, m2}
  Unreadable = {m2}
  Relays <- RelayNames
  Relay <- RelayTable
  Requests = {h1}
  Waiters = {w1}
  Puts <- SettingsAsked
  Queries <- Wanted
  Batches <- Named
  MaxSettings = 3
  StoreFails = TRUE
  Lines <- MCLines
  MaxLines = 4
  Senders <- MCSenders
INVARIANTS
  AcceptedIsComplete
  RefusedGoesNowhere
  RatesAreObeyed
  ReleaseIsExact
  WaitIsHonest
  RewriteIsExact
PROPERTIES
  SendersAreAnswered
  WaitersAreAnswered
