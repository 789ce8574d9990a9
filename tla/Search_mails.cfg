SPECIFICATION MCSpec
CHECK_DEADLOCK FALSE
CONSTANTS
  Headers <- MCHeaders
  MaxNodes = 5
  Pieces <- MCPieces
  Envelopes <- MCEnvelopes
  Now <- MCNow
  MaxMinutes = 153722867
  SearchNodes = 2
  MaxPieces = 3
  m1 = m1
  m2 = m2
  m3 = m3
  PagedMails = {m1, m2, m3}
  Date <- MCDate
  DateText <- MCDateText
  Searchers = {"MEMORY", "FILESYSTEM", "SQLITE", "SQLITE filtered"}
  PageSize = 2
  MaxInt = 7
  Addresses = {0, 5}
  PagerCalls = 2
  PagerActs = 3
INVARIANTS
  PagerIsCurrent
  WalkMissesNone
  AttachmentsAgree
  TabsHaveBodies
  PreviewIsFirstText
  SiblingsAreShown
  LinksLead
  AgesAreOrdered
PROPERTY
  TypingNarrows
