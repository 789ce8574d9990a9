SPECIFICATION Spec
CHECK_DEADLOCK FALSE
CONSTANTS
  m1 = m1
  page = page
  caller = caller
  Mails = {m1}
  Clients = {page, caller}
  Pages = {page}
  SearchFails = TRUE
  MaxCalls = 2
  MaxActs = 3
INVARIANTS
  TypeOK
  ListIsCurrent
  SelectionIsRecent
