CONSTANTS
  Requests = {ask, tool}
  Questions = {ask}
  Tabs = {laptop, phone}
  NoRequest = NoRequest
SPECIFICATION FairSpec
CHECK_DEADLOCK FALSE
INVARIANTS TypeOK CardsMatchWaiters
PROPERTIES CardsAreDecisions WaitersGoOn
