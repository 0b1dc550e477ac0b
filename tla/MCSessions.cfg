SPECIFICATION SessionsSpec
CONSTANTS
  Tabs = {t1, t2}
  MaxTokens = 3
  MaxEvents = 2
INVARIANTS
  SessionsTypeOK
  CookieExplained
  AnsweredLogoutEnds
  AppPagesAreSignedIn
PROPERTIES
  WaitsEnd
CHECK_DEADLOCK FALSE
