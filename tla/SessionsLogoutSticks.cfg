SPECIFICATION SessionsSpec
CONSTANTS
  Tabs = {t1}
  MaxTokens = 3
  MaxEvents = 2
INVARIANT LogoutSticks
CHECK_DEADLOCK FALSE
