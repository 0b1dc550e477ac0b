SPECIFICATION CartsSpec
CONSTANTS
  Stores = {"default", "shop"}
  CartTabs = {t1}
  CartDays = 1
  CartTtl = 0
  MaxVisits = 4
INVARIANT CartNeverBleeds
CHECK_DEADLOCK FALSE
