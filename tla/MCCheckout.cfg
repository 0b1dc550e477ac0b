SPECIFICATION CheckoutSpec
CONSTANTS
  Tabs = {t1}
  Carts = {c1, c2}
  MaxRequests = 3
  Stock = 2
INVARIANTS CheckoutTypeOK OneOrderPerPurchase ConfirmedIsReal NothingStaysReserved
PROPERTIES RefusedHasNoOrder AttemptsEnd
CHECK_DEADLOCK FALSE
