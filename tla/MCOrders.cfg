CONSTANTS
  Orders = {o1}
  Requests = {r1, r2, r3}
  MaxEvents = 4
  MaxCancels = 2
SPECIFICATION Spec
SYMMETRY Symmetry
INVARIANTS
  TypeOK
  EventTrail
  CancelledIsSettled
  ReversalsAreSystem
  SettlementsHappenOnce
  DeliveredWasShipped
PROPERTY ImplementsSettlement
