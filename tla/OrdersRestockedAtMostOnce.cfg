SPECIFICATION Spec
CONSTANTS
  Orders = {o1}
  Requests = {r1, r2, r3}
  MaxEvents = 2
  MaxCancels = 2
INVARIANT RestockedAtMostOnce
