---------------------------- MODULE OrdersProofs ----------------------------
(***************************************************************************)
(* Proofs about Orders for any sets of orders and requests and any bounds. *)
(***************************************************************************)
EXTENDS OrdersInvariant, TLAPS

\* Where a settled payment may be, and that it stays there.
LEMMA SettlementFacts ==
  ASSUME NEW p \in PaymentStatus
  PROVE  /\ SettledPayment(p) \in Settled
         /\ SettledPayment(p) \in PaymentStatus
         /\ SettledPayment(p) # p => CanTransition(p, SettledPayment(p))
         /\ SettledPayment(p) # p =>
              SettledPayment(p) \in {"cancelled", "refund_pending"}
         /\ SettledPayment(p) = p <=> p \in Settled
         /\ \A q \in PaymentStatus :
              p \in Settled /\ CanTransition(p, q) => q = "refunded"
BY DEF PaymentStatus, SettledPayment, Settled, CanTransition,
       AllowedTransitions

\* The type of a loaded request, by its kind.
LEMMA LoadedFacts ==
  ASSUME NEW q \in Loaded \cup {Idle}
  PROVE  /\ q.kind = "status" =>
              q.order \in Orders /\ q.target \in OrderStatus /\ q.seen \in OrderStatus
         /\ q.kind = "payment" =>
              q.order \in Orders /\ q.target \in PaymentStatus
                                 /\ q.seen \in PaymentStatus
         /\ q \in Loaded => q.kind \in {"status", "payment"}
         /\ Idle.kind = "idle"
BY DEF Loaded, Idle

\* Finishing a request leaves every other one as it is.
LEMMA FinishFacts ==
  ASSUME TypeOK, NEW r \in Requests, Finish(r)
  PROVE  /\ req'[r] = Idle /\ req'[r].kind = "idle"
         /\ \A s \in Requests \ {r} : req'[s] = req[s]
BY DEF TypeOK, Finish, Idle

\* MovePayment changes the money of one order, consistently typed.
LEMMA MovePaymentType ==
  ASSUME TypeOK, NEW o \in Orders, NEW to \in PaymentStatus,
         NEW src \in {"manual", "system"}, payment[o] \in PaymentStatus,
         MovePayment(o, to, src)
  PROVE  /\ payment' \in [Orders -> PaymentStatus \cup {"none"}]
         /\ paidAt' \in [Orders -> BOOLEAN]
         /\ refundedAt' \in [Orders -> BOOLEAN]
         /\ events' \in [Orders -> Seq(Event)]
<1> DEFINE e == [prev |-> payment[o], new |-> to, source |-> src]
<1>1. e \in Event
  BY DEF Event
<1>2. Append(events[o], e) \in Seq(Event)
  BY <1>1 DEF TypeOK
<1>3. events' \in [Orders -> Seq(Event)]
  BY <1>2 DEF TypeOK, MovePayment
<1>4. QED
  BY <1>3 DEF TypeOK, MovePayment

\* Loading a request records the order as it is, and changes nothing else.
LEMMA LoadFacts ==
  ASSUME TypeOK, NEW r \in Requests, Load(r)
  PROVE  /\ UNCHANGED <<status, method, shippedAt, restocks>>
         /\ UNCHANGED <<payment, paidAt, refundedAt, events>>
         /\ \A s \in Requests \ {r} : req'[s] = req[s]
         /\ req'[r].order \in Orders
         /\ status[req'[r].order] # "absent"
         /\ req'[r].kind = "status" => req'[r].seen = status[req'[r].order]
         /\ req'[r].kind = "payment" => req'[r].seen = payment[req'[r].order]
<1>1. ASSUME NEW o \in Orders, NEW t \in OrderStatus, LoadForStatus(r, o, t)
      PROVE  /\ \A s \in Requests \ {r} : req'[s] = req[s]
             /\ req'[r].order \in Orders
             /\ status[req'[r].order] # "absent"
             /\ req'[r].kind = "status"
             /\ req'[r].seen = status[req'[r].order]
  <2>1. req'[r] = [kind |-> "status", order |-> o, target |-> t, seen |-> status[o]]
    BY <1>1 DEF LoadForStatus, TypeOK
  <2>2. req'[r].order = o /\ req'[r].kind = "status" /\ req'[r].seen = status[o]
    BY <2>1
  <2>3. QED
    BY <1>1, <2>2 DEF LoadForStatus, TypeOK
<1>2. ASSUME NEW o \in Orders, NEW t \in PaymentStatus, LoadForPayment(r, o, t)
      PROVE  /\ \A s \in Requests \ {r} : req'[s] = req[s]
             /\ req'[r].order \in Orders
             /\ status[req'[r].order] # "absent"
             /\ req'[r].kind = "payment"
             /\ req'[r].seen = payment[req'[r].order]
  <2>1. req'[r] = [kind |-> "payment", order |-> o, target |-> t, seen |-> payment[o]]
    BY <1>2 DEF LoadForPayment, TypeOK
  <2>2. req'[r].order = o /\ req'[r].kind = "payment" /\ req'[r].seen = payment[o]
    BY <2>1
  <2>3. QED
    BY <1>2, <2>2 DEF LoadForPayment, TypeOK
<1>3. /\ UNCHANGED <<status, method, shippedAt, restocks>>
      /\ UNCHANGED <<payment, paidAt, refundedAt, events>>
  BY DEF Load, LoadForStatus, LoadForPayment, money
<1>4. QED
  BY <1>1, <1>2, <1>3 DEF Load

LEMMA InitWellFormed == Init => WellFormed
BY DEF Init, WellFormed, TypeOK, Existing, RequestsExist, Loaded,
     Idle, OrderStatus, DeliveryMethod, PaymentStatus, Event

LEMMA NextWellFormed == WellFormed /\ [Next]_vars => WellFormed'
<1> SUFFICES ASSUME WellFormed, [Next]_vars
             PROVE  WellFormed'
  OBVIOUS
<1> USE DEF WellFormed
<1>1. CASE UNCHANGED vars
  BY <1>1 DEF vars, money, TypeOK, Existing, RequestsExist
<1>2. ASSUME NEW o \in Orders, NEW m \in DeliveryMethod, Checkout(o, m)
      PROVE  WellFormed'
  BY <1>2 DEF Checkout, TypeOK, Existing, RequestsExist, OrderStatus,
              PaymentStatus, DeliveryMethod
<1>3. ASSUME NEW o \in Orders, PdvSale(o)
      PROVE  WellFormed'
  <2> DEFINE e == [prev |-> "pending", new |-> "paid", source |-> "system"]
  <2>1. e \in Event
    BY DEF Event, PaymentStatus
  <2>2. events' \in [Orders -> Seq(Event)]
    BY <1>3, <2>1 DEF PdvSale, TypeOK
  <2>3. QED
    BY <1>3, <2>2 DEF PdvSale, TypeOK, Existing, RequestsExist, OrderStatus,
                      PaymentStatus, DeliveryMethod
<1>4. ASSUME NEW r \in Requests, NEW o \in Orders, NEW t \in OrderStatus,
             LoadForStatus(r, o, t)
      PROVE  WellFormed'
  <2>1. [kind |-> "status", order |-> o, target |-> t, seen |-> status[o]]
          \in Loaded
    BY <1>4 DEF LoadForStatus, TypeOK, Loaded
  <2>2. QED
    BY <1>4, <2>1 DEF LoadForStatus, TypeOK, Existing, RequestsExist, money
<1>5. ASSUME NEW r \in Requests, NEW o \in Orders, NEW t \in PaymentStatus,
             LoadForPayment(r, o, t)
      PROVE  WellFormed'
  <2>1. [kind |-> "payment", order |-> o, target |-> t, seen |-> payment[o]]
          \in Loaded
    BY <1>5 DEF LoadForPayment, TypeOK, Existing, Loaded
  <2>2. QED
    BY <1>5, <2>1 DEF LoadForPayment, TypeOK, Existing, RequestsExist, money
<1>6. ASSUME NEW r \in Requests,
             \/ StatusUnchanged(r) \/ CancelTooLate(r) \/ PaymentUnchanged(r)
      PROVE  WellFormed'
  BY <1>6 DEF StatusUnchanged, CancelTooLate, PaymentUnchanged, Finish, money,
              TypeOK, Existing, RequestsExist
<1>7. ASSUME NEW r \in Requests, Send(r)
      PROVE  WellFormed'
  BY <1>7, LoadedFacts DEF Send, MayMoveTo, Finish, money, TypeOK, Existing,
              RequestsExist, OrderStatus, Idle
<1>8. ASSUME NEW r \in Requests, Deliver(r)
      PROVE  WellFormed'
  BY <1>8, LoadedFacts DEF Deliver, MayMoveTo, Finish, money, TypeOK, Existing,
              RequestsExist, OrderStatus, Idle
<1>9. ASSUME NEW r \in Requests, Cancel(r)
      PROVE  WellFormed'
  <2> DEFINE o  == req[r].order
             to == SettledPayment(payment[o])
  <2>1. /\ o \in Orders
        /\ status[o] # "absent"
        /\ payment[o] \in PaymentStatus
    BY <1>9, LoadedFacts DEF Cancel, MayMoveTo, TypeOK, Existing,
              RequestsExist, Idle
  <2>2. to \in PaymentStatus
    BY <2>1, SettlementFacts
  <2>3. /\ payment' \in [Orders -> PaymentStatus \cup {"none"}]
        /\ paidAt' \in [Orders -> BOOLEAN]
        /\ refundedAt' \in [Orders -> BOOLEAN]
        /\ events' \in [Orders -> Seq(Event)]
        /\ \A x \in Orders : payment'[x] = "none" <=> payment[x] = "none"
    <3>1. CASE MovePayment(o, to, "system")
      <4>1. \A x \in Orders : payment'[x] = "none" <=> payment[x] = "none"
        BY <3>1, <2>1, <2>2 DEF MovePayment, TypeOK, PaymentStatus
      <4>2. QED
        BY <3>1, <4>1, <2>1, <2>2, MovePaymentType
    <3>2. CASE UNCHANGED money
      BY <3>2 DEF money, TypeOK
    <3>3. QED
      BY <1>9, <3>1, <3>2 DEF Cancel
  <2>4. restocks' \in [Orders -> Nat]
    BY <1>9, <2>1 DEF Cancel, TypeOK
  <2>5. /\ status' = [status EXCEPT ![o] = "cancelled"]
        /\ req' = [req EXCEPT ![r] = Idle]
        /\ UNCHANGED <<method, shippedAt>>
    BY <1>9 DEF Cancel, Finish
  <2>6. TypeOK'
    BY <2>1, <2>3, <2>4, <2>5 DEF TypeOK, OrderStatus
  <2>7. Existing' /\ RequestsExist'
    BY <2>1, <2>3, <2>5 DEF TypeOK, Existing, RequestsExist
  <2>8. QED
    BY <2>6, <2>7
<1>10. ASSUME NEW r \in Requests, ApplyPayment(r)
       PROVE  WellFormed'
  <2> DEFINE o  == req[r].order
             to == req[r].target
  <2>1. /\ o \in Orders
        /\ payment[o] \in PaymentStatus
        /\ to \in PaymentStatus
    BY <1>10, LoadedFacts DEF ApplyPayment, PaymentOffered, TypeOK, Existing,
              RequestsExist, Idle
  <2>2. MovePayment(o, to, "manual")
    BY <1>10 DEF ApplyPayment
  <2>3. \A x \in Orders : payment'[x] = "none" <=> payment[x] = "none"
    BY <2>1, <2>2 DEF MovePayment, TypeOK, PaymentStatus
  <2>4. QED
    BY <1>10, <2>1, <2>2, <2>3, MovePaymentType
       DEF ApplyPayment, Finish, TypeOK, Existing, RequestsExist
<1>11. QED
  BY <1>1, <1>2, <1>3, <1>4, <1>5, <1>6, <1>7, <1>8, <1>9, <1>10
     DEF Next, Create, Load, Handle

\* The state is well typed in every behaviour of the endpoints.
THEOREM TypeCorrect == Spec => []TypeOK
<1>1. Spec => []WellFormed
  BY InitWellFormed, NextWellFormed, PTL DEF Spec
<1>2. QED
  BY <1>1, PTL DEF WellFormed
-----------------------------------------------------------------------------
LEMMA InitShipping == Init => ShippingInv
BY DEF Init, ShippingInv, SentWasShipped, DeliveredWasShipped, Idle

\* What was seen as sent has been shipped, so what is delivered has been.
LEMMA NextShipping ==
  WellFormed /\ ShippingInv /\ [Next]_vars => ShippingInv'
<1> SUFFICES ASSUME WellFormed, ShippingInv, [Next]_vars
             PROVE  ShippingInv'
  OBVIOUS
<1> USE DEF WellFormed, ShippingInv, SentWasShipped, DeliveredWasShipped
<1>1. CASE UNCHANGED vars
  BY <1>1 DEF vars
<1>2. ASSUME NEW o \in Orders, Create(o)
      PROVE  ShippingInv'
  <2>1. /\ status'[o] = "prepared"
        /\ \A x \in Orders \ {o} : status'[x] = status[x] /\ method'[x] = method[x]
        /\ UNCHANGED <<shippedAt, req>>
    BY <1>2 DEF Create, Checkout, PdvSale, TypeOK
  <2>2. QED
    BY <2>1
<1>3. ASSUME NEW r \in Requests, Load(r)
      PROVE  ShippingInv'
  <2>1. ASSUME NEW s \in Requests, req'[s].kind = "status",
               req'[s].seen = "sent"
        PROVE  shippedAt'[req'[s].order]
    BY <1>3, <2>1, LoadFacts
  <2>2. QED
    BY <1>3, <2>1, LoadFacts
<1>4. ASSUME NEW r \in Requests,
             \/ StatusUnchanged(r) \/ CancelTooLate(r) \/ PaymentUnchanged(r)
             \/ ApplyPayment(r)
      PROVE  ShippingInv'
  <2>1. Finish(r) /\ UNCHANGED <<status, method, shippedAt>>
    BY <1>4 DEF StatusUnchanged, CancelTooLate, PaymentUnchanged, ApplyPayment
  <2>2. QED
    BY <2>1, FinishFacts
<1>5. ASSUME NEW r \in Requests, Send(r)
      PROVE  ShippingInv'
  <2>1. /\ Finish(r)
        /\ status' = [status EXCEPT ![req[r].order] = "sent"]
        /\ shippedAt' = [shippedAt EXCEPT ![req[r].order] = TRUE]
        /\ UNCHANGED method
        /\ req[r].order \in Orders
    BY <1>5, LoadedFacts DEF Send, MayMoveTo, TypeOK
  <2>2. \A o \in Orders : shippedAt[o] => shippedAt'[o]
    BY <2>1 DEF TypeOK
  <2>3. \A s \in Requests : req'[s] # req[s] => req'[s].kind = "idle"
    BY <2>1, FinishFacts
  <2>4. ASSUME NEW s \in Requests, req'[s].kind = "status",
               req'[s].seen = "sent"
        PROVE  shippedAt'[req'[s].order]
    BY <2>2, <2>3, <2>4, LoadedFacts DEF TypeOK
  <2>5. \A o \in Orders : status'[o] = "sent" => shippedAt'[o]
    BY <2>1, <2>2 DEF TypeOK
  <2>6. DeliveredWasShipped'
    BY <2>1, <2>2 DEF TypeOK
  <2>7. QED
    BY <2>4, <2>5, <2>6
<1>6. ASSUME NEW r \in Requests, Deliver(r)
      PROVE  ShippingInv'
  <2> DEFINE o == req[r].order
  <2>1. method[o] = "delivery" => req[r].seen = "sent"
    BY <1>6 DEF Deliver, MayMoveTo, AllowedNext
  <2>2. method[o] = "delivery" => shippedAt[o]
    BY <1>6, <2>1 DEF Deliver, MayMoveTo
  <2>3. QED
    BY <1>6, <2>2, LoadedFacts DEF Deliver, Finish, TypeOK
<1>7. ASSUME NEW r \in Requests, Cancel(r)
      PROVE  ShippingInv'
  <2>1. /\ Finish(r)
        /\ status' = [status EXCEPT ![req[r].order] = "cancelled"]
        /\ UNCHANGED <<method, shippedAt>>
    BY <1>7 DEF Cancel
  <2>2. \A o \in Orders : status'[o] = status[o] \/ status'[o] = "cancelled"
    BY <2>1 DEF TypeOK
  <2>3. SentWasShipped'
    <3>1. \A o \in Orders : status'[o] = "sent" => shippedAt'[o]
      BY <2>1, <2>2
    <3>2. ASSUME NEW s \in Requests, req'[s].kind = "status",
                 req'[s].seen = "sent"
          PROVE  shippedAt'[req'[s].order]
      BY <2>1, <3>2, FinishFacts
    <3>3. QED
      BY <3>1, <3>2
  <2>4. DeliveredWasShipped'
    BY <2>1, <2>2
  <2>5. QED
    BY <2>3, <2>4
<1>8. QED
  BY <1>1, <1>2, <1>3, <1>4, <1>5, <1>6, <1>7 DEF Next, Handle
-----------------------------------------------------------------------------
LEMMA InitMoney == Init => MoneyInv
BY DEF Init, MoneyInv, SeenBehind, CancelSettles, CancelledIsSettled,
       TimestampsAgree, Idle, Settled

\* Every status is one of its own later ones, and an allowed move leads to a
\* later one of every status it is later than.
LEMMA LaterFacts ==
  ASSUME NEW p \in PaymentStatus, NEW q \in Later(p)
  PROVE  /\ p \in Later(p)
         /\ \A to \in PaymentStatus : CanTransition(q, to) => to \in Later(p)
BY DEF PaymentStatus, Later, CanTransition, AllowedTransitions

\* The money of `o` moves along an allowed edge, everything else about it
\* follows.
LEMMA MovePaymentMoney ==
  ASSUME WellFormed, MoneyInv, NEW o \in Orders, NEW to \in PaymentStatus,
         NEW src, payment[o] \in PaymentStatus,
         CanTransition(payment[o], to), MovePayment(o, to, src)
  PROVE  /\ \A r \in Requests :
              req[r].kind = "payment" =>
                payment'[req[r].order] \in Later(req[r].seen)
         /\ TimestampsAgree'
         /\ payment' = [payment EXCEPT ![o] = to]
<1>1. payment' = [payment EXCEPT ![o] = to]
  BY DEF MovePayment
<1>2. ASSUME NEW r \in Requests, req[r].kind = "payment"
      PROVE  payment'[req[r].order] \in Later(req[r].seen)
  <2>1. req[r].order \in Orders /\ req[r].seen \in PaymentStatus
    BY <1>2, LoadedFacts DEF WellFormed, TypeOK
  <2>2. payment[req[r].order] \in Later(req[r].seen)
    BY <1>2 DEF MoneyInv, SeenBehind
  <2>3. CASE req[r].order = o
    BY <1>1, <2>1, <2>2, <2>3, LaterFacts DEF WellFormed, TypeOK
  <2>4. CASE req[r].order # o
    BY <1>1, <2>1, <2>2, <2>4 DEF WellFormed, TypeOK
  <2>5. QED
    BY <2>3, <2>4
<1>3. TimestampsAgree'
  BY DEF MovePayment, WellFormed, TypeOK, MoneyInv, TimestampsAgree,
         CanTransition, AllowedTransitions, PaymentStatus
<1>4. QED
  BY <1>1, <1>2, <1>3

LEMMA NextMoney ==
  WellFormed /\ MoneyInv /\ [Next]_vars => MoneyInv'
<1> SUFFICES ASSUME WellFormed, MoneyInv, [Next]_vars
             PROVE  MoneyInv'
  OBVIOUS
<1> USE DEF WellFormed
<1>1. CASE UNCHANGED vars
  BY <1>1 DEF vars, money, MoneyInv, SeenBehind, CancelSettles,
              CancelledIsSettled, TimestampsAgree
<1>2. ASSUME NEW o \in Orders, Create(o)
      PROVE  MoneyInv'
  <2>1. \A r \in Requests :
          req[r].kind = "payment" => req[r].order \in Orders /\ req[r].order # o
    BY <1>2, LoadedFacts DEF Create, Checkout, PdvSale, RequestsExist, TypeOK,
                             Idle
  <2>2. SeenBehind'
    BY <1>2, <2>1 DEF Create, Checkout, PdvSale, MoneyInv, SeenBehind, TypeOK
  <2>3. payment[o] = "none"
    BY <1>2 DEF Create, Checkout, PdvSale, Existing
  <2>4. /\ \A x \in Orders \ {o} : /\ status'[x] = status[x]
                                   /\ payment'[x] = payment[x]
                                   /\ paidAt'[x] = paidAt[x]
        /\ status'[o] = "prepared"
        /\ payment'[o] \in {"pending", "paid"}
        /\ ~paidAt[o] /\ ~refundedAt[o] /\ restocks[o] = 0
        /\ paidAt'[o] <=> payment'[o] = "paid"
        /\ UNCHANGED <<restocks, refundedAt>>
    <3>1. ~paidAt[o] /\ ~refundedAt[o] /\ restocks[o] = 0
      BY <2>3 DEF MoneyInv, TimestampsAgree, CancelSettles, Settled, TypeOK
    <3>2. ASSUME NEW m \in DeliveryMethod, Checkout(o, m)
          PROVE  /\ \A x \in Orders \ {o} : /\ status'[x] = status[x]
                                            /\ payment'[x] = payment[x]
                                            /\ paidAt'[x] = paidAt[x]
                 /\ status'[o] = "prepared"
                 /\ payment'[o] = "pending"
                 /\ paidAt'[o] <=> payment'[o] = "paid"
                 /\ UNCHANGED <<restocks, refundedAt>>
      BY <3>1, <3>2 DEF Checkout, TypeOK
    <3>3. CASE PdvSale(o)
      BY <3>1, <3>3 DEF PdvSale, TypeOK
    <3>4. QED
      BY <1>2, <3>1, <3>2, <3>3 DEF Create
  <2>5. CancelSettles' /\ CancelledIsSettled'
    BY <2>4 DEF MoneyInv, CancelSettles, CancelledIsSettled, Settled
  <2>6. TimestampsAgree'
    BY <2>4 DEF MoneyInv, TimestampsAgree
  <2>7. QED
    BY <2>2, <2>5, <2>6 DEF MoneyInv
<1>3. ASSUME NEW r \in Requests, Load(r)
      PROVE  MoneyInv'
  <2>1. ASSUME NEW s \in Requests, req'[s].kind = "payment"
        PROVE  payment'[req'[s].order] \in Later(req'[s].seen)
    <3>1. CASE s = r
      <4>1. payment[req'[r].order] \in PaymentStatus
        BY <1>3, LoadFacts DEF TypeOK, Existing
      <4>2. \A p \in PaymentStatus : p \in Later(p)
        BY DEF Later, PaymentStatus
      <4>3. QED
        BY <1>3, <2>1, <3>1, <4>1, <4>2, LoadFacts
    <3>2. CASE s # r
      BY <1>3, <2>1, <3>2, LoadFacts DEF MoneyInv, SeenBehind
    <3>3. QED
      BY <3>1, <3>2
  <2>2. CancelSettles' /\ CancelledIsSettled' /\ TimestampsAgree'
    BY <1>3, LoadFacts DEF MoneyInv, CancelSettles, CancelledIsSettled,
         TimestampsAgree
  <2>3. QED
    BY <2>1, <2>2 DEF MoneyInv, SeenBehind
<1>4. ASSUME NEW r \in Requests,
             \/ StatusUnchanged(r) \/ CancelTooLate(r) \/ PaymentUnchanged(r)
             \/ Send(r) \/ Deliver(r)
      PROVE  MoneyInv'
  <2>1. SeenBehind'
    BY <1>4, LoadedFacts DEF StatusUnchanged, CancelTooLate, PaymentUnchanged,
         Send, Deliver, Finish, money, MoneyInv, SeenBehind, TypeOK
  <2>2. CancelSettles' /\ TimestampsAgree'
    BY <1>4 DEF StatusUnchanged, CancelTooLate, PaymentUnchanged, Send,
         Deliver, money, MoneyInv, CancelSettles, TimestampsAgree
  <2>3. CancelledIsSettled'
    BY <1>4 DEF StatusUnchanged, CancelTooLate, PaymentUnchanged, Send,
         Deliver, money, MoneyInv, CancelledIsSettled, TypeOK
  <2>4. QED
    BY <2>1, <2>2, <2>3 DEF MoneyInv
<1>5. ASSUME NEW r \in Requests, Cancel(r)
      PROVE  MoneyInv'
  <2> DEFINE o  == req[r].order
             to == SettledPayment(payment[o])
  <2>1. /\ o \in Orders
        /\ payment[o] \in PaymentStatus
    BY <1>5, LoadedFacts DEF Cancel, MayMoveTo, TypeOK, Existing,
              RequestsExist, Idle
  <2>2. /\ to \in PaymentStatus /\ to \in Settled
        /\ payment[o] # to => CanTransition(payment[o], to)
    BY <2>1, SettlementFacts
  <2>3. /\ status' = [status EXCEPT ![o] = "cancelled"]
        /\ restocks' = [restocks EXCEPT ![o] = @ + 1]
        /\ req' = [req EXCEPT ![r] = Idle]
    BY <1>5 DEF Cancel, Finish
  <2>4. /\ \A s \in Requests :
             req[s].kind = "payment" =>
               payment'[req[s].order] \in Later(req[s].seen)
        /\ TimestampsAgree'
        /\ payment' = [payment EXCEPT ![o] = to]
    <3>1. CASE payment[o] # to
      BY <1>5, <2>1, <2>2, <3>1, MovePaymentMoney DEF Cancel
    <3>2. CASE payment[o] = to
      <4>1. UNCHANGED money
        BY <1>5, <3>2 DEF Cancel
      <4>2. payment' = [payment EXCEPT ![o] = to]
        BY <4>1, <3>2, <2>1 DEF money, TypeOK
      <4>3. UNCHANGED <<payment, paidAt, refundedAt>>
        BY <4>1 DEF money
      <4>4. QED
        BY <4>2, <4>3 DEF MoneyInv, SeenBehind, TimestampsAgree
    <3>3. QED
      BY <3>1, <3>2
  <2>5. SeenBehind'
    BY <2>3, <2>4, LoadedFacts DEF SeenBehind, TypeOK
  <2>6. restocks[o] \in Nat /\ \A x \in Orders : restocks[x] \in Nat
    BY <2>1 DEF TypeOK
  <2>7. CancelSettles' /\ CancelledIsSettled'
    BY <2>1, <2>2, <2>3, <2>4, <2>6 DEF MoneyInv, CancelSettles,
         CancelledIsSettled, TypeOK
  <2>8. QED
    BY <2>4, <2>5, <2>7 DEF MoneyInv
<1>6. ASSUME NEW r \in Requests, ApplyPayment(r)
      PROVE  MoneyInv'
  <2> DEFINE o  == req[r].order
             to == req[r].target
  <2>1. /\ o \in Orders
        /\ payment[o] \in PaymentStatus
        /\ to \in PaymentStatus
        /\ req[r].seen \in PaymentStatus
        /\ payment[o] \in Later(req[r].seen)
    BY <1>6, LoadedFacts DEF ApplyPayment, PaymentOffered, TypeOK, Existing,
              RequestsExist, Idle, MoneyInv, SeenBehind
  <2>2. /\ CanTransition(payment[o], to)
        /\ MovePayment(o, to, "manual")
        /\ req' = [req EXCEPT ![r] = Idle]
        /\ UNCHANGED <<status, restocks>>
    BY <1>6 DEF ApplyPayment, Finish
  <2>3. /\ \A s \in Requests :
             req[s].kind = "payment" =>
               payment'[req[s].order] \in Later(req[s].seen)
        /\ TimestampsAgree'
        /\ payment' = [payment EXCEPT ![o] = to]
    BY <2>1, <2>2, MovePaymentMoney
  <2>4. to \in Settled <=> payment[o] \in Settled
    BY <1>6, <2>1, <2>2 DEF ApplyPayment, PaymentOffered, ManualTargets,
         CanTransition, AllowedTransitions, Settled, Later, PaymentStatus
  <2>5. SeenBehind'
    BY <2>2, <2>3, LoadedFacts DEF SeenBehind, TypeOK
  <2>6. CancelSettles' /\ CancelledIsSettled'
    BY <2>1, <2>2, <2>3, <2>4 DEF MoneyInv, CancelSettles,
         CancelledIsSettled, TypeOK
  <2>7. QED
    BY <2>3, <2>5, <2>6 DEF MoneyInv
<1>7. QED
  BY <1>1, <1>2, <1>3, <1>4, <1>5, <1>6 DEF Next, Handle
-----------------------------------------------------------------------------
\* An allowed move never lowers the rank, and raises it into a settlement.
LEMMA RankFacts ==
  ASSUME NEW p \in PaymentStatus, NEW q \in PaymentStatus
  PROVE  /\ Rank(p) \in Nat
         /\ CanTransition(p, q) =>
              /\ Rank(p) <= Rank(q)
              /\ q \notin {"pending", "failed"} => Rank(p) < Rank(q)
BY DEF PaymentStatus, Rank, CanTransition, AllowedTransitions

\* The rows of an order after one more event.
LEMMA AppendFacts ==
  ASSUME NEW trail \in Seq(Event), NEW e \in Event
  PROVE  /\ Len(Append(trail, e)) = Len(trail) + 1
         /\ Len(trail) \in Nat
         /\ \A i \in 1..Len(trail) : Append(trail, e)[i] = trail[i]
         /\ Append(trail, e)[Len(trail) + 1] = e
         /\ trail # <<>> <=> Len(trail) > 0
         /\ Append(trail, e) # <<>>
         /\ \A i \in 1..Len(trail) : trail[i] \in Event
OBVIOUS

\* What TrailInv says of one order, whose rows are `trail`.
TrailOf(trail, p, cancels) ==
  /\ \A i \in 1..Len(trail) :
       /\ CanTransition(trail[i].prev, trail[i].new)
       /\ trail[i].prev = IF i = 1 THEN "pending" ELSE trail[i-1].new
       /\ Rank(trail[i].new) <= Rank(p)
       /\ trail[i].new \notin {"pending", "failed"} =>
            \A j \in 1..(i-1) : Rank(trail[j].new) < Rank(trail[i].new)
       /\ trail[i].new \in {"cancelled", "refund_pending"}
            => trail[i].source = "system" /\ cancels > 0
  /\ trail # <<>> => p = trail[Len(trail)].new
  /\ trail = <<>> => p \in {"none", "pending"}

LEMMA TrailPerOrder ==
  TrailInv <=> \A o \in Orders : TrailOf(events[o], payment[o], restocks[o])
BY DEF TrailInv, TrailOf, EventTrail, RankAdvances, ReversalsAreSystem

\* A further cancellation does not disturb the trail.
LEMMA TrailOutlivesRestocks ==
  ASSUME NEW trail, NEW p, NEW before \in Nat, NEW after \in Nat,
         before <= after, TrailOf(trail, p, before)
  PROVE  TrailOf(trail, p, after)
BY DEF TrailOf

\* One more event keeps the trail, if it is the move that was made.
LEMMA TrailGrows ==
  ASSUME NEW trail \in Seq(Event), NEW p \in PaymentStatus,
         NEW to \in PaymentStatus, NEW src \in {"manual", "system"},
         NEW before \in Nat, NEW after \in Nat,
         TrailOf(trail, p, before), before <= after, CanTransition(p, to),
         to \in {"cancelled", "refund_pending"} => src = "system" /\ after > 0
  PROVE  TrailOf(Append(trail, [prev |-> p, new |-> to, source |-> src]),
                 to, after)
<1> DEFINE e    == [prev |-> p, new |-> to, source |-> src]
           next == Append(trail, e)
           n    == Len(trail)
<1>1. e \in Event /\ e.prev = p /\ e.new = to /\ e.source = src
  BY DEF Event
<1> HIDE DEF e
<1>2. /\ Len(next) = n + 1 /\ n \in Nat /\ next # <<>>
      /\ \A i \in 1..n : next[i] = trail[i] /\ trail[i] \in Event
      /\ next[n + 1] = e
      /\ trail # <<>> <=> n > 0
  BY <1>1, AppendFacts
<1> HIDE DEF next, n
<1>3. \A i \in 1..n : trail[i].new \in PaymentStatus
  BY <1>2 DEF Event
<1>4. /\ Rank(p) \in Nat /\ Rank(to) \in Nat /\ Rank(p) <= Rank(to)
      /\ to \notin {"pending", "failed"} => Rank(p) < Rank(to)
      /\ \A i \in 1..n : Rank(trail[i].new) \in Nat
  BY <1>3, RankFacts
<1>5. ASSUME NEW i \in 1..n
      PROVE  /\ CanTransition(next[i].prev, next[i].new)
             /\ next[i].prev = IF i = 1 THEN "pending" ELSE next[i-1].new
             /\ Rank(next[i].new) <= Rank(to)
             /\ next[i].new \notin {"pending", "failed"} =>
                  \A j \in 1..(i-1) : Rank(next[j].new) < Rank(next[i].new)
             /\ next[i].new \in {"cancelled", "refund_pending"}
                  => next[i].source = "system" /\ after > 0
  <2>1. next[i] = trail[i] /\ \A j \in 1..(i-1) : next[j] = trail[j] /\ j \in 1..n
    BY <1>2
  <2>2. i # 1 => i - 1 \in 1..(i-1)
    BY <1>2
  <2>3. /\ CanTransition(trail[i].prev, trail[i].new)
        /\ trail[i].prev = IF i = 1 THEN "pending" ELSE trail[i-1].new
        /\ Rank(trail[i].new) <= Rank(p)
        /\ trail[i].new \notin {"pending", "failed"} =>
             \A j \in 1..(i-1) : Rank(trail[j].new) < Rank(trail[i].new)
        /\ trail[i].new \in {"cancelled", "refund_pending"}
             => trail[i].source = "system" /\ before > 0
    BY DEF TrailOf, n
  <2>4. Rank(trail[i].new) <= Rank(to)
    BY <2>3, <1>4
  <2>5. QED
    BY <2>1, <2>2, <2>3, <2>4
<1>6. /\ CanTransition(e.prev, e.new)
      /\ e.prev = IF n + 1 = 1 THEN "pending" ELSE next[n].new
      /\ e.new \in {"cancelled", "refund_pending"}
           => e.source = "system" /\ after > 0
  <2>1. n = 0 => p = "pending"
    BY <1>2 DEF TrailOf, PaymentStatus
  <2>2. n > 0 => p = trail[n].new
    BY <1>2 DEF TrailOf, n
  <2>3. QED
    BY <1>1, <1>2, <2>1, <2>2
<1>7. to \notin {"pending", "failed"} =>
        \A j \in 1..n : Rank(next[j].new) < Rank(to)
  <2>1. \A j \in 1..n : Rank(trail[j].new) <= Rank(p)
    BY DEF TrailOf, n
  <2>2. QED
    BY <2>1, <1>2, <1>4
<1>8. \A i \in 1..(n+1) : i \in 1..n \/ i = n + 1
  BY <1>2
<1>9. n + 1 - 1 = n
  BY <1>2
<1>10. ASSUME NEW i \in 1..(n+1)
       PROVE  /\ CanTransition(next[i].prev, next[i].new)
              /\ next[i].prev = IF i = 1 THEN "pending" ELSE next[i-1].new
              /\ Rank(next[i].new) <= Rank(to)
              /\ next[i].new \notin {"pending", "failed"} =>
                   \A j \in 1..(i-1) : Rank(next[j].new) < Rank(next[i].new)
              /\ next[i].new \in {"cancelled", "refund_pending"}
                   => next[i].source = "system" /\ after > 0
  <2>1. CASE i \in 1..n
    BY <1>5, <2>1
  <2>2. CASE i = n + 1
    <3>1. next[i] = e /\ i - 1 = n
      BY <1>2, <1>9, <2>2
    <3>2. Rank(e.new) <= Rank(to)
      BY <1>1, <1>4
    <3>3. QED
      BY <1>1, <1>6, <1>7, <3>1, <3>2, <2>2
  <2>3. QED
    BY <1>8, <2>1, <2>2
<1>11. QED
  BY <1>1, <1>2, <1>10 DEF TrailOf, next, e

LEMMA InitTrail == Init => TrailInv
BY DEF Init, TrailInv, EventTrail, RankAdvances, ReversalsAreSystem

\* A move of one order's money keeps every order's trail.
LEMMA MovePaymentTrail ==
  ASSUME WellFormed, WellFormed', TrailInv,
         NEW o \in Orders, NEW to \in PaymentStatus,
         NEW src \in {"manual", "system"}, payment[o] \in PaymentStatus,
         CanTransition(payment[o], to), MovePayment(o, to, src),
         \A x \in Orders : restocks[x] <= restocks'[x],
         to \in {"cancelled", "refund_pending"} =>
           src = "system" /\ restocks'[o] > 0
  PROVE  TrailInv'
<1> USE DEF WellFormed
<1>1. \A x \in Orders : restocks[x] \in Nat /\ restocks'[x] \in Nat
  BY DEF TypeOK
<1>2. ASSUME NEW x \in Orders
      PROVE  TrailOf(events'[x], payment'[x], restocks'[x])
  <2>1. TrailOf(events[x], payment[x], restocks[x])
    BY TrailPerOrder
  <2>2. CASE x = o
    <3>1. /\ events'[o] = Append(events[o],
                [prev |-> payment[o], new |-> to, source |-> src])
          /\ payment'[o] = to
      BY DEF MovePayment, TypeOK
    <3>2. events[o] \in Seq(Event)
      BY DEF TypeOK
    <3>3. QED
      BY <1>1, <2>1, <2>2, <3>1, <3>2, TrailGrows
  <2>3. CASE x # o
    <3>1. events'[x] = events[x] /\ payment'[x] = payment[x]
      BY <2>3 DEF MovePayment, TypeOK
    <3>2. restocks[x] <= restocks'[x]
      OBVIOUS
    <3>3. QED
      BY <1>1, <2>1, <3>1, <3>2, TrailOutlivesRestocks
  <2>4. QED
    BY <2>2, <2>3
<1>3. QED
  BY <1>2 DEF TrailInv, TrailOf, EventTrail, RankAdvances, ReversalsAreSystem

LEMMA NextTrail ==
  WellFormed /\ WellFormed' /\ MoneyInv /\ TrailInv /\ [Next]_vars
    => TrailInv'
<1> SUFFICES ASSUME WellFormed, WellFormed', MoneyInv, TrailInv, [Next]_vars
             PROVE  TrailInv'
  OBVIOUS
<1> USE DEF WellFormed
<1>0. ASSUME UNCHANGED <<payment, events, restocks>>
      PROVE  TrailInv'
  BY <1>0 DEF TrailInv, EventTrail, RankAdvances, ReversalsAreSystem
<1>1. CASE UNCHANGED vars
  BY <1>0, <1>1 DEF vars, money
<1>2. ASSUME NEW o \in Orders, Create(o)
      PROVE  TrailInv'
  <2>1. payment[o] = "none" /\ restocks[o] \in Nat
    BY <1>2 DEF Create, Checkout, PdvSale, Existing, TypeOK
  <2>2. TrailOf(events[o], "none", restocks[o])
    BY <2>1, TrailPerOrder
  <2>3. events[o] = <<>>
    <3>1. events[o] \in Seq(Event)
      BY DEF TypeOK
    <3>2. CASE events[o] # <<>>
      <4>1. Len(events[o]) \in Nat \ {0} /\ Len(events[o]) \in 1..Len(events[o])
        BY <3>1, <3>2
      <4>2. CanTransition(events[o][Len(events[o])].prev, "none")
        BY <4>1, <3>2, <2>2 DEF TrailOf
      <4>3. QED
        BY <4>2 DEF CanTransition, AllowedTransitions
    <3>3. QED
      BY <3>2
  <2>4. ASSUME NEW x \in Orders
        PROVE  TrailOf(events'[x], payment'[x], restocks'[x])
    <3>1. CASE x # o
      <4>1. /\ events'[x] = events[x] /\ payment'[x] = payment[x]
            /\ restocks'[x] = restocks[x]
        BY <1>2, <3>1 DEF Create, Checkout, PdvSale, TypeOK
      <4>2. QED
        BY <4>1, TrailPerOrder
    <3>2. ASSUME x = o, NEW m \in DeliveryMethod, Checkout(o, m)
          PROVE  TrailOf(events'[x], payment'[x], restocks'[x])
      <4>1. events'[o] = <<>> /\ payment'[o] = "pending"
        BY <2>3, <3>2 DEF Checkout, TypeOK
      <4>2. QED
        BY <4>1, <3>2 DEF TrailOf
    <3>3. CASE x = o /\ PdvSale(o)
      <4>1. /\ events'[o] = Append(events[o],
                 [prev |-> "pending", new |-> "paid", source |-> "system"])
            /\ payment'[o] = "paid"
            /\ restocks'[o] = restocks[o]
        BY <3>3 DEF PdvSale, TypeOK
      <4>2. TrailOf(<<>>, "pending", restocks[o])
        BY DEF TrailOf
      <4>3. CanTransition("pending", "paid")
        BY DEF CanTransition, AllowedTransitions
      <4>4. /\ <<>> \in Seq(Event)
            /\ "pending" \in PaymentStatus /\ "paid" \in PaymentStatus
            /\ restocks[o] <= restocks[o]
        BY <2>1 DEF PaymentStatus
      <4>5. TrailOf(Append(<<>>, [prev |-> "pending", new |-> "paid",
                                  source |-> "system"]), "paid", restocks[o])
        BY <2>1, <4>2, <4>3, <4>4, TrailGrows
      <4>6. QED
        BY <2>3, <3>3, <4>1, <4>5
    <3>4. QED
      BY <1>2, <3>1, <3>2, <3>3 DEF Create
  <2>5. QED
    BY <2>4 DEF TrailInv, TrailOf, EventTrail, RankAdvances, ReversalsAreSystem
<1>3. ASSUME NEW r \in Requests, Load(r)
      PROVE  TrailInv'
  BY <1>0, <1>3, LoadFacts
<1>4. ASSUME NEW r \in Requests,
             \/ StatusUnchanged(r) \/ CancelTooLate(r) \/ PaymentUnchanged(r)
             \/ Send(r) \/ Deliver(r)
      PROVE  TrailInv'
  BY <1>0, <1>4 DEF StatusUnchanged, CancelTooLate, PaymentUnchanged, Send,
                    Deliver, money
<1>5. ASSUME NEW r \in Requests, Cancel(r)
      PROVE  TrailInv'
  <2> DEFINE o  == req[r].order
             to == SettledPayment(payment[o])
  <2>1. /\ o \in Orders
        /\ payment[o] \in PaymentStatus
    BY <1>5, LoadedFacts DEF Cancel, MayMoveTo, TypeOK, Existing,
              RequestsExist, Idle
  <2>2. /\ to \in PaymentStatus
        /\ payment[o] # to => CanTransition(payment[o], to)
    BY <2>1, SettlementFacts
  <2>3. restocks' = [restocks EXCEPT ![o] = @ + 1]
    BY <1>5 DEF Cancel
  <2>4. /\ \A x \in Orders : restocks[x] <= restocks'[x]
        /\ restocks'[o] > 0
    BY <2>1, <2>3 DEF TypeOK
  <2>5. CASE payment[o] # to /\ MovePayment(o, to, "system")
    BY <2>1, <2>2, <2>4, <2>5, MovePaymentTrail
  <2>6. CASE payment[o] = to /\ UNCHANGED money
    <3>1. ASSUME NEW x \in Orders
          PROVE  TrailOf(events'[x], payment'[x], restocks'[x])
      <4>1. TrailOf(events[x], payment[x], restocks[x])
        BY TrailPerOrder
      <4>2. events'[x] = events[x] /\ payment'[x] = payment[x]
        BY <2>6 DEF money
      <4>3. /\ restocks[x] <= restocks'[x]
            /\ restocks[x] \in Nat /\ restocks'[x] \in Nat
        BY <2>4 DEF TypeOK
      <4>4. QED
        BY <4>1, <4>2, <4>3, TrailOutlivesRestocks
    <3>2. QED
      BY <3>1 DEF TrailInv, TrailOf, EventTrail, RankAdvances,
                  ReversalsAreSystem
  <2>7. QED
    BY <1>5, <2>5, <2>6 DEF Cancel
<1>6. ASSUME NEW r \in Requests, ApplyPayment(r)
      PROVE  TrailInv'
  <2> DEFINE o  == req[r].order
             to == req[r].target
  <2>1. /\ o \in Orders
        /\ payment[o] \in PaymentStatus
        /\ to \in PaymentStatus
        /\ req[r].seen \in PaymentStatus
        /\ payment[o] \in Later(req[r].seen)
    BY <1>6, LoadedFacts DEF ApplyPayment, PaymentOffered, TypeOK, Existing,
              RequestsExist, Idle, MoneyInv, SeenBehind
  <2>2. /\ CanTransition(payment[o], to)
        /\ MovePayment(o, to, "manual")
        /\ UNCHANGED restocks
    BY <1>6 DEF ApplyPayment
  <2>3. to \notin {"cancelled", "refund_pending"}
    BY <1>6, <2>1, <2>2 DEF ApplyPayment, PaymentOffered, ManualTargets,
         CanTransition, AllowedTransitions, Later, PaymentStatus
  <2>4. \A x \in Orders : restocks[x] <= restocks'[x]
    BY <2>2 DEF TypeOK
  <2>5. QED
    BY <2>1, <2>2, <2>3, <2>4, MovePaymentTrail
<1>7. QED
  BY <1>1, <1>2, <1>3, <1>4, <1>5, <1>6 DEF Next, Handle
-----------------------------------------------------------------------------
\* The inductive invariant holds in every behaviour of the endpoints.
THEOREM Invariance == Spec => []IInv
<1>1. Init => IInv
  BY InitWellFormed, InitShipping, InitMoney, InitTrail DEF IInv
<1>2. IInv /\ [Next]_vars => IInv'
  BY NextWellFormed, NextShipping, NextMoney, NextTrail DEF IInv
<1>3. QED
  BY <1>1, <1>2, PTL DEF Spec

\* The event ledger always explains the payment status of every order.
THEOREM TrailExplainsPayment == Spec => []EventTrail
<1>1. IInv => EventTrail
  BY DEF IInv, TrailInv
<1>2. QED
  BY <1>1, Invariance, PTL

\* A cancelled order never keeps an open or a kept payment.
THEOREM CancellationSettles == Spec => []CancelledIsSettled
<1>1. IInv => CancelledIsSettled
  BY DEF IInv, MoneyInv
<1>2. QED
  BY <1>1, Invariance, PTL

\* No operator request, however old the copy it read, reverses a payment.
THEOREM OnlyCancellationReverses == Spec => []ReversalsAreSystem
<1>1. IInv => ReversalsAreSystem
  BY DEF IInv, TrailInv
<1>2. QED
  BY <1>1, Invariance, PTL

\* No settlement of an order's payment happens twice.
THEOREM SettlementIsUnique == Spec => []SettlementsHappenOnce
<1>1. ASSUME IInv
      PROVE  SettlementsHappenOnce
  <2>1. SUFFICES ASSUME NEW o \in Orders,
                        NEW i \in 1..Len(events[o]), NEW j \in 1..Len(events[o]),
                        events[o][i].new = events[o][j].new, i # j,
                        events[o][i].new \notin {"pending", "failed"}
                 PROVE  FALSE
    BY DEF SettlementsHappenOnce
  <2>2. /\ Len(events[o]) \in Nat /\ i \in Nat /\ j \in Nat
        /\ events[o][i].new \in PaymentStatus
    <3>1. events[o] \in Seq(Event)
      BY <1>1 DEF IInv, WellFormed, TypeOK
    <3>2. events[o][i] \in Event /\ Len(events[o]) \in Nat
      BY <3>1
    <3>3. QED
      BY <3>2 DEF Event
  <2>3. Rank(events[o][i].new) \in Nat
    BY <2>2, RankFacts
  <2>4. i \in 1..(j-1) \/ j \in 1..(i-1)
    BY <2>1, <2>2
  <2>5. /\ i \in 1..(j-1) => Rank(events[o][i].new) < Rank(events[o][j].new)
        /\ j \in 1..(i-1) => Rank(events[o][j].new) < Rank(events[o][i].new)
    BY <1>1, <2>1 DEF IInv, TrailInv, RankAdvances
  <2>6. QED
    BY <2>1, <2>3, <2>4, <2>5
<1>2. QED
  BY <1>1, Invariance, PTL

\* paid_at and refunded_at agree with the payment status.
THEOREM TimestampsCorrect == Spec => []TimestampsAgree
<1>1. IInv => TimestampsAgree
  BY DEF IInv, MoneyInv
<1>2. QED
  BY <1>1, Invariance, PTL

\* No delivery order is delivered without having been sent.
THEOREM DeliveryFollowsShipping == Spec => []DeliveredWasShipped
<1>1. IInv => DeliveredWasShipped
  BY DEF IInv, ShippingInv
<1>2. QED
  BY <1>1, Invariance, PTL
-----------------------------------------------------------------------------
\* The abstract phase of a payment status, for every status.
LEMMA PhaseFacts ==
  /\ PhaseOf("none") = "none"
  /\ PhaseOf("pending") = "open" /\ PhaseOf("failed") = "open"
  /\ PhaseOf("paid") = "received"
  /\ PhaseOf("refund_pending") = "owed"
  /\ PhaseOf("refunded") = "returned"
  /\ PhaseOf("cancelled") = "void"
BY DEF PhaseOf

\* What a step does to the abstract state when one order's payment changes.
LEMMA PhaseMove ==
  ASSUME TypeOK, NEW o \in Orders, NEW to,
         payment' = [payment EXCEPT ![o] = to]
  PROVE  [x \in Orders |-> PhaseOf(payment'[x])] =
           [[x \in Orders |-> PhaseOf(payment[x])] EXCEPT ![o] = PhaseOf(to)]
BY DEF TypeOK

\* Every step of the endpoints is a step of the abstract settlement, or none.
LEMMA NextRefines == IInv /\ [Next]_vars => [S!Next]_(S!vars)
<1> SUFFICES ASSUME IInv, [Next]_vars
             PROVE  [S!Next]_(S!vars)
  OBVIOUS
<1> USE DEF IInv, WellFormed, S!vars
<1>0. ASSUME UNCHANGED <<payment, restocks>>
      PROVE  UNCHANGED S!vars
  BY <1>0
<1>1. CASE UNCHANGED vars
  BY <1>0, <1>1 DEF vars, money
<1>2. ASSUME NEW o \in Orders, Create(o)
      PROVE  S!Next
  <2>1. PICK p \in {"pending", "paid"} :
          payment' = [payment EXCEPT ![o] = p]
    BY <1>2 DEF Create, Checkout, PdvSale
  <2>2. payment[o] = "none" /\ UNCHANGED restocks
    BY <1>2 DEF Create, Checkout, PdvSale, Existing
  <2>3. PhaseOf(p) \in {"open", "received"}
    BY PhaseFacts
  <2>4. S!Place(o)
    BY <2>1, <2>2, <2>3, PhaseFacts, PhaseMove DEF S!Place
  <2>5. QED
    BY <2>4 DEF S!Next
<1>3. ASSUME NEW r \in Requests, Load(r)
      PROVE  UNCHANGED S!vars
  BY <1>0, <1>3, LoadFacts
<1>4. ASSUME NEW r \in Requests,
             \/ StatusUnchanged(r) \/ CancelTooLate(r) \/ PaymentUnchanged(r)
             \/ Send(r) \/ Deliver(r)
      PROVE  UNCHANGED S!vars
  BY <1>0, <1>4 DEF StatusUnchanged, CancelTooLate, PaymentUnchanged, Send,
                    Deliver, money
<1>5. ASSUME NEW r \in Requests, Cancel(r)
      PROVE  [S!Next]_(S!vars)
  <2> DEFINE o  == req[r].order
             to == SettledPayment(payment[o])
  <2>1. /\ o \in Orders
        /\ payment[o] \in PaymentStatus
    BY <1>5, LoadedFacts DEF Cancel, MayMoveTo, TypeOK, Existing,
              RequestsExist, Idle
  <2>2. restocks' = [restocks EXCEPT ![o] = @ + 1]
    BY <1>5 DEF Cancel
  <2>3. restocks[o] > 0 <=> payment[o] \in Settled
    BY <2>1 DEF MoneyInv, CancelSettles
  <2>4. \A x \in Orders : restocks[x] \in Nat
    BY DEF TypeOK
  <2>5. CASE payment[o] # to
    <3>1. payment[o] \notin Settled
      BY <2>1, <2>5, SettlementFacts
    <3>2. payment' = [payment EXCEPT ![o] = to]
      BY <1>5, <2>5 DEF Cancel, MovePayment
    <3>3. {x \in Orders : restocks'[x] > 0} =
            {x \in Orders : restocks[x] > 0} \cup {o}
      BY <2>1, <2>2, <2>4 DEF TypeOK
    <3>4. \/ PhaseOf(payment[o]) = "open" /\ PhaseOf(to) = "void"
          \/ PhaseOf(payment[o]) = "received" /\ PhaseOf(to) = "owed"
      BY <2>1, <3>1, PhaseFacts DEF PaymentStatus, Settled, SettledPayment
    <3>5. ~(restocks[o] > 0)
      BY <2>3, <3>1
    <3>6. PICK x \in Orders : x = o
      BY <2>1
    <3>7. S!Drop(x)
      BY <2>1, <3>2, <3>3, <3>4, <3>5, <3>6, PhaseMove DEF S!Drop
    <3>8. QED
      BY <3>7 DEF S!Next
  <2>6. CASE payment[o] = to
    <3>1. payment[o] \in Settled
      BY <2>1, <2>6, SettlementFacts
    <3>2. UNCHANGED payment
      BY <1>5, <2>6 DEF Cancel, money
    <3>3. {x \in Orders : restocks'[x] > 0} = {x \in Orders : restocks[x] > 0}
      BY <2>1, <2>2, <2>3, <2>4, <3>1 DEF TypeOK
    <3>4. QED
      BY <3>2, <3>3
  <2>7. QED
    BY <2>5, <2>6
<1>6. ASSUME NEW r \in Requests, ApplyPayment(r)
      PROVE  [S!Next]_(S!vars)
  <2> DEFINE o  == req[r].order
             to == req[r].target
  <2>1. /\ o \in Orders
        /\ payment[o] \in PaymentStatus
        /\ to \in PaymentStatus
        /\ req[r].seen \in PaymentStatus
        /\ payment[o] \in Later(req[r].seen)
    BY <1>6, LoadedFacts DEF ApplyPayment, PaymentOffered, TypeOK, Existing,
              RequestsExist, Idle, MoneyInv, SeenBehind
  <2>2. /\ CanTransition(payment[o], to)
        /\ payment' = [payment EXCEPT ![o] = to]
        /\ UNCHANGED restocks
    BY <1>6 DEF ApplyPayment, MovePayment
  <2>3. \/ PhaseOf(payment[o]) = "open" /\ PhaseOf(to) = "received"
        \/ PhaseOf(payment[o]) = "owed" /\ PhaseOf(to) = "returned"
        \/ PhaseOf(payment[o]) = PhaseOf(to)
    BY <1>6, <2>1, <2>2, PhaseFacts
       DEF ApplyPayment, PaymentOffered, ManualTargets, CanTransition,
           AllowedTransitions, Later, PaymentStatus
  <2>4. CASE PhaseOf(payment[o]) = "open" /\ PhaseOf(to) = "received"
    BY <2>1, <2>2, <2>4, PhaseMove DEF S!Receive, S!Next
  <2>5. CASE PhaseOf(payment[o]) = "owed" /\ PhaseOf(to) = "returned"
    BY <2>1, <2>2, <2>5, PhaseMove DEF S!Return, S!Next
  <2>6. CASE PhaseOf(payment[o]) = PhaseOf(to)
    BY <2>1, <2>2, <2>6, PhaseMove DEF TypeOK
  <2>7. QED
    BY <2>3, <2>4, <2>5, <2>6
<1>7. QED
  BY <1>1, <1>2, <1>3, <1>4, <1>5, <1>6 DEF Next, Handle

\* The order endpoints implement the abstract settlement: money comes in at
\* most once, and goes back only after a cancellation, whatever requests
\* interleave.
THEOREM OrdersSettle == Spec => ImplementsSettlement
<1>1. Init => S!Init
  BY PhaseFacts DEF Init, S!Init
<1>2. IInv /\ [Next]_vars => [S!Next]_(S!vars)
  BY NextRefines
<1>3. QED
  BY <1>1, <1>2, Invariance, PTL DEF Spec, ImplementsSettlement, S!Spec
=============================================================================
