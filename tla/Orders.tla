------------------------------- MODULE Orders -------------------------------
(***************************************************************************)
(* The life of an order behind the dashboard API: the storefront checkout  *)
(* and the PDV create it, operators move its shipping status              *)
(* (SaleOrderViewSet.update_status) and its payment                        *)
(* (SaleOrderViewSet.update_payment).                                      *)
(*                                                                         *)
(* Both endpoints first read the order without a lock (get_object) and     *)
(* validate that copy.  A payment move and a cancellation then lock the    *)
(* row and work on the committed values; "sent" and "delivered" save the   *)
(* copy as it was read.  A request is therefore two steps, Load and one of *)
(* the write steps, with the steps of other requests in between.  A locked *)
(* transaction is one step: every other writer of the row waits for it.    *)
(***************************************************************************)
EXTENDS Naturals, Sequences, PaymentStates

CONSTANTS
  Orders,      \* the orders that may be placed
  Requests,    \* the dashboard requests that may be in progress at once
  MaxEvents,   \* bound: payment requests start below this many events
  MaxCancels   \* bound: cancel requests start below this many cancellations

ASSUME BoundsAssumption == MaxEvents \in Nat /\ MaxCancels \in Nat

VARIABLES
  status,      \* SaleOrder.status, or "absent" before the order exists
  method,      \* SaleOrder.delivery_method
  payment,     \* SaleOrder.payment_status, "none" while absent
  paidAt,      \* whether SaleOrder.paid_at is set
  refundedAt,  \* whether SaleOrder.refunded_at is set
  shippedAt,   \* whether SaleOrder.shipped_at is set
  events,      \* the PaymentStatusEvent rows of the order, oldest first
  restocks,    \* how many times its items were put back (venda_cancelada)
  req          \* the requests in progress, each with the copy it has read

money == <<payment, paidAt, refundedAt, events>>
vars == <<status, method, money, shippedAt, restocks, req>>

OrderStatus == {"prepared", "sent", "delivered", "cancelled"}
DeliveryMethod == {"delivery", "pickup"}

Event == [prev : PaymentStatus, new : PaymentStatus,
          source : {"manual", "system"}]

\* A request that is not being handled.
Idle == [kind |-> "idle"]

\* A request past get_object(): what it wants and the copy it validates.
Loaded == [kind : {"status"}, order : Orders, target : OrderStatus,
           seen : OrderStatus]
            \cup
          [kind : {"payment"}, order : Orders, target : PaymentStatus,
           seen : PaymentStatus]

TypeOK ==
  /\ status \in [Orders -> OrderStatus \cup {"absent"}]
  /\ method \in [Orders -> DeliveryMethod]
  /\ payment \in [Orders -> PaymentStatus \cup {"none"}]
  /\ paidAt \in [Orders -> BOOLEAN]
  /\ refundedAt \in [Orders -> BOOLEAN]
  /\ shippedAt \in [Orders -> BOOLEAN]
  /\ events \in [Orders -> Seq(Event)]
  /\ restocks \in [Orders -> Nat]
  /\ req \in [Requests -> Loaded \cup {Idle}]

Init ==
  /\ status = [o \in Orders |-> "absent"]
  /\ method = [o \in Orders |-> "pickup"]
  /\ payment = [o \in Orders |-> "none"]
  /\ paidAt = [o \in Orders |-> FALSE]
  /\ refundedAt = [o \in Orders |-> FALSE]
  /\ shippedAt = [o \in Orders |-> FALSE]
  /\ events = [o \in Orders |-> <<>>]
  /\ restocks = [o \in Orders |-> 0]
  /\ req = [r \in Requests |-> Idle]
-----------------------------------------------------------------------------
\* An accepted storefront checkout: a prepared order with an open payment.
Checkout(o, m) ==
  /\ status[o] = "absent"
  /\ status' = [status EXCEPT ![o] = "prepared"]
  /\ method' = [method EXCEPT ![o] = m]
  /\ payment' = [payment EXCEPT ![o] = "pending"]
  /\ UNCHANGED <<paidAt, refundedAt, events, shippedAt, restocks, req>>

\* A PDV sale: a pickup order that is paid, and logged as paid, from the start.
PdvSale(o) ==
  /\ status[o] = "absent"
  /\ status' = [status EXCEPT ![o] = "prepared"]
  /\ method' = [method EXCEPT ![o] = "pickup"]
  /\ payment' = [payment EXCEPT ![o] = "paid"]
  /\ paidAt' = [paidAt EXCEPT ![o] = TRUE]
  /\ events' = [events EXCEPT ![o] = Append(@,
       [prev |-> "pending", new |-> "paid", source |-> "system"])]
  /\ UNCHANGED <<refundedAt, shippedAt, restocks, req>>
-----------------------------------------------------------------------------
Finish(r) == req' = [req EXCEPT ![r] = Idle]

\* Mutated form: get_object() answers for an order that does not exist.
LoadUnchecked(r, o, t) ==
  /\ req[r] = Idle
  /\ req' = [req EXCEPT ![r] =
       [kind |-> "status", order |-> o, target |-> t, seen |-> status[o]]]
  /\ UNCHANGED <<status, method, money, shippedAt, restocks>>

\* get_object() of update_status.
LoadForStatus(r, o, t) ==
  /\ req[r] = Idle
  /\ status[o] # "absent"
  /\ t = "cancelled" => restocks[o] < MaxCancels
  /\ req' = [req EXCEPT ![r] =
       [kind |-> "status", order |-> o, target |-> t, seen |-> status[o]]]
  /\ UNCHANGED <<status, method, money, shippedAt, restocks>>

\* get_object() of update_payment.
LoadForPayment(r, o, t) ==
  /\ req[r] = Idle
  /\ status[o] # "absent"
  /\ Len(events[o]) < MaxEvents
  /\ req' = [req EXCEPT ![r] =
       [kind |-> "payment", order |-> o, target |-> t, seen |-> payment[o]]]
  /\ UNCHANGED <<status, method, money, shippedAt, restocks>>

\* Mutated form: a delivery order may be marked delivered straight away.
SkipShipping(m, s) ==
  CASE s = "prepared" -> {"sent", "delivered", "cancelled"}
    [] s = "sent"     -> {"delivered", "cancelled"}
    [] OTHER          -> {}

\* shipping.get_allowed_next_statuses: where an order in `s` may go.
AllowedNext(m, s) ==
  CASE s = "prepared" -> {IF m = "delivery" THEN "sent" ELSE "delivered",
                          "cancelled"}
    [] s = "sent"     -> {"delivered", "cancelled"}
    [] OTHER          -> {}

\* The request asks for `t`, and the copy it has read allows it.
MayMoveTo(r, t) ==
  /\ req[r].kind = "status"
  /\ req[r].target = t
  /\ t # req[r].seen
  /\ t \in AllowedNext(method[req[r].order], req[r].seen)

\* A repeat of the status it has read, a move that copy does not allow, or a
\* "sent" that lacks its carrier or tracking code: nothing is written.
StatusUnchanged(r) ==
  /\ req[r].kind = "status"
  /\ \/ req[r].target = req[r].seen
     \/ ~MayMoveTo(r, req[r].target)
     \/ req[r].target = "sent"
  /\ Finish(r)
  /\ UNCHANGED <<status, method, money, shippedAt, restocks>>

\* order.save(update_fields=[status, carrier, tracking, shipped_at]), unlocked.
Send(r) ==
  /\ MayMoveTo(r, "sent")
  /\ LET o == req[r].order IN
       /\ status' = [status EXCEPT ![o] = "sent"]
       /\ shippedAt' = [shippedAt EXCEPT ![o] = TRUE]
  /\ Finish(r)
  /\ UNCHANGED <<method, money, restocks>>

\* order.save(update_fields=[status, delivered_at]), unlocked.
Deliver(r) ==
  /\ MayMoveTo(r, "delivered")
  /\ status' = [status EXCEPT ![req[r].order] = "delivered"]
  /\ Finish(r)
  /\ UNCHANGED <<method, money, shippedAt, restocks>>
-----------------------------------------------------------------------------
\* Mutated form: the transition is applied before its event is written.
MovePaymentUnlogged(o, to, source) ==
  /\ payment' = [payment EXCEPT ![o] = to]
  /\ paidAt' = [paidAt EXCEPT ![o] = @ \/ to = "paid"]
  /\ refundedAt' = [refundedAt EXCEPT ![o] = @ \/ to = "refunded"]
  /\ UNCHANGED events

\* The body of transition_payment on the locked row: the status, the first
\* paid_at / refunded_at, and one event, together.
MovePayment(o, to, source) ==
  /\ payment' = [payment EXCEPT ![o] = to]
  /\ paidAt' = [paidAt EXCEPT ![o] = @ \/ to = "paid"]
  /\ refundedAt' = [refundedAt EXCEPT ![o] = @ \/ to = "refunded"]
  /\ events' = [events EXCEPT ![o] = Append(@,
       [prev |-> payment[o], new |-> to, source |-> source])]

\* apply_order_cancellation finds, on the locked row, that another request
\* has cancelled the order already.
CancelTooLate(r) ==
  /\ MayMoveTo(r, "cancelled")
  /\ status[req[r].order] = "cancelled"
  /\ Finish(r)
  /\ UNCHANGED <<status, method, money, shippedAt, restocks>>

\* apply_order_cancellation: the items go back, the status changes and the
\* payment settles on its committed value, in one transaction.  The only
\* re-check on the locked row is "already cancelled".
Cancel(r) ==
  /\ MayMoveTo(r, "cancelled")
  /\ LET o == req[r].order
         to == SettledPayment(payment[o])
     IN  /\ status[o] # "cancelled"
         /\ restocks' = [restocks EXCEPT ![o] = @ + 1]
         /\ status' = [status EXCEPT ![o] = "cancelled"]
         /\ \/ payment[o] # to /\ MovePayment(o, to, "system")
            \/ payment[o] = to /\ UNCHANGED money
  /\ Finish(r)
  /\ UNCHANGED <<method, shippedAt>>
-----------------------------------------------------------------------------
\* Mutated form: update_payment relies on the transition graph alone.
OfferAnyTarget(r) == req[r].kind = "payment"

\* The copy update_payment has read allows the operator's choice.
PaymentOffered(r) ==
  /\ req[r].kind = "payment"
  /\ \/ req[r].target = req[r].seen
     \/ req[r].target \in ManualTargets(req[r].seen)

\* Refused on the copy, refused on the locked row, or already there.
PaymentUnchanged(r) ==
  /\ req[r].kind = "payment"
  /\ \/ ~PaymentOffered(r)
     \/ ~CanTransition(payment[req[r].order], req[r].target)
  /\ Finish(r)
  /\ UNCHANGED <<status, method, money, shippedAt, restocks>>

\* transition_payment succeeds on the locked row.
ApplyPayment(r) ==
  /\ PaymentOffered(r)
  /\ CanTransition(payment[req[r].order], req[r].target)
  /\ MovePayment(req[r].order, req[r].target, "manual")
  /\ Finish(r)
  /\ UNCHANGED <<status, method, shippedAt, restocks>>
-----------------------------------------------------------------------------
Create(o) == PdvSale(o) \/ \E m \in DeliveryMethod : Checkout(o, m)

Load(r) ==
  \E o \in Orders :
    \/ \E t \in OrderStatus : LoadForStatus(r, o, t)
    \/ \E t \in PaymentStatus : LoadForPayment(r, o, t)

Handle(r) ==
  \/ StatusUnchanged(r) \/ Send(r) \/ Deliver(r)
  \/ CancelTooLate(r) \/ Cancel(r)
  \/ PaymentUnchanged(r) \/ ApplyPayment(r)

Next ==
  \/ \E o \in Orders : Create(o)
  \/ \E r \in Requests : Load(r) \/ Handle(r)

Spec == Init /\ [][Next]_vars
-----------------------------------------------------------------------------
\* The event ledger explains the payment status: the rows of an order form a
\* walk along the allowed edges from `pending` to the status the order has
\* now, whatever requests interleaved (payments.py: each successful
\* transition writes exactly one event in the transaction of the change).
EventTrail ==
  \A o \in Orders :
    LET trail == events[o] IN
      /\ \A i \in 1..Len(trail) :
           CanTransition(trail[i].prev, trail[i].new)
      /\ \A i \in 1..Len(trail) :
           trail[i].prev = IF i = 1 THEN "pending" ELSE trail[i-1].new
      /\ trail # <<>> => payment[o] = trail[Len(trail)].new
      /\ trail = <<>> => payment[o] \in {"none", "pending"}

\* A cancelled order never keeps an open or a kept payment: it is cancelled,
\* or a refund is due or done, even when a payment confirmation races the
\* cancellation (stock.apply_order_cancellation settles on the locked row).
CancelledIsSettled ==
  \A o \in Orders : status[o] = "cancelled" => payment[o] \in Settled

\* `cancelled` and `refund_pending` come from order cancellation only, never
\* from an operator's payment request, even one that validated an old copy
\* (views.update_payment and payments.MANUAL_OPERATOR_TARGETS).
ReversalsAreSystem ==
  \A o \in Orders : \A i \in 1..Len(events[o]) :
    events[o][i].new \in {"cancelled", "refund_pending"}
      => /\ events[o][i].source = "system"
         /\ restocks[o] > 0

\* Money is received, owed back and returned at most once per order, although
\* the cancellation of an order may run more than once.
SettlementsHappenOnce ==
  \A o \in Orders : \A i, j \in 1..Len(events[o]) :
    events[o][i].new = events[o][j].new /\ i # j
      => events[o][i].new \in {"pending", "failed"}

\* paid_at is set exactly on the orders whose money came in, refunded_at
\* exactly on those whose money went back.
TimestampsAgree ==
  \A o \in Orders :
    /\ paidAt[o] <=> payment[o] \in {"paid", "refund_pending", "refunded"}
    /\ refundedAt[o] <=> payment[o] = "refunded"

\* A delivery order is delivered only after it was sent with a carrier and a
\* tracking code, although each request validates an old copy
\* (update_status: prepared -> sent -> delivered).
DeliveredWasShipped ==
  \A o \in Orders :
    method[o] = "delivery" /\ status[o] = "delivered" => shippedAt[o]
-----------------------------------------------------------------------------
\* The items of one order are put back at most once (the docstring of
\* apply_order_cancellation: two cancel requests can never both restock).
RestockedAtMostOnce == \A o \in Orders : restocks[o] <= 1
=============================================================================
