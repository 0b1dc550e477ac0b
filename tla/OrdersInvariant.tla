--------------------------- MODULE OrdersInvariant ---------------------------
(***************************************************************************)
(* The inductive invariant behind the properties of Orders.  None of them  *)
(* is inductive alone: what a request may do depends on how far the order  *)
(* can have moved since the request read it.                               *)
(***************************************************************************)
EXTENDS OrdersRefinement

\* An order that exists has a payment status.
Existing == \A o \in Orders : status[o] = "absent" <=> payment[o] = "none"

\* A request in progress is about an order that exists.
RequestsExist ==
  \A r \in Requests : req[r] # Idle => status[req[r].order] # "absent"

\* The well-formedness of the state: its types, and who exists.
WellFormed == TypeOK /\ Existing /\ RequestsExist

\* The payments that can be found where one was seen in `p`, as far as the
\* argument needs it: settled and paid ones never come back.
Later(p) ==
  CASE p \in {"pending", "failed"} -> PaymentStatus
    [] p = "paid" -> {"paid", "refund_pending", "refunded"}
    [] p = "refund_pending" -> {"refund_pending", "refunded"}
    [] OTHER -> {p}

\* A payment request has seen an earlier status of the order's payment.
SeenBehind ==
  \A r \in Requests :
    req[r].kind = "payment" => payment[req[r].order] \in Later(req[r].seen)

\* Exactly the orders that were cancelled at least once have settled.
CancelSettles ==
  \A o \in Orders : restocks[o] > 0 <=> payment[o] \in Settled

\* Whatever `sent` is seen of a delivery order, it has been shipped.
SentWasShipped ==
  /\ \A o \in Orders : status[o] = "sent" => shippedAt[o]
  /\ \A r \in Requests :
       req[r].kind = "status" /\ req[r].seen = "sent"
         => shippedAt[req[r].order]

\* How far a payment has settled.
Rank(p) ==
  CASE p \in {"paid", "cancelled"} -> 1
    [] p = "refund_pending" -> 2
    [] p = "refunded" -> 3
    [] OTHER -> 0

\* The settlement of an order only ever advances along its events.
RankAdvances ==
  \A o \in Orders : \A i \in 1..Len(events[o]) :
    /\ Rank(events[o][i].new) <= Rank(payment[o])
    /\ events[o][i].new \notin {"pending", "failed"} =>
         \A j \in 1..(i-1) : Rank(events[o][j].new) < Rank(events[o][i].new)

\* The inductive invariant: a shipping part, a money part, and the trail.
ShippingInv == SentWasShipped /\ DeliveredWasShipped
MoneyInv ==
  SeenBehind /\ CancelSettles /\ CancelledIsSettled /\ TimestampsAgree
TrailInv == EventTrail /\ RankAdvances /\ ReversalsAreSystem

IInv == WellFormed /\ ShippingInv /\ MoneyInv /\ TrailInv
=============================================================================
