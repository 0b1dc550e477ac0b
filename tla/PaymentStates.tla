--------------------------- MODULE PaymentStates ---------------------------
(***************************************************************************)
(* The payment states of an order and the two tables of payments.py that   *)
(* say how they may move: the full graph, and the part of it an operator   *)
(* may walk by hand.                                                       *)
(***************************************************************************)

PaymentStatus ==
  {"pending", "paid", "failed", "refund_pending", "refunded", "cancelled"}

\* Mutated form: the graph with an edge back out of `refund_pending`.
RefundCanBeRevoked ==
  {<<"pending", "paid">>, <<"pending", "failed">>, <<"pending", "cancelled">>,
   <<"failed", "pending">>, <<"failed", "cancelled">>,
   <<"paid", "refund_pending">>, <<"refund_pending", "refunded">>,
   <<"refund_pending", "paid">>}

\* Mutated form: a paid order may be marked as failed.
PaidCanFail ==
  {<<"pending", "paid">>, <<"pending", "failed">>, <<"pending", "cancelled">>,
   <<"failed", "pending">>, <<"failed", "cancelled">>,
   <<"paid", "refund_pending">>, <<"paid", "failed">>,
   <<"refund_pending", "refunded">>}

\* The edges of payments.ALLOWED_TRANSITIONS.
AllowedTransitions ==
  {<<"pending", "paid">>, <<"pending", "failed">>, <<"pending", "cancelled">>,
   <<"failed", "pending">>, <<"failed", "cancelled">>,
   <<"paid", "refund_pending">>, <<"refund_pending", "refunded">>}

CanTransition(current, requested) ==
  <<current, requested>> \in AllowedTransitions

\* payments.MANUAL_OPERATOR_TARGETS: what an operator may choose from `p`.
ManualTargets(p) ==
  {q \in {"paid", "failed"} : p = "pending"}
    \cup {q \in {"pending"} : p = "failed"}
    \cup {q \in {"refunded"} : p = "refund_pending"}

\* Mutated form: the settlement forgets that a failed payment is still open.
SettleOnlyPending(p) ==
  IF p = "pending" THEN "cancelled"
  ELSE IF p = "paid" THEN "refund_pending" ELSE p

\* Where settle_payment_for_cancelled_order leaves a payment found in `p`.
SettledPayment(p) ==
  IF p \in {"pending", "failed"} THEN "cancelled"
  ELSE IF p = "paid" THEN "refund_pending" ELSE p

\* Payment states in which a cancelled order may rest.
Settled == {"cancelled", "refund_pending", "refunded"}
=============================================================================
