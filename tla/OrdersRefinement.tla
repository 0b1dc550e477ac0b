-------------------------- MODULE OrdersRefinement --------------------------
(* Orders implements Settlement. *)
EXTENDS Orders

\* Pending and failed payments are both money that may still come in.
PhaseOf(p) ==
  CASE p = "none" -> "none"
    [] p \in {"pending", "failed"} -> "open"
    [] p = "paid" -> "received"
    [] p = "refund_pending" -> "owed"
    [] p = "refunded" -> "returned"
    [] p = "cancelled" -> "void"

S == INSTANCE Settlement
       WITH phase <- [o \in Orders |-> PhaseOf(payment[o])],
            dropped <- {o \in Orders : restocks[o] > 0}

\* Every behaviour of the order endpoints is one of the abstract settlement:
\* a second cancellation, a failed attempt or a stale request changes nothing
\* about where the money is.
ImplementsSettlement == S!Spec
=============================================================================
