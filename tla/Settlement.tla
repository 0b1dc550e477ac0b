----------------------------- MODULE Settlement -----------------------------
(***************************************************************************)
(* What the payment lifecycle promises a shop, without the requests, the   *)
(* locks, the failed attempts and the shipping status: the money of an     *)
(* order is received at most once, is owed back only because the order was *)
(* cancelled, and goes back only once it is owed.                          *)
(***************************************************************************)
CONSTANT Orders

VARIABLES
  phase,      \* where the money of each order is
  dropped     \* the orders cancelled at least once

vars == <<phase, dropped>>

Init ==
  /\ phase = [o \in Orders |-> "none"]
  /\ dropped = {}

Place(o) ==
  /\ phase[o] = "none"
  /\ \E p \in {"open", "received"} : phase' = [phase EXCEPT ![o] = p]
  /\ UNCHANGED dropped

Receive(o) ==
  /\ phase[o] = "open"
  /\ phase' = [phase EXCEPT ![o] = "received"]
  /\ UNCHANGED dropped

\* Cancelling settles an open payment, or opens a refund of a received one.
Drop(o) ==
  /\ o \notin dropped
  /\ dropped' = dropped \cup {o}
  /\ \/ phase[o] = "open" /\ phase' = [phase EXCEPT ![o] = "void"]
     \/ phase[o] = "received" /\ phase' = [phase EXCEPT ![o] = "owed"]

Return(o) ==
  /\ phase[o] = "owed"
  /\ phase' = [phase EXCEPT ![o] = "returned"]
  /\ UNCHANGED dropped

Next == \E o \in Orders : Place(o) \/ Receive(o) \/ Drop(o) \/ Return(o)

Spec == Init /\ [][Next]_vars
=============================================================================
