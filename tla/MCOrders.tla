------------------------------ MODULE MCOrders ------------------------------
(* Orders with a small number of orders and of requests in progress. *)
EXTENDS OrdersInvariant, TLC

Symmetry == Permutations(Requests) \cup Permutations(Orders)
=============================================================================
