----------------------------- MODULE MCCheckout -----------------------------
\* Instances of Checkout for TLC.
EXTENDS Checkout, TLC
=============================================================================
