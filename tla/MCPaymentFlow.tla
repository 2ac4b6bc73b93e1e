--------------------------- MODULE MCPaymentFlow ---------------------------
(* The payment flow on small instances.                                    *)
EXTENDS PaymentFlow
=============================================================================
