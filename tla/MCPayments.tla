----------------------------- MODULE MCPayments -----------------------------
(* Small instances of Payments for TLC: a card payment and crypto ones.    *)
EXTENDS Payments

OneCard == {1}
CardAndInvoice == {1, 2}
CardAndInvoices == {1, 2, 3}
OneInvoice == {2}
TwoInvoices == {2, 3}
None == {}
=============================================================================
