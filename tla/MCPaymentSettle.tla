----------------------------- MODULE MCPaymentSettle -----------------------------
(***************************************************************************)
(* Two payments of a visit, one after the other, a slip that pays and one  *)
(* that does not.                                                          *)
(***************************************************************************)
EXTENDS PaymentSettle, TLC

CONSTANTS good, bad
===============================================================================
