------------------------------ MODULE MCIdempotency ------------------------------
(***************************************************************************)
(* Retries under one key; a second payload makes one of them ask for       *)
(* something else.                                                         *)
(***************************************************************************)
EXTENDS Idempotency
===============================================================================
