------------------------------ MODULE MCSeatVisit ------------------------------
(***************************************************************************)
(* One table (seats do not share rows) with the visits of an evening.      *)
(***************************************************************************)
EXTENDS SeatVisit
===============================================================================
