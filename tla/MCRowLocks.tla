------------------------------- MODULE MCRowLocks -------------------------------
(***************************************************************************)
(* One order of two beers (l1, l2 on t1) is on the tab; t2 with one beer   *)
(* (l3) may be placed.  Requests are interchangeable.                      *)
(***************************************************************************)
EXTENDS RowBilling, TLC

CONSTANTS t1, t2, l1, l2, l3

MCTicketRowOf == [l \in Lines |-> IF l = l3 THEN t2 ELSE t1]
MCSymmetry == Permutations(Procs)
===============================================================================
