------------------------------- MODULE MCBilling -------------------------------
(***************************************************************************)
(* A small house.  o1 is a beer (l1) and fries (l2), on two stations when  *)
(* the kitchen display is on; o2 is the same beer again (l3), so an 86 of  *)
(* it reaches both orders; l4 is a charge line of o2.  A configuration     *)
(* picks the visits, orders, lines and payments it needs.                  *)
(***************************************************************************)
EXTENDS BillingLedger, TLC

CONSTANTS v1, v2, o1, o2, l1, l2, l3, l4, beer, fries, fee

MCOrderOf  == [l \in Lines |-> IF l \in {l1, l2} THEN o1 ELSE o2]
MCItemOf   == [l \in Lines |-> IF l = l2 THEN fries ELSE IF l = l4 THEN fee ELSE beer]
MCFood     == {l2} \cap Lines
MCCharge   == {l4} \cap Lines
MCSeatKind == [v \in Visits |-> IF v = v1 THEN "table" ELSE "counter"]
MCSymmetry == Permutations(Payments)
===============================================================================
