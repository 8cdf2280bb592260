------------------------------- MODULE RowBilling -------------------------------
(***************************************************************************)
(* The committed rows of RowLocks, read as a state of Billing: one visit,  *)
(* an order per ticket, everything on the bar.                             *)
(***************************************************************************)
EXTENDS RowLocks

TheVisit == "visit"
If(row, value) == IF db[row] = "none" THEN "none" ELSE value

VisitOfRows      == [v \in {TheVisit} |-> db["visit"]]
OrderVisitOfRows == [k \in TicketRows |-> If(k, TheVisit)]
LineOfRows       == [l \in Lines |-> db[l]]
BucketOfRows     == [l \in Lines |-> If(l, "bar")]
TicketOfRows     == [k \in TicketRows \X Buckets |-> IF k[2] = "bar" THEN db[k[1]] ELSE "none"]
StatusOfRows     == [q \in Procs |-> db[q].status]
PayVisitOfRows   == [q \in Procs |-> IF db[q].status = "none" THEN "none" ELSE TheVisit]
PayOrdersOfRows  == [q \in Procs |-> db[q].orders]
PayLinesOfRows   == [q \in Procs |-> db[q].lines]
AvailableOfRows  == [i \in {"menu"} |-> db["menu"] = "on"]
MenuOfLines      == [l \in Lines |-> "menu"]
SeatOfVisits     == [v \in {TheVisit} |-> "counter"]

Bill == INSTANCE Billing WITH
    Visits <- {TheVisit}, Orders <- TicketRows, Items <- {"menu"}, Payments <- Procs,
    OrderOf <- TicketRowOf, ItemOf <- MenuOfLines, SeatKind <- SeatOfVisits, NoVisit <- "none",
    FoodLines <- {}, ChargeLines <- {}, FreeLines <- {},
    visit <- VisitOfRows, orderVisit <- OrderVisitOfRows, line <- LineOfRows,
    bucket <- BucketOfRows, ticket <- TicketOfRows,
    payStatus <- StatusOfRows, payVisit <- PayVisitOfRows, payOrders <- PayOrdersOfRows,
    payLines <- PayLinesOfRows, available <- AvailableOfRows, kitchenOn <- FALSE

(* What Billing promises of one step at a time holds of what is committed, *)
(* however the statements of the transactions interleave: the money of the *)
(* visit, and a ticket that two voids, an 86 and a cook meet on is         *)
(* cancelled exactly when its last line is voided.                         *)
RowsInv == TypeOK /\ Bill!MoneyInv /\ Bill!CancelledIffEmpty

(* An 86 skipped the tab for a payment in flight that ended before the 86  *)
(* did: the two behave one after the other, not in the order they commit.  *)
LateSoldOut ==
    /\ \E q \in Procs : db[q] # NoPayment
    /\ db["menu"] = "on" /\ db' = [db EXCEPT !["menu"] = "off"]

(* The row locks make the transactions atomic: each commit is one step of  *)
(* Billing on the rows committed before it.                                *)
CommitsAreBillingSteps == [][Bill!Next \/ LateSoldOut]_(Bill!vars)
===============================================================================
