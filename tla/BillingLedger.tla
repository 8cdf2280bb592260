----------------------------- MODULE BillingLedger -----------------------------
(***************************************************************************)
(* Billing implements TabLedger: an order is paid when a completed payment *)
(* covers it, locked when a pending one does.                              *)
(***************************************************************************)
EXTENDS Billing

LockedOrder(o) == \E p \in Payments : payStatus[p] = "pending" /\ o \in payOrders[p]

LedgerOf(o) ==
    IF orderVisit[o] = NoVisit THEN "none"
    ELSE IF Covered(o) THEN "paid"
    ELSE IF LockedOrder(o) THEN "locked"
    ELSE "due"

Ledger == INSTANCE TabLedger WITH
    tab    <- [v \in Visits |-> IF IsLive(v) THEN "live" ELSE visit[v]],
    home   <- orderVisit,
    ledger <- [o \in Orders |-> LedgerOf(o)]

(* Every step of the code's transactions is a step of the promised ledger, *)
(* or none: paid orders never fall back to due, a lock is taken whole and  *)
(* released or settled whole.                                              *)
ImplementsLedger == Ledger!LedgerSpec
===============================================================================
