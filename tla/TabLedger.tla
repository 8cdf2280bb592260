------------------------------- MODULE TabLedger -------------------------------
(***************************************************************************)
(* What the tab promises, without lines, tickets or payment rows: an order *)
(* is due, locked in the payment in flight, or paid.  A visit has at most  *)
(* one lock at a time, a paid order stays paid, and a visit with a lock    *)
(* does not close.                                                         *)
(***************************************************************************)
CONSTANTS Visits, Orders, NoVisit

VARIABLES
    tab,     \* "none", "live" or "closed", of a visit
    home,    \* the visit an order was placed on
    ledger   \* "none", "due", "locked" or "paid"

ledgerVars == <<tab, home, ledger>>

OrdersIn(v, status) == {o \in Orders : home[o] = v /\ ledger[o] = status}
Move(S, status) == ledger' = [o \in Orders |-> IF o \in S THEN status ELSE ledger[o]]

LedgerInit ==
    /\ tab = [v \in Visits |-> "none"]
    /\ home = [o \in Orders |-> NoVisit]
    /\ ledger = [o \in Orders |-> "none"]

Open(v) ==
    /\ tab[v] = "none"
    /\ tab' = [tab EXCEPT ![v] = "live"]
    /\ UNCHANGED <<home, ledger>>

(* An order lands on a live visit, or on one it opens itself.              *)
Add(o, v) ==
    /\ ledger[o] = "none"
    /\ tab[v] # "closed"
    /\ tab' = [tab EXCEPT ![v] = "live"]
    /\ home' = [home EXCEPT ![o] = v]
    /\ ledger' = [ledger EXCEPT ![o] = "due"]

(* A payment attempt takes due orders, when nothing is locked.             *)
Take(v, status) ==
    /\ tab[v] = "live"
    /\ OrdersIn(v, "locked") = {}
    /\ \E S \in SUBSET OrdersIn(v, "due") : S # {} /\ Move(S, status)
    /\ UNCHANGED <<tab, home>>

Lock(v)    == Take(v, "locked")
PayNow(v)  == Take(v, "paid")

Finish(v, status) ==
    /\ OrdersIn(v, "locked") # {}
    /\ Move(OrdersIn(v, "locked"), status)
    /\ UNCHANGED <<tab, home>>

Settle(v)  == Finish(v, "paid")
Release(v) == Finish(v, "due")

Close(v) ==
    /\ tab[v] = "live"
    /\ OrdersIn(v, "locked") = {}
    /\ tab' = [tab EXCEPT ![v] = "closed"]
    /\ UNCHANGED <<home, ledger>>

LedgerNext ==
    \E v \in Visits :
        \/ Open(v) \/ Lock(v) \/ PayNow(v) \/ Settle(v) \/ Release(v) \/ Close(v)
        \/ \E o \in Orders : Add(o, v)

LedgerSpec == LedgerInit /\ [][LedgerNext]_ledgerVars
===============================================================================
