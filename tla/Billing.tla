-------------------------------- MODULE Billing --------------------------------
(***************************************************************************)
(* The tab of a visit: orders and their lines, the station tickets that    *)
(* carry the lines, and the payments that freeze and settle the bill       *)
(* (VisitService, OrderService, TicketService, OrderAdjustmentService,     *)
(* SoldOutService, PaymentService).                                        *)
(*                                                                         *)
(* One action is one database transaction, taken at its commit; that the   *)
(* row locks make the transactions behave as single steps is the subject   *)
(* of RowLocks.  Prices are abstracted to the set of lines they come from: *)
(* the amount of a payment is the total price of payLines.                 *)
(***************************************************************************)
EXTENDS TicketFlow, FiniteSets

CONSTANTS
    Visits,       \* visit rows
    Orders,       \* order rows; an order is placed once, on one visit
    Lines,        \* order lines
    Items,        \* menu items
    Payments,     \* payment rows
    OrderOf,      \* the order a line belongs to
    ItemOf,       \* the menu item of a line
    FoodLines,    \* lines the kitchen prepares
    ChargeLines,  \* service charge, corkage, ...
    FreeLines,    \* lines whose price is 0
    SeatKind,     \* the kind of seat a visit sits at
    NoVisit       \* visit of an order that is not placed

ASSUME LinesAssumption ==
    /\ OrderOf \in [Lines -> Orders]
    /\ ItemOf \in [Lines -> Items]
    /\ SeatKind \in [Visits -> SeatKinds]
    /\ FoodLines \subseteq Lines
    /\ ChargeLines \subseteq Lines
    /\ FreeLines \subseteq Lines
ASSUME NoVisitAssumption == NoVisit \notin Visits

VARIABLES
    visit,       \* visit.state ("none": no row yet)
    orderVisit,  \* order_record.visit_id
    line,        \* order_item.cancel_kind: active, void, comp ("none": no row yet)
    bucket,      \* station of the ticket the line is on
    ticket,      \* order_ticket.status by order and bucket ("none": no row)
    payStatus,   \* payment.status ("none": no row yet)
    payVisit,    \* payment.visit_id
    payOrders,   \* payment_order: the orders a payment covers
    payLines,    \* the lines whose prices make up payment.amount
    available,   \* menu_item.is_available
    kitchenOn    \* venue.kitchen_display_enabled

orderVars == <<orderVisit, line, bucket, ticket>>
payVars   == <<payStatus, payVisit, payOrders, payLines>>
menuVars  == <<available, kitchenOn>>
vars      == <<visit, orderVars, payVars, menuVars>>

-------------------------------------------------------------------------------
(* Queries.                                                                *)

Tickets  == Orders \X Buckets
LiveStates == {"open", "active"}   \* no code writes "idle" or "abandoned"
IsLive(v)  == visit[v] \in LiveStates

LinesOf(o)  == {l \in Lines : OrderOf[l] = o}
VisitOf(l)  == orderVisit[OrderOf[l]]
TicketOf(l) == <<OrderOf[l], bucket[l]>>
LinesOn(k)  == {l \in Lines : bucket[l] # "none" /\ TicketOf(l) = k}
ReadyStep(k) == ReadyStepApplies(kitchenOn, SeatKind[orderVisit[k[1]]])

PaidOnVisit(v)    == \E p \in Payments : payStatus[p] = "completed" /\ payVisit[p] = v
PendingOnVisit(v) == \E p \in Payments : payStatus[p] = "pending" /\ payVisit[p] = v
Covered(o) == \E p \in Payments : payStatus[p] = "completed" /\ o \in payOrders[p]

(* The lines that add to the total of a set of orders: a void line is off  *)
(* the bill, a comp line is on it at 0.                                    *)
Billable(S) == {l \in Lines : OrderOf[l] \in S /\ line[l] = "active" /\ l \notin FreeLines}

(* Seeded fault (Uncovered): a paid order stays on the bill.               *)
UncoveredOrPaid(v) == {o \in Orders : orderVisit[o] = v /\ Billable({o}) # {}}

(* Orders with something left to pay that no completed payment covers.     *)
Uncovered(v) == {o \in Orders : orderVisit[o] = v /\ ~Covered(o) /\ Billable({o}) # {}}

-------------------------------------------------------------------------------
TypeOK ==
    /\ visit \in [Visits -> LiveStates \cup {"none", "closed"}]
    /\ orderVisit \in [Orders -> Visits \cup {NoVisit}]
    /\ line \in [Lines -> {"none", "active", "void", "comp"}]
    /\ bucket \in [Lines -> Buckets \cup {"none"}]
    /\ ticket \in [Tickets -> Statuses \cup {"none"}]
    /\ payStatus \in [Payments -> {"none", "pending", "completed", "cancelled"}]
    /\ payVisit \in [Payments -> Visits \cup {NoVisit}]
    /\ payOrders \in [Payments -> SUBSET Orders]
    /\ payLines \in [Payments -> SUBSET Lines]
    /\ available \in [Items -> BOOLEAN]
    /\ kitchenOn \in BOOLEAN

Init ==
    /\ visit = [v \in Visits |-> "none"]
    /\ orderVisit = [o \in Orders |-> NoVisit]
    /\ line = [l \in Lines |-> "none"]
    /\ bucket = [l \in Lines |-> "none"]
    /\ ticket = [k \in Tickets |-> "none"]
    /\ payStatus = [p \in Payments |-> "none"]
    /\ payVisit = [p \in Payments |-> NoVisit]
    /\ payOrders = [p \in Payments |-> {}]
    /\ payLines = [p \in Payments |-> {}]
    /\ available = [i \in Items |-> TRUE]
    /\ kitchenOn \in BOOLEAN

-------------------------------------------------------------------------------
(* Visits.                                                                 *)

(* Staff open a table; the seat's own rules are in SeatVisit.              *)
OpenVisit(v) ==
    /\ visit[v] = "none"
    /\ visit' = [visit EXCEPT ![v] = "open"]
    /\ UNCHANGED <<orderVars, payVars, menuVars>>

(* Close is refused while a payment is in flight; an unpaid bill does not  *)
(* hold it back.                                                           *)
CloseVisit(v) ==
    /\ IsLive(v)
    /\ ~PendingOnVisit(v)
    /\ visit' = [visit EXCEPT ![v] = "closed"]
    /\ UNCHANGED <<orderVars, payVars, menuVars>>

-------------------------------------------------------------------------------
(* Orders.                                                                 *)

(* The rows an order inserts: every line active, one ticket per bucket.    *)
InsertOrder(o, v) ==
    LET route(l) == BucketFor(l \in ChargeLines, l \in FoodLines, kitchenOn)
    IN /\ orderVisit' = [orderVisit EXCEPT ![o] = v]
       /\ line' = [l \in Lines |-> IF l \in LinesOf(o) THEN "active" ELSE line[l]]
       /\ bucket' = [l \in Lines |-> IF l \in LinesOf(o) THEN route(l) ELSE bucket[l]]
       /\ ticket' = [k \in Tickets |->
                        IF \E l \in LinesOf(o) : k = <<o, route(l)>>
                        THEN FirstStatus(k[2]) ELSE ticket[k]]

CanPlace(o) ==
    /\ orderVisit[o] = NoVisit
    /\ LinesOf(o) # {}
    /\ \A l \in LinesOf(o) : available[ItemOf[l]]

(* A staff order on a live visit.  Orders are accepted while a payment is  *)
(* pending: they stay outside it and remain due.                           *)
PlaceOrder(o, v) ==
    /\ CanPlace(o)
    /\ IsLive(v)
    /\ visit' = [visit EXCEPT ![v] = "active"]
    /\ InsertOrder(o, v)
    /\ UNCHANGED <<payVars, menuVars>>

(* A guest order from a phone: no charge lines, and the first one may open *)
(* the visit in the same transaction.                                      *)
PlaceAsGuest(o, v) ==
    /\ CanPlace(o)
    /\ LinesOf(o) \cap ChargeLines = {}
    /\ visit[v] = "none" \/ IsLive(v)
    /\ visit' = [visit EXCEPT ![v] = "active"]
    /\ InsertOrder(o, v)
    /\ UNCHANGED <<payVars, menuVars>>

-------------------------------------------------------------------------------
(* Tickets.  No handler below looks at the visit: a ticket can be worked   *)
(* on after its visit closed.                                              *)

SetTicket(k, status) ==
    /\ ticket' = [ticket EXCEPT ![k] = status]
    /\ UNCHANGED <<visit, orderVisit, line, bucket, payVars, menuVars>>

Accept(k) == CanAccept(ticket[k]) /\ SetTicket(k, "accepted")
Ready(k)  == CanReady(ticket[k], ReadyStep(k)) /\ SetTicket(k, "ready")
Send(k)   == CanSend(ticket[k], ReadyStep(k)) /\ SetTicket(k, "sent")

FlagIssue(k)  == CanFlag(ticket[k]) /\ SetTicket(k, "issue")
Substitute(k) == CanSubstitute(ticket[k]) /\ SetTicket(k, "accepted")
Escalate(k)   == CanEscalate(ticket[k]) /\ SetTicket(k, "escalated")

-------------------------------------------------------------------------------
(* Lines leaving the bill.                                                 *)

(* Seeded fault (EmptiedBy): a comped line counts as gone.                 *)
EmptiedOrComped(S) ==
    {k \in Tickets : /\ \E l \in S : TicketOf(l) = k
                     /\ \A l \in LinesOn(k) : l \in S \/ line[l] # "active"}

(* Tickets that lose their last active line when the lines in S are voided.*)
EmptiedBy(S) ==
    {k \in Tickets : /\ \E l \in S : TicketOf(l) = k
                     /\ \A l \in LinesOn(k) : l \in S \/ line[l] = "void"}

VoidLines(S) ==
    /\ line' = [l \in Lines |-> IF l \in S THEN "void" ELSE line[l]]
    /\ ticket' = [k \in Tickets |-> IF k \in EmptiedBy(S) THEN "cancelled" ELSE ticket[k]]

(* Seeded fault (Adjustable): a pending payment does not stop it.          *)
AdjustableUnderQr(l) ==
    line[l] = "active" /\ IsLive(VisitOf(l)) /\ ~PaidOnVisit(VisitOf(l))

(* Manager void or comp: refused once a payment of the visit is pending or *)
(* completed.                                                              *)
Adjustable(l) ==
    /\ line[l] = "active"
    /\ IsLive(VisitOf(l))
    /\ ~PendingOnVisit(VisitOf(l))
    /\ ~PaidOnVisit(VisitOf(l))

VoidItem(l) ==
    /\ Adjustable(l)
    /\ VoidLines({l})
    /\ UNCHANGED <<visit, orderVisit, bucket, payVars, menuVars>>

CompItem(l) ==
    /\ Adjustable(l)
    /\ line' = [line EXCEPT ![l] = "comp"]
    /\ UNCHANGED <<visit, orderVisit, bucket, ticket, payVars, menuVars>>

(* Seeded fault (AutoVoided): the visit is not locked live first.          *)
AutoVoidedAnywhere(i) ==
    {l \in Lines : /\ ItemOf[l] = i
                   /\ line[l] = "active"
                   /\ ticket[TicketOf(l)] = "pending"
                   /\ ~PendingOnVisit(VisitOf(l))}

(* The lines an 86 of item i takes off: on tickets nobody has started, on  *)
(* live visits no payment is pending on.                                   *)
AutoVoided(i) ==
    {l \in Lines : /\ ItemOf[l] = i
                   /\ line[l] = "active"
                   /\ ticket[TicketOf(l)] = "pending"
                   /\ IsLive(VisitOf(l))
                   /\ ~PendingOnVisit(VisitOf(l))}

MarkUnavailable(i) ==
    /\ available[i]
    /\ available' = [available EXCEPT ![i] = FALSE]
    /\ VoidLines(AutoVoided(i))
    /\ UNCHANGED <<visit, orderVisit, bucket, payVars, kitchenOn>>

MarkAvailable(i) ==
    /\ ~available[i]
    /\ available' = [available EXCEPT ![i] = TRUE]
    /\ UNCHANGED <<visit, orderVars, payVars, kitchenOn>>

SwitchKitchenDisplay ==
    /\ kitchenOn' = ~kitchenOn
    /\ UNCHANGED <<visit, orderVars, payVars, available>>

-------------------------------------------------------------------------------
(* Payments.                                                               *)

(* The payment row and its payment_order rows.                             *)
InsertAttempt(p, v, status) ==
    /\ payStatus' = [payStatus EXCEPT ![p] = status]
    /\ payVisit' = [payVisit EXCEPT ![p] = v]
    /\ payOrders' = [payOrders EXCEPT ![p] = Uncovered(v)]
    /\ payLines' = [payLines EXCEPT ![p] = Billable(Uncovered(v))]
    /\ UNCHANGED <<visit, orderVars, menuVars>>

(* A payment attempt takes the whole remaining bill: a PromptPay QR waits  *)
(* as pending, cash is completed at once.                                  *)
CreatePayment(p, v, status) ==
    /\ payStatus[p] = "none"
    /\ IsLive(v)
    /\ ~PendingOnVisit(v)
    /\ Uncovered(v) # {}
    /\ InsertAttempt(p, v, status)

CreatePromptPay(p, v) == CreatePayment(p, v, "pending")
PayCash(p, v)         == CreatePayment(p, v, "completed")

(* Seeded fault (SettlePayment): markPaid covers the bill as it is now.    *)
SettleWholeBill(p) ==
    /\ payStatus[p] = "pending"
    /\ payStatus' = [payStatus EXCEPT ![p] = "completed"]
    /\ payOrders' = [payOrders EXCEPT ![p] = @ \cup Uncovered(payVisit[p])]
    /\ UNCHANGED <<visit, orderVars, payVisit, payLines, menuVars>>

(* markPaid, verifySlip, cancel and expire lock the payment row only and   *)
(* require it pending; PaymentSettle has their interleavings.              *)
SettlePayment(p) ==
    /\ payStatus[p] = "pending"
    /\ payStatus' = [payStatus EXCEPT ![p] = "completed"]
    /\ UNCHANGED <<visit, orderVars, payVisit, payOrders, payLines, menuVars>>

(* Seeded fault (DropPayment): a late cancel drops what was paid.          *)
DropAnyPayment(p) ==
    /\ payStatus[p] \in {"pending", "completed"}
    /\ payStatus' = [payStatus EXCEPT ![p] = "cancelled"]
    /\ UNCHANGED <<visit, orderVars, payVisit, payOrders, payLines, menuVars>>

DropPayment(p) ==
    /\ payStatus[p] = "pending"
    /\ payStatus' = [payStatus EXCEPT ![p] = "cancelled"]
    /\ UNCHANGED <<visit, orderVars, payVisit, payOrders, payLines, menuVars>>

-------------------------------------------------------------------------------
VisitNext == \E v \in Visits : OpenVisit(v) \/ CloseVisit(v)

OrderNext == \E o \in Orders, v \in Visits : PlaceOrder(o, v) \/ PlaceAsGuest(o, v)

TicketNext ==
    \E k \in Tickets :
        Accept(k) \/ Ready(k) \/ Send(k) \/ FlagIssue(k) \/ Substitute(k) \/ Escalate(k)

LineNext == \E l \in Lines : VoidItem(l) \/ CompItem(l)

MenuNext ==
    \/ \E i \in Items : MarkUnavailable(i) \/ MarkAvailable(i)
    \/ SwitchKitchenDisplay

PaymentNext ==
    \E p \in Payments :
        \/ \E v \in Visits : CreatePromptPay(p, v) \/ PayCash(p, v)
        \/ SettlePayment(p)
        \/ DropPayment(p)

Next == VisitNext \/ OrderNext \/ TicketNext \/ LineNext \/ MenuNext \/ PaymentNext

Spec == Init /\ [][Next]_vars

-------------------------------------------------------------------------------
(* Properties.                                                             *)

(* Rows belong together: a line exists exactly when its order does, and a  *)
(* payment covers orders of its own visit only.                            *)
RowsLinked ==
    /\ \A l \in Lines : line[l] = "none" <=> VisitOf(l) = NoVisit
    /\ \A l \in Lines : line[l] = "none" <=> bucket[l] = "none"
    /\ \A p \in Payments : payStatus[p] # "none" => payVisit[p] \in Visits
    /\ \A p \in Payments : \A o \in payOrders[p] :
          payStatus[p] # "none" /\ orderVisit[o] = payVisit[p]

(* FRD 7: one payment in flight per visit.  No index of the database says  *)
(* so; it rests on every attempt re-reading under the visit lock.          *)
OnePendingPerVisit ==
    \A p, q \in Payments :
        payStatus[p] = "pending" /\ payStatus[q] = "pending" /\ payVisit[p] = payVisit[q]
            => p = q

(* No order is charged twice: two payments that are pending or completed   *)
(* never cover the same order.                                             *)
InPlay(p) == payStatus[p] \in {"pending", "completed"}
NoDoubleCharge ==
    \A p, q \in Payments :
        p # q /\ InPlay(p) /\ InPlay(q) => payOrders[p] \cap payOrders[q] = {}

(* FRD 7 and 8: the amount of a payment in flight is what its orders cost  *)
(* now; no void, comp or 86 moved the bill under the QR.                   *)
PendingFrozen ==
    \A p \in Payments : payStatus[p] = "pending" => payLines[p] = Billable(payOrders[p])

(* A closed visit leaves no QR behind that a guest could still pay.        *)
PendingOnLiveVisit ==
    \A p \in Payments : payStatus[p] = "pending" => IsLive(payVisit[p])

(* A settled order never owes more: whatever is billable on it was part of *)
(* the amount of the payment that covers it.                               *)
PaidCoversBill ==
    \A p \in Payments :
        payStatus[p] = "completed" => Billable(payOrders[p]) \subseteq payLines[p]

(* The money invariant: inductive, and proved in BillingProofs.            *)
MoneyInv ==
    /\ RowsLinked
    /\ OnePendingPerVisit
    /\ NoDoubleCharge
    /\ PendingFrozen
    /\ PendingOnLiveVisit
    /\ PaidCoversBill

(* schema.sql: a ticket is cancelled exactly when every item on it is; a   *)
(* cook never starts an empty ticket and no live line hides on a dead one. *)
CancelledIffEmpty ==
    \A k \in Tickets :
        ticket[k] # "none" =>
            (ticket[k] = "cancelled" <=> \A l \in LinesOn(k) : line[l] = "void")

(* Once a visit is closed its bill is final: no line, order or payment of  *)
(* it changes any more, whatever the kitchen still does with its tickets.  *)
ClosedBillFinal ==
    [][\A v \in Visits : visit[v] = "closed" =>
          /\ visit'[v] = "closed"
          /\ \A o \in Orders : (orderVisit[o] = v) = (orderVisit'[o] = v)
          /\ \A l \in Lines : VisitOf(l) = v => line'[l] = line[l]
          /\ \A p \in Payments : payVisit[p] = v => payStatus'[p] = payStatus[p]]_vars
===============================================================================
