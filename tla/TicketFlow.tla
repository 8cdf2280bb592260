------------------------------ MODULE TicketFlow ------------------------------
(***************************************************************************)
(* The transition rules of a station ticket (ticket-transition.ts) and the *)
(* routing of an order line to the ticket of a station (order-lines.ts).   *)
(* Only operators: Billing and RowLocks apply them to their own state.     *)
(***************************************************************************)

SeatKinds == {"table", "counter"}
Buckets   == {"bar", "food", "charge"}

(* order_ticket.status; "escalated" is an issue with issue_escalated_at    *)
(* set, which no status outside an issue ever reads.                       *)
Statuses == {"pending", "accepted", "ready", "sent", "issue", "escalated", "cancelled"}

(* Statuses a ticket still has work in: FlagIssue may raise an issue on it. *)
InProgress == {"pending", "accepted", "ready"}

(* A counter seat is served directly: the pass ("ready") exists only for   *)
(* tables, and only while the kitchen display is on (DR-011).              *)
ReadyStepApplies(kitchenOn, seatKind) == kitchenOn /\ seatKind = "table"

(* The ticket a line is routed to: its own charge ticket, the food station *)
(* when the kitchen display is on, the bar otherwise.                      *)
BucketFor(isCharge, isFood, kitchenOn) ==
    IF isCharge THEN "charge" ELSE IF kitchenOn /\ isFood THEN "food" ELSE "bar"

(* A charge ticket has nothing to prepare and is born served.              *)
FirstStatus(bucket) == IF bucket = "charge" THEN "sent" ELSE "pending"

CanAccept(status)          == status = "pending"
CanReady(status, readyStep) == status = "accepted" /\ readyStep
CanSend(status, readyStep)  == status = "ready" \/ (status = "accepted" /\ ~readyStep)
CanFlag(status)            == status \in InProgress
CanSubstitute(status)      == status \in {"issue", "escalated"}
CanEscalate(status)        == status = "issue"
===============================================================================
