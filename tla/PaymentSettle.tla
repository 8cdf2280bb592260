------------------------------ MODULE PaymentSettle ------------------------------
(***************************************************************************)
(* How a PromptPay payment leaves pending: staff mark it paid, a slip is   *)
(* verified by an outside provider, staff or guest cancel it, or the       *)
(* delayed job of the expiry queue finds it due.  Each of them locks the   *)
(* payment row and looks again; what follows the commit (the queue, the    *)
(* bell of the seat) is a step of its own and may be lost in a restart.    *)
(*                                                                         *)
(* The payments of one visit, one pending at a time (Billing).             *)
(***************************************************************************)
EXTENDS FiniteSets, Naturals

CONSTANTS
    Payments,
    Slips,      \* transaction references of bank slips
    Genuine,    \* slips for enough money to the account of the venue
    NoSlip,
    MaxChecks,  \* bound: slips at the provider at once
    QueueFails, \* the queue may refuse an enqueue or a removal
    EarlyJobs,  \* the queue's clock may be ahead of the server's
    Restarts    \* the server may restart, or not hear that it committed

ASSUME SlipsAssumption == Genuine \subseteq Slips /\ NoSlip \notin Slips
ASSUME ChecksAssumption == MaxChecks \in Nat

VARIABLES
    status,    \* payment.status
    via,       \* how it ended: confirmed_via or status_reason
    slip,      \* payment.slip_trans_ref
    due,       \* the clock passed payment.expires_at
    job,       \* the delayed job of the payment, as the queue has it
    todo,      \* steps left after a commit, as <<payment, step>>
    checking,  \* slips at the provider, as <<payment, slip>>
    telling,   \* payments a guest is about to report as transferred
    bell,      \* table_seat.staff_call_reason
    loaded,    \* a save of the seat's other columns has read a transfer bell
    stale      \* history: the bell rang too late, was not cleared or came back

vars == <<status, via, slip, due, job, todo, checking, telling, bell, loaded, stale>>

Ways == {"none", "staff", "slip", "cancelled by hand", "expired"}

TypeOK ==
    /\ status \in [Payments -> {"none", "pending", "completed", "cancelled"}]
    /\ via \in [Payments -> Ways]
    /\ slip \in [Payments -> Slips \cup {NoSlip}]
    /\ due \in [Payments -> BOOLEAN]
    /\ job \in [Payments -> {"none", "waiting", "failed"}]
    /\ todo \subseteq Payments \X {"schedule", "unschedule", "clearBell"}
    /\ checking \subseteq Payments \X Slips
    /\ telling \subseteq Payments
    /\ bell \in {"none", "transfer", "other"} /\ loaded \in BOOLEAN /\ stale \in BOOLEAN

Init ==
    /\ status = [p \in Payments |-> "none"]
    /\ via = [p \in Payments |-> "none"]
    /\ slip = [p \in Payments |-> NoSlip]
    /\ due = [p \in Payments |-> FALSE]
    /\ job = [p \in Payments |-> "none"]
    /\ todo = {} /\ checking = {} /\ telling = {}
    /\ bell = "none" /\ loaded = FALSE /\ stale = FALSE

Pending(p) == status[p] = "pending"

-------------------------------------------------------------------------------
(* Creation, and the job scheduled after its commit.                       *)

Create(p) ==
    /\ status[p] = "none"
    /\ \A q \in Payments : ~Pending(q)
    /\ status' = [status EXCEPT ![p] = "pending"]
    /\ todo' = todo \cup {<<p, "schedule">>}
    /\ UNCHANGED <<via, slip, due, job, checking, telling, bell, loaded, stale>>

(* The payment was pending when it was created; nobody looks again.        *)
Schedule(p) ==
    /\ <<p, "schedule">> \in todo
    /\ todo' = todo \ {<<p, "schedule">>}
    /\ \/ job' = [job EXCEPT ![p] = "waiting"]
       \/ QueueFails /\ UNCHANGED job
    /\ UNCHANGED <<status, via, slip, due, checking, telling, bell, loaded, stale>>

TimePasses(p) ==
    /\ Pending(p) /\ ~due[p]
    /\ due' = [due EXCEPT ![p] = TRUE]
    /\ UNCHANGED <<status, via, slip, job, todo, checking, telling, bell, loaded, stale>>

-------------------------------------------------------------------------------
(* The ends of a pending payment.                                          *)

(* Seeded fault (Leave): the status is not read again under the row lock.  *)
LeaveUnlocked(p, final, way, next) ==
    /\ status[p] # "none"
    /\ status' = [status EXCEPT ![p] = final]
    /\ via' = [via EXCEPT ![p] = way]
    /\ todo' = todo \cup {<<p, next>>}

Leave(p, final, way, next) ==
    /\ Pending(p)
    /\ status' = [status EXCEPT ![p] = final]
    /\ via' = [via EXCEPT ![p] = way]
    /\ todo' = todo \cup {<<p, next>>}

MarkPaid(p) ==
    /\ Leave(p, "completed", "staff", "unschedule")
    /\ UNCHANGED <<slip, due, job, checking, telling, bell, loaded, stale>>

Cancel(p) ==
    /\ Leave(p, "cancelled", "cancelled by hand", "unschedule")
    /\ UNCHANGED <<slip, due, job, checking, telling, bell, loaded, stale>>

(* verifySlip reads the payment, asks the provider outside any             *)
(* transaction, and comes back to whatever the payment is by then.         *)
SendSlip(p, s) ==
    /\ Pending(p) /\ Cardinality(checking) < MaxChecks
    /\ checking' = checking \cup {<<p, s>>}
    /\ UNCHANGED <<status, via, slip, due, job, todo, telling, bell, loaded, stale>>

(* Seeded fault (Used): only payments in flight are searched for the slip. *)
UsedNow(s) == \E q \in Payments : slip[q] = s /\ Pending(q)

Used(s) == \E q \in Payments : slip[q] = s

CompleteFromSlip(p, s) ==
    /\ s \in Genuine /\ ~Used(s)
    /\ Leave(p, "completed", "slip", "unschedule")
    /\ slip' = [slip EXCEPT ![p] = s]

SlipAnswer(p, s) ==
    /\ <<p, s>> \in checking
    /\ checking' = checking \ {<<p, s>>}
    /\ \/ CompleteFromSlip(p, s)
       \/ /\ ~(Pending(p) /\ s \in Genuine /\ ~Used(s))
          /\ UNCHANGED <<status, via, slip, todo>>
    /\ UNCHANGED <<due, job, telling, bell, loaded, stale>>

(* The provider is down or refuses the slip.                               *)
SlipRefused(p, s) ==
    /\ <<p, s>> \in checking
    /\ checking' = checking \ {<<p, s>>}
    /\ UNCHANGED <<status, via, slip, due, job, todo, telling, bell, loaded, stale>>

IsDue(p) == due[p]

(* The worker takes the job off the queue; a payment that is settled or    *)
(* not due yet is left alone, and the job does not come back.  It is added *)
(* for a single attempt: when the transaction throws the queue keeps it as *)
(* failed and never runs it again.                                         *)
RunJob(p) ==
    /\ job[p] = "waiting"
    /\ due[p] \/ ~Pending(p) \/ EarlyJobs
    /\ \/ /\ job' = [job EXCEPT ![p] = "none"]
          /\ IF Pending(p) /\ IsDue(p)
             THEN Leave(p, "cancelled", "expired", "clearBell")
             ELSE UNCHANGED <<status, via, todo>>
       \/ job' = [job EXCEPT ![p] = "failed"] /\ UNCHANGED <<status, via, todo>>
    /\ UNCHANGED <<slip, due, checking, telling, bell, loaded, stale>>

(* Seeded fault (Unschedule): jobs are keyed by the visit.                 *)
UnscheduleVisit(p) ==
    /\ <<p, "unschedule">> \in todo
    /\ todo' = (todo \ {<<p, "unschedule">>}) \cup {<<p, "clearBell">>}
    /\ job' = [q \in Payments |-> "none"]
    /\ UNCHANGED <<status, via, slip, due, checking, telling, bell, loaded, stale>>

(* Seeded fault (Unschedule): an error of the queue ends the handler.      *)
UnscheduleOrStop(p) ==
    /\ <<p, "unschedule">> \in todo
    /\ \/ /\ job' = [job EXCEPT ![p] = "none"]
          /\ todo' = (todo \ {<<p, "unschedule">>}) \cup {<<p, "clearBell">>}
       \/ QueueFails /\ todo' = todo \ {<<p, "unschedule">>} /\ UNCHANGED job
    /\ UNCHANGED <<status, via, slip, due, checking, telling, bell, loaded, stale>>

(* removeExpiry, then the transfer bell.                                   *)
Unschedule(p) ==
    /\ <<p, "unschedule">> \in todo
    /\ todo' = (todo \ {<<p, "unschedule">>}) \cup {<<p, "clearBell">>}
    /\ \/ job' = [job EXCEPT ![p] = "none"]
       \/ QueueFails /\ UNCHANGED job
    /\ UNCHANGED <<status, via, slip, due, checking, telling, bell, loaded, stale>>

-------------------------------------------------------------------------------
(* The bell of the seat.                                                   *)

(* notifyTransfer: the guest's phone finds the payment pending ...         *)
TellTransfer(p) ==
    /\ Pending(p)
    /\ telling' = telling \cup {p}
    /\ UNCHANGED <<status, via, slip, due, job, todo, checking, bell, loaded, stale>>

(* ... and rings, overwriting an older bell.                               *)
RingTransfer(p) ==
    /\ p \in telling
    /\ telling' = telling \ {p}
    /\ bell' = "transfer" /\ stale' = ~Pending(p)
    /\ UNCHANGED <<status, via, slip, due, job, todo, checking, loaded>>

CallStaff ==
    /\ bell' = "other" /\ stale' = FALSE
    /\ UNCHANGED <<status, via, slip, due, job, todo, checking, telling, loaded>>

Acknowledge ==
    /\ bell # "none"
    /\ bell' = "none" /\ stale' = FALSE
    /\ UNCHANGED <<status, via, slip, due, job, todo, checking, telling, loaded>>

(* A clear that throws is logged and forgotten.                            *)
ClearTransferCall(p) ==
    /\ <<p, "clearBell">> \in todo
    /\ todo' = todo \ {<<p, "clearBell">>}
    /\ \/ bell' = (IF bell = "transfer" THEN "none" ELSE bell) /\ stale' = FALSE
       \/ stale' = (stale \/ bell = "transfer") /\ UNCHANGED bell
    /\ UNCHANGED <<status, via, slip, due, job, checking, telling, loaded>>

(* A new QR sticker, a new label, another place in the list: the seat is   *)
(* read without a lock and saved whole, so a bell that changed in between  *)
(* is written back.  A save that read no bell, or another call, does to    *)
(* the bell what Acknowledge and CallStaff do.                             *)
LoadSeat ==
    /\ bell = "transfer" /\ ~loaded /\ loaded' = TRUE
    /\ UNCHANGED <<status, via, slip, due, job, todo, checking, telling, bell, stale>>

SaveSeat ==
    /\ loaded /\ loaded' = FALSE
    /\ bell' = "transfer" /\ stale' = (stale \/ bell # "transfer")
    /\ UNCHANGED <<status, via, slip, due, job, todo, checking, telling>>

(* A restart forgets what was not committed or queued.                     *)
Restart ==
    /\ Restarts
    /\ todo' = {} /\ checking' = {} /\ telling' = {} /\ loaded' = FALSE
    /\ stale' = (stale \/ (bell = "transfer" /\ todo # {}))
    /\ UNCHANGED <<status, via, slip, due, job, bell>>

(* The answer to the commit is lost: the handler throws, nothing follows.  *)
Stop(p) ==
    /\ Restarts /\ <<p, "unschedule">> \in todo
    /\ todo' = todo \ {<<p, "unschedule">>}
    /\ stale' = (stale \/ bell = "transfer")
    /\ UNCHANGED <<status, via, slip, due, job, checking, telling, bell, loaded>>

-------------------------------------------------------------------------------
AfterCommit(p) == Schedule(p) \/ Unschedule(p) \/ ClearTransferCall(p) \/ Stop(p)

SlipNext(p) == \E s \in Slips : SendSlip(p, s) \/ SlipAnswer(p, s) \/ SlipRefused(p, s)

PaymentNext(p) ==
    \/ Create(p) \/ TimePasses(p) \/ MarkPaid(p) \/ Cancel(p) \/ SlipNext(p) \/ RunJob(p)
    \/ AfterCommit(p) \/ TellTransfer(p) \/ RingTransfer(p)

Next ==
    \/ \E p \in Payments : PaymentNext(p)
    \/ CallStaff \/ Acknowledge \/ LoadSeat \/ SaveSeat \/ Restart

Spec == Init /\ [][Next]_vars

(* The clock runs and the worker takes jobs; staff, guests, the provider   *)
(* and the steps after a commit promise nothing.                           *)
FairSpec ==
    /\ Spec
    /\ \A p \in Payments : WF_vars(TimePasses(p)) /\ WF_vars(RunJob(p))

-------------------------------------------------------------------------------
(* Properties.                                                             *)

(* Of the writers that race for a pending payment one wins: how it ended   *)
(* is never rewritten, whatever answers or fires later.                    *)
SettledIsFinal ==
    [][\A p \in Payments : status[p] \in {"completed", "cancelled"} =>
          status'[p] = status[p] /\ via'[p] = via[p] /\ slip'[p] = slip[p]]_vars

(* A slip completes one payment, and only a slip that pays for it.         *)
SlipBacksOnePayment ==
    /\ \A p \in Payments : (via[p] = "slip") = (slip[p] # NoSlip)
    /\ \A p \in Payments : slip[p] # NoSlip => slip[p] \in Genuine /\ status[p] = "completed"
    /\ \A p, q \in Payments : slip[p] # NoSlip /\ slip[p] = slip[q] => p = q

(* The job only cancels a QR whose time is over, even when the queue fires *)
(* early.                                                                  *)
ExpiredWasDue == \A p \in Payments : via[p] = "expired" => due[p]

(* A slip is spent once, and nothing is cancelled before its time.         *)
SettleInv == SlipBacksOnePayment /\ ExpiredWasDue

(* The queue fired the job of p before its time, and will not again.       *)
FiredEarly(p) == ~due[p] /\ job[p] = "none"

(* A QR nobody touches does not lock the bill for ever: once the queue     *)
(* took its delayed job the payment ends, whatever restarts, refused       *)
(* removals and other payments of the visit come in between.  The code has *)
(* two ways out: a job that fired early, and one whose only attempt threw. *)
PendingEnds ==
    \A p \in Payments : Pending(p) /\ job[p] = "waiting" ~>
        ~Pending(p) \/ FiredEarly(p) \/ job[p] = "failed"

(* BRIEF-052: the transfer bell clears when its payment leaves pending, in *)
(* whichever of the four ways and with the queue down: it rings for a      *)
(* pending payment or is about to be cleared.  The code has four ways out: *)
(* a phone that rings after the end, a restart or a lost answer of the     *)
(* commit that leaves the clearing out, a clearing that throws, and a save *)
(* of the seat that brings an old bell back.                               *)
TransferBellHasPayment ==
    bell = "transfer" /\ ~stale =>
        \E p \in Payments : Pending(p) \/ <<p, "unschedule">> \in todo \/ <<p, "clearBell">> \in todo
===============================================================================
