-------------------------------- MODULE RowLocks --------------------------------
(***************************************************************************)
(* The transactions of Billing statement by statement, on PostgreSQL at    *)
(* READ COMMITTED: a statement reads committed rows and its own writes, a  *)
(* locking statement waits for conflicting row locks, locks are kept until *)
(* commit or abort, and a cycle of waits costs one of its members.         *)
(*                                                                         *)
(* One visit with one order placed; a transaction is a list of steps, one  *)
(* per statement that locks, reads or writes, in the order of the code.    *)
(***************************************************************************)
EXTENDS TicketFlow, Sequences, Functions

CONSTANTS
    Procs,     \* concurrent requests; a payment row is named by its request
    TicketRows,  \* one order with one ticket each
    Lines,
    TicketRowOf, \* the ticket of a line
    Seed,      \* the ticket of the order already placed
    Kinds      \* the transactions that run

ASSUME RowsAssumption ==
    /\ TicketRowOf \in [Lines -> TicketRows] /\ Seed \in TicketRows
    /\ \A k \in TicketRows : \E l \in Lines : TicketRowOf[l] = k
ASSUME IdsAssumption ==
    /\ TicketRows \cap Lines = {} /\ TicketRows \cap Procs = {} /\ Lines \cap Procs = {}
    /\ {"menu", "venue", "visit"} \cap (TicketRows \cup Lines \cup Procs) = {}

VARIABLES
    db,     \* committed rows
    own,    \* rows a transaction wrote and has not committed
    held,   \* row locks, as <<row, mode>>
    rest,   \* the steps a transaction still has to take
    seen,   \* lines a transaction read and acts on later
    phase   \* "new", "running", "done"

vars == <<db, own, held, rest, seen, phase>>

Rows == {"menu", "venue", "visit"} \cup TicketRows \cup Lines \cup Procs
NoPayment == [status |-> "none", orders |-> {}, lines |-> {}, account |-> "none"]
LinesOf(k) == {l \in Lines : TicketRowOf[l] = k}

Init ==
    /\ db = [r \in Rows |->
               CASE r = "menu"   -> "on"
                 [] r = "venue"  -> "first account"
                 [] r = "visit"  -> "active"
                 [] r = Seed     -> "pending"
                 [] r \in Procs  -> NoPayment
                 [] OTHER        -> IF r \in LinesOf(Seed) THEN "active" ELSE "none"]
    /\ own = [p \in Procs |-> <<>>]
    /\ held = [p \in Procs |-> {}]
    /\ rest = [p \in Procs |-> <<>>]
    /\ seen = [p \in Procs |-> {}]
    /\ phase = [p \in Procs |-> "new"]

-------------------------------------------------------------------------------
(* The statements of each transaction, in order.                           *)

Step(op, row) == [op |-> op, row |-> row]

(* Seeded faults (Place): the menu is read without its lock; it is locked  *)
(* after the visit.                                                        *)
PlaceUnlocked(k)   == <<Step("claim", "visit"), Step("insertOrder", k)>>
PlaceVisitFirst(k) == <<Step("claim", "visit"), Step("shareMenu", "menu"), Step("insertOrder", k)>>

Place(k) == <<Step("shareMenu", "menu"), Step("claim", "visit"), Step("insertOrder", k)>>

(* Seeded faults (Pay): hasPending, or the totals, are read before the     *)
(* visit is locked; the account of the venue is read without its lock.     *)
PayCheckedEarly(p, insert) ==
    <<Step("noPending", "visit"), Step("lockLive", "visit"), Step("readTotals", "visit"),
      Step("readCovered", "visit"), Step("shareVenue", "venue"), Step(insert, p)>>
PayReadEarly(p, insert) ==
    <<Step("readTotals", "visit"), Step("readCovered", "visit"), Step("lockLive", "visit"),
      Step("noPending", "visit"), Step("shareVenue", "venue"), Step(insert, p)>>
PayUnshared(p, insert) ==
    <<Step("lockLive", "visit"), Step("noPending", "visit"), Step("readTotals", "visit"),
      Step("readCovered", "visit"), Step(insert, p)>>

Pay(p, insert) ==
    <<Step("lockLive", "visit"), Step("noPending", "visit"), Step("readTotals", "visit"),
      Step("readCovered", "visit"), Step("shareVenue", "venue"), Step(insert, p)>>

Close == <<Step("lockLive", "visit"), Step("noPending", "visit"), Step("closeVisit", "visit")>>

Comp(l) == <<Step("lockLine", l), Step("lockAdjustable", l), Step("lockPayments", l),
             Step("compLine", l)>>
Void(l) == <<Step("lockLine", l), Step("lockAdjustable", l), Step("lockPayments", l),
             Step("voidLine", l), Step("anyActive", TicketRowOf[l]),
             Step("cancelTicket", TicketRowOf[l])>>

SoldOut == <<Step("lockMenu", "menu"), Step("findLines", "menu"),
             Step("lockIfLive", "visit"), Step("skipIfPending", "visit")>>

(* An 86 goes on with the lines it found and has not come to, a ticket at  *)
(* a time.                                                                 *)
NextTicket(S) ==
    IF S = {} THEN <<>> ELSE <<Step("lockPending", TicketRowOf[CHOOSE l \in S : TRUE])>>
NextLine(k, S) ==
    IF S \cap LinesOf(k) = {} THEN <<Step("cancelIfEmpty", k)>>
    ELSE <<Step("voidIfActive", CHOOSE l \in S \cap LinesOf(k) : TRUE)>>

MoveAccount == <<Step("lockVenue", "venue"), Step("noneInFlight", "venue"), Step("saveAccount", "venue")>>

(* The requests p may carry.  A row id is inserted once, and a handler is  *)
(* given the id of a row that is committed.                                *)
Requests(p) ==
    LET placed == {k \in TicketRows : db[k] # "none"}
        taken  == UNION {DOMAIN own[q] \cup {s.row : s \in Range(rest[q])} : q \in Procs}
        on(kind, S) == IF kind \in Kinds THEN S ELSE {}
    IN UNION {
        on("place", {Place(k) : k \in (TicketRows \ placed) \ taken}),
        on("pay", {Pay(p, "insertPending")}),
        on("cash", {Pay(p, "insertCompleted")}),
        on("close", {Close}),
        on("adjust", {Void(l) : l \in {m \in Lines : db[m] # "none"}}),
        on("adjust", {Comp(l) : l \in {m \in Lines : db[m] # "none"}}),
        on("soldout", {SoldOut}),
        on("ticket", {<<Step(op, k)>> : op \in {"accept", "send"}, k \in placed}),
        on("settle", {<<Step(op, q)>> : op \in {"settle", "drop"},
                                        q \in {r \in Procs : db[r] # NoPayment}}),
        on("account", {MoveAccount})}

-------------------------------------------------------------------------------
(* Row locks and visibility.                                               *)

(* TLC's @@, written out for the proofs.                                   *)
Over(f, g) == [r \in DOMAIN f \cup DOMAIN g |-> IF r \in DOMAIN f THEN f[r] ELSE g[r]]
One(r, value) == [x \in {r} |-> value]

Sees(p, r) == IF r \in DOMAIN own[p] THEN own[p][r] ELSE db[r]
Op(p)  == Head(rest[p]).op
Row(p) == Head(rest[p]).row
Running(p) == phase[p] = "running" /\ rest[p] # <<>>

InPlay(p, q) == Sees(p, q).status \in {"pending", "completed"}
NonePending(p) == \A q \in Procs : Sees(p, q).status # "pending"
VisitLive(p) == Sees(p, "visit") \in {"open", "active"}

(* The locks the next statement of p takes; an UPDATE locks its row.       *)
Needs(p) ==
    CASE Op(p) \in {"shareMenu", "shareVenue"} -> {<<Row(p), "S">>}
      [] Op(p) = "lockAdjustable" -> {<<"visit", "X">>}
      [] Op(p) = "lockPayments" -> {<<q, "X">> : q \in {r \in Procs : InPlay(p, r)}}
      [] Op(p) = "voidIfActive" /\ Sees(p, Row(p)) # "active" -> {}
      [] Op(p) \in {"noPending", "skipIfPending", "noneInFlight", "readTotals", "readCovered",
                    "findLines", "anyActive"} -> {}
      [] OTHER -> {<<Row(p), "X">>}

WaitsFor(p, q) ==
    /\ p # q
    /\ Running(p)
    /\ \E need \in Needs(p), lock \in held[q] :
          need[1] = lock[1] /\ "X" \in {need[2], lock[2]}

(* Following the waits from p comes back to p.                             *)
Deadlocked(p) ==
    \A S \in SUBSET Procs :
        (\A q \in S \cup {p}, r \in Procs : WaitsFor(q, r) => r \in S) => p \in S

-------------------------------------------------------------------------------
(* What a statement may do to its transaction.                             *)

Turn(p, op) == Running(p) /\ Op(p) = op /\ \A q \in Procs : ~WaitsFor(p, q)

Then(p, steps) ==
    /\ rest' = [rest EXCEPT ![p] = steps]
    /\ held' = [held EXCEPT ![p] = @ \cup Needs(p)]
    /\ UNCHANGED <<db, phase>>

Go(p) == Then(p, Tail(rest[p])) /\ UNCHANGED <<own, seen>>
Read(p, S) == Then(p, Tail(rest[p])) /\ seen' = [seen EXCEPT ![p] = S] /\ UNCHANGED own
Write(p, f) == Then(p, Tail(rest[p])) /\ own' = [own EXCEPT ![p] = Over(f, @)] /\ UNCHANGED seen

End(p) ==
    /\ own' = [own EXCEPT ![p] = <<>>]
    /\ held' = [held EXCEPT ![p] = {}]
    /\ rest' = [rest EXCEPT ![p] = <<>>]
    /\ seen' = [seen EXCEPT ![p] = {}]
    /\ phase' = [phase EXCEPT ![p] = "done"]

Commit(p) == db' = Over(own[p], db) /\ End(p)
Abort(p)  == UNCHANGED db /\ End(p)

(* A failed check throws, which rolls the transaction back.                *)
Require(p, ok) == IF ok THEN Go(p) ELSE Abort(p)
WriteIf(p, ok, f) == IF ok THEN Write(p, f) ELSE Abort(p)

-------------------------------------------------------------------------------
Begin(p) ==
    /\ phase[p] = "new"
    /\ \E steps \in Requests(p) : rest' = [rest EXCEPT ![p] = steps]
    /\ phase' = [phase EXCEPT ![p] = "running"]
    /\ UNCHANGED <<db, own, held, seen>>

Finish(p) == phase[p] = "running" /\ rest[p] = <<>> /\ Commit(p)

(* Locks taken before anything is read under them.                         *)
TakeLock(p) ==
    \E op \in {"shareMenu", "shareVenue", "lockVenue", "lockLine"} : Turn(p, op) /\ Go(p)

(* Visit.                                                                  *)
LockLive(p) == Turn(p, "lockLive") /\ Require(p, VisitLive(p))
Claim(p) == Turn(p, "claim") /\ WriteIf(p, VisitLive(p), One("visit", "active"))
CloseVisit(p) == Turn(p, "closeVisit") /\ Write(p, One("visit", "closed"))

(* Orders.                                                                 *)
InsertOrder(p) ==
    /\ Turn(p, "insertOrder")
    /\ WriteIf(p, Sees(p, "menu") = "on",
               Over(One(Row(p), "pending"), [l \in LinesOf(Row(p)) |-> "active"]))

(* Payments.                                                               *)
NoPending(p) ==
    \E op \in {"noPending", "noneInFlight"} : Turn(p, op) /\ Require(p, NonePending(p))

ReadTotals(p) ==
    /\ Turn(p, "readTotals")
    /\ Read(p, {l \in Lines : Sees(p, l) = "active"})

ReadCovered(p) ==
    /\ Turn(p, "readCovered")
    /\ LET covered == UNION {Sees(p, q).orders : q \in {r \in Procs : Sees(p, r).status = "completed"}}
           open == {l \in seen[p] : TicketRowOf[l] \notin covered}
       IN IF open # {} THEN Read(p, open) ELSE Abort(p)

InsertPayment(p) ==
    \E status \in {"pending", "completed"} :
        /\ Turn(p, IF status = "pending" THEN "insertPending" ELSE "insertCompleted")
        /\ Write(p, One(p, [status  |-> status,
                            orders  |-> {TicketRowOf[l] : l \in seen[p]},
                            lines   |-> seen[p],
                            account |-> Sees(p, "venue")]))

EndPayment(p) ==
    \E op \in {"settle", "drop"} :
        /\ Turn(p, op)
        /\ LET row == Sees(p, Row(p))
               status == IF op = "settle" THEN "completed" ELSE "cancelled"
           IN WriteIf(p, row.status = "pending", One(Row(p), [row EXCEPT !.status = status]))

SaveAccount(p) == Turn(p, "saveAccount") /\ Write(p, One("venue", "second account"))

(* Void and comp: the line, then the visit, then the payments of the visit.*)
LockAdjustable(p) ==
    Turn(p, "lockAdjustable") /\ Require(p, Sees(p, Row(p)) = "active" /\ VisitLive(p))

LockPayments(p) == Turn(p, "lockPayments") /\ Require(p, \A q \in Procs : ~InPlay(p, q))

WriteLine(p) ==
    \E kind \in {"void", "comp"} :
        /\ Turn(p, IF kind = "void" THEN "voidLine" ELSE "compLine")
        /\ Write(p, One(Row(p), kind))

Emptied(p, k) == \A l \in LinesOf(k) : Sees(p, l) = "void"

AnyActive(p) ==
    /\ Turn(p, "anyActive")
    /\ IF Emptied(p, Row(p)) THEN Go(p) ELSE Then(p, <<>>) /\ UNCHANGED <<own, seen>>

CancelTicket(p) == Turn(p, "cancelTicket") /\ Write(p, One(Row(p), "cancelled"))

(* 86: the menu item, the lines found on it, the visit, then each ticket.  *)
LockMenu(p) ==
    /\ Turn(p, "lockMenu")
    /\ IF Sees(p, "menu") = "on" THEN Write(p, One("menu", "off")) ELSE Abort(p)

FindLines(p) ==
    /\ Turn(p, "findLines")
    /\ LET found == {l \in Lines : Sees(p, l) = "active" /\ Sees(p, TicketRowOf[l]) # "cancelled"}
       IN /\ Then(p, IF found = {} THEN <<>> ELSE Tail(rest[p]))
          /\ seen' = [seen EXCEPT ![p] = found]
    /\ UNCHANGED own

LockIfLive(p) ==
    /\ Turn(p, "lockIfLive")
    /\ IF VisitLive(p) THEN Go(p) ELSE Then(p, <<>>) /\ UNCHANGED <<own, seen>>

SkipIfPending(p) ==
    /\ Turn(p, "skipIfPending")
    /\ Then(p, IF NonePending(p) THEN NextTicket(seen[p]) ELSE <<>>)
    /\ UNCHANGED <<own, seen>>

(* A ticket that is started keeps its lines.                               *)
LockPending(p) ==
    LET k    == Row(p)
        left == IF Sees(p, k) = "pending" THEN seen[p] ELSE seen[p] \ LinesOf(k)
    IN
    /\ Turn(p, "lockPending")
    /\ Then(p, IF Sees(p, k) = "pending" THEN NextLine(k, left) ELSE NextTicket(left))
    /\ seen' = [seen EXCEPT ![p] = left]
    /\ UNCHANGED own

VoidIfActive(p) ==
    LET l == Row(p) IN
    /\ Turn(p, "voidIfActive")
    /\ own' = IF Sees(p, l) = "active" THEN [own EXCEPT ![p] = Over(One(l, "void"), @)] ELSE own
    /\ Then(p, NextLine(TicketRowOf[l], seen[p] \ {l}))
    /\ seen' = [seen EXCEPT ![p] = @ \ {l}]

CancelIfEmpty(p) ==
    LET k == Row(p) IN
    /\ Turn(p, "cancelIfEmpty")
    /\ own' = IF Emptied(p, k) THEN [own EXCEPT ![p] = Over(One(k, "cancelled"), @)] ELSE own
    /\ Then(p, NextTicket(seen[p]))
    /\ UNCHANGED seen

(* Tickets.                                                                *)
Accept(p) == Turn(p, "accept") /\ WriteIf(p, CanAccept(Sees(p, Row(p))), One(Row(p), "accepted"))
Send(p) == Turn(p, "send") /\ WriteIf(p, CanSend(Sees(p, Row(p)), FALSE), One(Row(p), "sent"))

(* PostgreSQL aborts one member of a wait cycle.                           *)
DeadlockVictim(p) == Running(p) /\ Deadlocked(p) /\ Abort(p)

-------------------------------------------------------------------------------
VisitStep(p) == LockLive(p) \/ Claim(p) \/ CloseVisit(p) \/ InsertOrder(p)
PaymentStep(p) ==
    \/ NoPending(p) \/ ReadTotals(p) \/ ReadCovered(p)
    \/ InsertPayment(p) \/ EndPayment(p) \/ SaveAccount(p)
AdjustStep(p) ==
    LockAdjustable(p) \/ LockPayments(p) \/ WriteLine(p) \/ AnyActive(p) \/ CancelTicket(p)
SoldOutStep(p) ==
    \/ LockMenu(p) \/ FindLines(p) \/ LockIfLive(p) \/ SkipIfPending(p)
    \/ LockPending(p) \/ VoidIfActive(p) \/ CancelIfEmpty(p)

Proceed(p) ==
    \/ TakeLock(p) \/ VisitStep(p) \/ PaymentStep(p) \/ AdjustStep(p) \/ SoldOutStep(p)
    \/ Accept(p) \/ Send(p) \/ Finish(p) \/ DeadlockVictim(p)

(* A request that neither runs, waits for its turn nor is a victim would   *)
(* stop the system: TLC's deadlock check answers for all of them.          *)
AllDone == (\A p \in Procs : phase[p] = "done") /\ UNCHANGED vars

Next == AllDone \/ \E p \in Procs : Begin(p) \/ Proceed(p)

Spec == Init /\ [][Next]_vars

-------------------------------------------------------------------------------
(* Properties.                                                             *)

TypeOK ==
    /\ \A p \in Procs : DOMAIN own[p] \subseteq Rows
    /\ \A p \in Procs : held[p] \subseteq Rows \X {"S", "X"}
    /\ seen \in [Procs -> SUBSET Lines]
    /\ phase \in [Procs -> {"new", "running", "done"}]
    /\ \A k \in TicketRows : db[k] \in Statuses \cup {"none"}
    /\ \A p \in Procs : phase[p] # "running" => rest[p] = <<>> /\ held[p] = {}

(* A QR a guest can still pay names the account the venue has now: a       *)
(* change of the PromptPay account never overtakes a payment attempt.      *)
QrIsCurrent ==
    \A q \in Procs : db[q].status = "pending" => db[q].account = db["venue"]

(* After an 86 nobody has an unstarted line of the item on a live tab, not *)
(* even from an order that was being placed meanwhile.  A payment in       *)
(* flight when the 86 came by holds lines back for good, however it ends;  *)
(* so any payment of the visit is excused.                                 *)
SoldOutReachesAll ==
    db["menu"] = "off" /\ db["visit"] # "closed" =>
        \/ \E q \in Procs : db[q] # NoPayment
        \/ \A l \in Lines : db[l] = "active" => db[TicketRowOf[l]] # "pending"

(* BRIEF-027: the lock order menu, visit, ticket leaves no cycle of        *)
(* transactions waiting for each other.  What breaks it is one statement:  *)
(* every cycle has an adjustment in it that holds a line and waits for its *)
(* visit.                                                                  *)
OnlyAdjustmentsDeadlock ==
    (\E p \in Procs : Deadlocked(p)) =>
        \E p \in Procs : Deadlocked(p) /\ Op(p) = "lockAdjustable"
===============================================================================
